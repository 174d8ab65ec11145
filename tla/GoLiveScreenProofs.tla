------------------------- MODULE GoLiveScreenProofs -------------------------
(***************************************************************************)
(* The go-live page for any number of broadcasts, cameras and stops: its   *)
(* types, that a visit without slips releases what it took (StopReleases), *)
(* and that a recording is uploaded once and for its own live, with a      *)
(* banner that tells the truth (RecordingsHonest).                         *)
(***************************************************************************)
EXTENDS GoLiveScreen, SumTheorems, TLAPS

\* Nothing may overrun the bound on cameras while calls are pending.
PageTypes == GoLiveTypeOK /\ cams + asked <= MaxCams

Undone(g) == casts[g].stage # "done"
Deleting(k) == stops[k].stage = "delete"
Rest == {"none", "offer", "closed"}

\* In a visit without slips: who will close a connection, and who will take the
\* recorder.
ConnectionHeld(g) ==
  casts[g].pc \in Rest \/ (mounted /\ whipSessionRef = g)
                       \/ \E k \in DOMAIN stops : Deleting(k) /\ stops[k].session = g
RecorderHeld(g) ==
  casts[g].rec # "recording" \/ (mounted /\ recorderRef = g)
    \/ \E k \in DOMAIN stops : stops[k].stage \in {"delete", "encode"} /\ stops[k].rec = g
EverythingHeld ==
  /\ lit \subseteq {streamRef} /\ (~mounted => lit = {})
  /\ \A g \in DOMAIN casts : ConnectionHeld(g) /\ RecorderHeld(g)
  /\ \A k \in DOMAIN stops : stops[k].rec # 0 => stops[k].live # 0 /\ stops[k].page

\* In a visit without slips, while the page is there: its phases.
NothingOpen == whipSessionRef = 0 /\ recorderRef = 0 /\ \A k \in DOMAIN stops : ~Deleting(k)
AllDone == \A g \in DOMAIN casts : ~Undone(g)
Phases ==
  /\ asked > 0 => asked = 1 /\ status = "requesting-devices"
  /\ status = "requesting-devices" => streamRef = 0
  /\ status = "idle" => streamRef = 0
  /\ streamRef = 0 => NothingOpen /\ AllDone
                      /\ status \in {"idle", "requesting-devices", "error"}
  /\ status = "ready" => NothingOpen /\ AllDone
  /\ status = "live" => whipSessionRef # 0
  /\ whipSessionRef = 0 => NothingOpen
  /\ whipSessionRef # 0 => AllDone /\ status \in {"connecting", "live", "error"}
  /\ \A g \in DOMAIN casts : Undone(g) => status = "connecting"
  /\ \A g, h \in DOMAIN casts : Undone(g) /\ Undone(h) => g = h
  /\ \A k \in DOMAIN stops : Deleting(k) => stops[k].session = whipSessionRef /\ recorderRef = 0
  /\ \A k, m \in DOMAIN stops : Deleting(k) /\ Deleting(m) => k = m
  /\ recorderRef # 0 => created # 0

Tidy == slips = {} =>
  /\ EverythingHeld
  /\ mounted => Phases
  /\ ~mounted => asked = 0 /\ AllDone

\* Each recorder is in one place, and came from a cast that is done.
RecorderOf(g) == g # 0 => g \in DOMAIN casts /\ ~Undone(g)
OneRecorder ==
  /\ RecorderOf(recorderRef)
  /\ \A k \in DOMAIN stops : RecorderOf(stops[k].rec)
  /\ \A k \in DOMAIN stops : stops[k].rec # 0 => stops[k].rec # recorderRef
  /\ \A k, m \in DOMAIN stops : stops[k].rec # 0 /\ stops[k].rec = stops[m].rec => k = m

\* What a stop goes on to upload.
ForCloudflare(s) == s.rec # 0 /\ s.live \in DOMAIN casts /\ casts[s.live].backend = "cloudflare"
Uploads ==
  /\ \A k \in DOMAIN stops : stops[k].stage \in {"encode", "url"} => ForCloudflare(stops[k])
  /\ \A k \in DOMAIN stops : stops[k].live # 0 => stops[k].live \in DOMAIN casts
  /\ \A t \in DOMAIN tasks : \E k \in DOMAIN stops :
       /\ stops[k].stage = "done" /\ ForCloudflare(stops[k])
       /\ tasks[t].blob = stops[k].rec /\ tasks[t].live = stops[k].live
  /\ \A t, u \in DOMAIN tasks : tasks[t].blob = tasks[u].blob => t = u

\* The recorder that a stop will take is the one of the live it will name, as long
\* as startRecorder never threw over the recorder of an earlier broadcast.
Matched == "stale" \notin slips =>
  /\ mounted => recorderRef \in {0, created}
  /\ \A k \in DOMAIN stops : stops[k].rec \in {0, stops[k].live}

\* The rows: a link names a video that landed and was uploaded for that live.
Busy(t) == tasks[t].stage \in {"load", "tus", "link"}
LinksSound ==
  /\ \A t \in DOMAIN tasks : tasks[t].stage = "link" => t \in stored
  /\ \A l \in Cast : linked[l] # 0 => linked[l] \in stored /\ tasks[linked[l]].live = l
  /\ \A l \in Cast : rows[l] = "done" => linked[l] # 0
BusyRows == "stale" \notin slips => \A t \in DOMAIN tasks : Busy(t) => isActive(tasks[t].live)

GoLiveInv ==
  PageTypes /\ Tidy /\ OneRecorder /\ Uploads /\ Matched /\ LinksSound /\ BusyRows

-----------------------------------------------------------------------------
(* What the steps do to the casts, the stops and the tasks, entry by entry. *)

\* One cast is replaced, all others stay.
CastBecomes(g, c) ==
  /\ DOMAIN casts' = DOMAIN casts /\ Len(casts') = Len(casts)
  /\ casts'[g] = c /\ \A h \in DOMAIN casts \ {g} : casts'[h] = casts[h]

\* No cast goes back or changes its backend; none is lost.
CastsGrow ==
  /\ Len(casts') >= Len(casts)
  /\ \A g \in DOMAIN casts : /\ g \in DOMAIN casts'
                             /\ casts'[g].backend = casts[g].backend
                             /\ casts[g].stage = "done" => casts'[g].stage = "done"

\* One stop goes on to another stage.
StopBecomes(k, stage) ==
  /\ DOMAIN stops' = DOMAIN stops
  /\ \A m \in DOMAIN stops :
       /\ stops'[m].page = stops[m].page /\ stops'[m].session = stops[m].session
       /\ stops'[m].rec = stops[m].rec /\ stops'[m].live = stops[m].live
       /\ stops'[m].stage = IF m = k THEN stage ELSE stops[m].stage

\* A stop is added.
StopAdded(n, s) ==
  /\ n \notin DOMAIN stops /\ DOMAIN stops' = (DOMAIN stops) \cup {n}
  /\ stops'[n] = s /\ \A m \in DOMAIN stops : stops'[m] = stops[m]

\* The casts and the stops are what the types say.
Shape == casts \in Seq(CastState) /\ Len(casts) <= MaxCasts /\ stops \in Seq(StopState)

LEMMA ShapeFacts ==
  ASSUME PageTypes
  PROVE  /\ Shape /\ DOMAIN casts = 1..Len(casts) /\ Len(casts) \in Nat
         /\ 0 \notin DOMAIN casts
         /\ \A g \in DOMAIN casts : casts[g] \in CastState
         /\ \A k \in DOMAIN stops : stops[k] \in StopState
BY DEF PageTypes, GoLiveTypeOK, Shape

LEMMA CastUpdate ==
  ASSUME Shape, NEW g \in DOMAIN casts, NEW c \in CastState, Becomes(g, c)
  PROVE  casts' \in Seq(CastState) /\ CastBecomes(g, c)
BY SeqUpdate DEF Shape, Becomes, CastBecomes

LEMMA CastFields ==
  ASSUME NEW c \in CastState
  PROVE  /\ \A x \in {"create", "endpoint", "offer", "done"} :
              /\ [c EXCEPT !.stage = x] \in CastState
              /\ [c EXCEPT !.stage = x].stage = x /\ [c EXCEPT !.stage = x].pc = c.pc
              /\ [c EXCEPT !.stage = x].rec = c.rec
              /\ [c EXCEPT !.stage = x].backend = c.backend
         /\ \A x \in {"none", "offer", "answered", "connected", "disconnected",
                      "failed", "closed"} :
              /\ [c EXCEPT !.pc = x] \in CastState
              /\ [c EXCEPT !.pc = x].stage = c.stage /\ [c EXCEPT !.pc = x].pc = x
              /\ [c EXCEPT !.pc = x].rec = c.rec
              /\ [c EXCEPT !.pc = x].backend = c.backend
         /\ \A x \in {"none", "recording", "taken", "cancelled"} :
              /\ [c EXCEPT !.rec = x] \in CastState
              /\ [c EXCEPT !.rec = x].stage = c.stage /\ [c EXCEPT !.rec = x].pc = c.pc
              /\ [c EXCEPT !.rec = x].rec = x
              /\ [c EXCEPT !.rec = x].backend = c.backend
BY DEF CastState

LEMMA StopUpdate ==
  ASSUME Shape, NEW k \in DOMAIN stops, NEW stage \in {"delete", "encode", "url", "done"},
         stops' = [stops EXCEPT ![k].stage = stage]
  PROVE  stops' \in Seq(StopState) /\ StopBecomes(k, stage)
<1> DEFINE s == [stops[k] EXCEPT !.stage = stage]
<1>1. stops[k] \in StopState
  BY DEF Shape
<1>2. /\ s \in StopState /\ s.stage = stage /\ s.page = stops[k].page
      /\ s.session = stops[k].session /\ s.rec = stops[k].rec /\ s.live = stops[k].live
  BY <1>1 DEF StopState
<1>3. stops' = [stops EXCEPT ![k] = s]
  OBVIOUS
<1> HIDE DEF s
<1>4. /\ stops' \in Seq(StopState) /\ DOMAIN stops' = DOMAIN stops
      /\ stops'[k] = s /\ \A m \in DOMAIN stops \ {k} : stops'[m] = stops[m]
  BY <1>2, <1>3, SeqUpdate DEF Shape
<1> QED
  BY <1>2, <1>4 DEF StopBecomes

LEMMA StopAppend ==
  ASSUME Shape, NEW s \in StopState, stops' = Append(stops, s)
  PROVE  stops' \in Seq(StopState) /\ \E n \in Nat : StopAdded(n, s)
<1>1. stops \in Seq(StopState) /\ Len(stops) + 1 \in Nat
  BY DEF Shape
<1>2. /\ stops' \in Seq(StopState) /\ Len(stops) + 1 \notin DOMAIN stops
      /\ DOMAIN stops' = (DOMAIN stops) \cup {Len(stops) + 1}
      /\ stops'[Len(stops) + 1] = s /\ \A m \in DOMAIN stops : stops'[m] = stops[m]
  BY <1>1, SeqAppend
<1> QED
  BY <1>1, <1>2 DEF StopAdded

\* Closing a session or cancelling a recorder, if there is one.
LEMMA ClosedFacts ==
  ASSUME Shape, NEW g
  PROVE  /\ Closed(g) \in Seq(CastState) /\ Len(Closed(g)) = Len(casts)
         /\ DOMAIN Closed(g) = DOMAIN casts
         /\ \A h \in DOMAIN casts :
              /\ Closed(g)[h].stage = casts[h].stage /\ Closed(g)[h].rec = casts[h].rec
              /\ Closed(g)[h].backend = casts[h].backend
              /\ Closed(g)[h].pc = IF h = g THEN "closed" ELSE casts[h].pc
<1>1. 0 \notin DOMAIN casts
  BY DEF Shape
<1>2. CASE g \notin DOMAIN casts
  <2>1. Closed(g) = casts
    BY <1>2 DEF Closed, Shape
  <2> QED
    BY <1>2, <2>1 DEF Shape
<1>3. CASE g \in DOMAIN casts
  <2> DEFINE c == [casts[g] EXCEPT !.pc = "closed"]
  <2>1. casts[g] \in CastState
    BY <1>3 DEF Shape
  <2>2. /\ c \in CastState /\ c.pc = "closed" /\ c.stage = casts[g].stage
        /\ c.rec = casts[g].rec /\ c.backend = casts[g].backend
    BY <2>1, CastFields, ZenonT(60)
  <2>3. Closed(g) = [casts EXCEPT ![g] = c]
    BY <1>1, <1>3 DEF Closed
  <2> HIDE DEF c
  <2>4. /\ Closed(g) \in Seq(CastState) /\ Len(Closed(g)) = Len(casts)
        /\ DOMAIN Closed(g) = DOMAIN casts /\ Closed(g)[g] = c
        /\ \A h \in DOMAIN casts \ {g} : Closed(g)[h] = casts[h]
    BY <1>3, <2>2, <2>3, SeqUpdate DEF Shape
  <2> QED
    BY <2>2, <2>4
<1> QED
  BY <1>2, <1>3

LEMMA CancelledFacts ==
  ASSUME NEW cs \in Seq(CastState), NEW g
  PROVE  /\ Cancelled(cs, g) \in Seq(CastState) /\ Len(Cancelled(cs, g)) = Len(cs)
         /\ DOMAIN Cancelled(cs, g) = DOMAIN cs
         /\ \A h \in DOMAIN cs :
              /\ Cancelled(cs, g)[h].stage = cs[h].stage
              /\ Cancelled(cs, g)[h].pc = cs[h].pc
              /\ Cancelled(cs, g)[h].backend = cs[h].backend
              /\ Cancelled(cs, g)[h].rec = IF h = g THEN "cancelled" ELSE cs[h].rec
<1>1. 0 \notin DOMAIN cs
  OBVIOUS
<1>2. CASE g \notin DOMAIN cs
  <2>1. Cancelled(cs, g) = cs
    BY <1>2 DEF Cancelled
  <2> QED
    BY <1>2, <2>1
<1>3. CASE g \in DOMAIN cs
  <2> DEFINE c == [cs[g] EXCEPT !.rec = "cancelled"]
  <2>1. cs[g] \in CastState
    BY <1>3
  <2>2. /\ c \in CastState /\ c.rec = "cancelled" /\ c.stage = cs[g].stage
        /\ c.pc = cs[g].pc /\ c.backend = cs[g].backend
    BY <2>1, CastFields
  <2>3. Cancelled(cs, g) = [cs EXCEPT ![g] = c]
    BY <1>1, <1>3 DEF Cancelled
  <2> HIDE DEF c
  <2>4. /\ Cancelled(cs, g) \in Seq(CastState) /\ Len(Cancelled(cs, g)) = Len(cs)
        /\ DOMAIN Cancelled(cs, g) = DOMAIN cs /\ Cancelled(cs, g)[g] = c
        /\ \A h \in DOMAIN cs \ {g} : Cancelled(cs, g)[h] = cs[h]
    BY <1>3, <2>2, <2>3, SeqUpdate
  <2> QED
    BY <2>2, <2>4
<1> QED
  BY <1>2, <1>3

-----------------------------------------------------------------------------
(* Steps that leave the stops, the recorder's ref and the queue alone. *)

LEMMA QueueUntouched ==
  ASSUME PageTypes, LinksSound, BusyRows, UNCHANGED uploadVars, slips \subseteq slips'
  PROVE  UploadTypeOK' /\ LinksSound' /\ BusyRows'
<1>1. UploadTypeOK'
  BY DEF PageTypes, GoLiveTypeOK, UploadTypeOK, uploadVars
<1>2. LinksSound'
  BY DEF LinksSound, uploadVars
<1>3. BusyRows'
  BY DEF BusyRows, Busy, isActive, uploadVars
<1> QED
  BY <1>1, <1>2, <1>3

LEMMA UploadsCarried ==
  ASSUME Uploads, CastsGrow, UNCHANGED <<stops, tasks>>
  PROVE  Uploads'
BY DEF Uploads, ForCloudflare, CastsGrow

LEMMA RecordersCarried ==
  ASSUME OneRecorder, Uploads, CastsGrow, UNCHANGED <<stops, recorderRef, tasks>>
  PROVE  OneRecorder' /\ Uploads'
<1>1. OneRecorder'
  BY DEF OneRecorder, RecorderOf, Undone, CastsGrow
<1>2. Uploads'
  BY UploadsCarried
<1> QED
  BY <1>1, <1>2

LEMMA AupKept ==
  ASSUME GoLiveInv, SetAup
  PROVE  GoLiveInv'
<1>1. UNCHANGED <<mounted, status, created, streamRef, whipSessionRef, recorderRef,
                  asked, cams, lit, casts, stops, canRecord, slips, uploadVars, tasks>>
  BY DEF SetAup, uploadVars
<1>2. CastsGrow
  BY <1>1, ShapeFacts DEF CastsGrow, GoLiveInv
<1>3. UploadTypeOK' /\ LinksSound' /\ BusyRows'
  BY <1>1, QueueUntouched DEF GoLiveInv
<1>4. PageTypes'
  BY <1>1, <1>3 DEF PageTypes, GoLiveTypeOK, GoLiveInv, SetAup
<1>5. OneRecorder' /\ Uploads'
  BY <1>1, <1>2, RecordersCarried DEF GoLiveInv
<1>6. Tidy'
  BY <1>1 DEF GoLiveInv, Tidy, EverythingHeld, ConnectionHeld, RecorderHeld, Phases,
    NothingOpen, AllDone, Undone, Deleting
<1>7. Matched'
  BY <1>1 DEF GoLiveInv, Matched
<1> QED
  BY <1>3, <1>4, <1>5, <1>6, <1>7 DEF GoLiveInv

LEMMA StartPreviewKept ==
  ASSUME GoLiveInv, startPreview
  PROVE  GoLiveInv'
<1>1. /\ mounted /\ status \in {"idle", "error"} /\ cams + asked < MaxCams
      /\ status' = "requesting-devices" /\ asked' = asked + 1
      /\ slips \subseteq slips' /\ (slips' = {} => slips = {} /\ streamRef = 0)
      /\ slips' \subseteq slips \cup {"retry"}
      /\ UNCHANGED <<mounted, created, aupAccepted, streamRef, whipSessionRef, recorderRef,
                     cams, lit, casts, stops, canRecord, uploadVars, tasks>>
  BY DEF startPreview, uploadVars, Offers, StickyCta, CameraPreview, canGoLive, SetStatus
<1>2. CastsGrow
  BY <1>1, ShapeFacts DEF CastsGrow, GoLiveInv
<1>3. UploadTypeOK' /\ LinksSound' /\ BusyRows'
  BY <1>1, QueueUntouched DEF GoLiveInv
<1>4. PageTypes'
  BY <1>1, <1>3, GoLiveConstants DEF PageTypes, GoLiveTypeOK, GoLiveInv, ConnectionStatus
<1>5. OneRecorder' /\ Uploads'
  BY <1>1, <1>2, RecordersCarried DEF GoLiveInv
<1>6. Tidy'
  <2>1. SUFFICES ASSUME slips' = {}
                 PROVE  (EverythingHeld /\ Phases)'
    BY <1>1 DEF Tidy
  <2>2. EverythingHeld /\ Phases /\ streamRef = 0
    BY <1>1, <2>1 DEF GoLiveInv, Tidy
  <2>3. EverythingHeld'
    BY <1>1, <2>2 DEF EverythingHeld, ConnectionHeld, RecorderHeld, Deleting
  <2>4. asked = 0
    BY <1>1, <2>2 DEF Phases, GoLiveInv, PageTypes, GoLiveTypeOK
  <2>5. Phases'
    BY <1>1, <2>2, <2>4 DEF Phases, NothingOpen, AllDone, Undone, Deleting
  <2> QED
    BY <2>3, <2>5
<1>7. Matched'
  BY <1>1 DEF GoLiveInv, Matched
<1> QED
  BY <1>3, <1>4, <1>5, <1>6, <1>7 DEF GoLiveInv

LEMMA PreviewReadyKept ==
  ASSUME GoLiveInv, previewReady
  PROVE  GoLiveInv'
<1>1. /\ asked > 0 /\ asked' = asked - 1 /\ cams' = cams + 1
      /\ lit' = lit \cup {cams + 1} /\ streamRef' = cams + 1
      /\ status' = (IF mounted THEN "ready" ELSE status)
      /\ UNCHANGED <<mounted, created, aupAccepted, whipSessionRef, recorderRef, casts,
                     stops, canRecord, slips, uploadVars, tasks>>
  BY DEF previewReady, uploadVars, SetStatus
<1>2. CastsGrow
  BY <1>1, ShapeFacts DEF CastsGrow, GoLiveInv
<1>3. UploadTypeOK' /\ LinksSound' /\ BusyRows'
  BY <1>1, QueueUntouched DEF GoLiveInv
<1>4. PageTypes'
  BY <1>1, <1>3, GoLiveConstants DEF PageTypes, GoLiveTypeOK, GoLiveInv, ConnectionStatus
<1>5. OneRecorder' /\ Uploads'
  BY <1>1, <1>2, RecordersCarried DEF GoLiveInv
<1>c. cams + 1 # 0
  BY GoLiveConstants DEF GoLiveInv, PageTypes, GoLiveTypeOK
<1>6. Tidy'
  <2>1. SUFFICES ASSUME slips' = {}
                 PROVE  mounted' /\ (EverythingHeld /\ Phases)'
    BY <1>1 DEF Tidy
  <2>2. mounted /\ EverythingHeld /\ Phases
    BY <1>1, <2>1 DEF GoLiveInv, Tidy, PageTypes, GoLiveTypeOK
  <2>3. asked = 1 /\ status = "requesting-devices" /\ streamRef = 0 /\ NothingOpen /\ AllDone
    BY <1>1, <2>2 DEF Phases
  <2>4. 0 \notin lit
    BY DEF GoLiveInv, PageTypes, GoLiveTypeOK
  <2>a. lit = {}
    BY <2>2, <2>3, <2>4 DEF EverythingHeld
  <2>b. lit' \subseteq {streamRef'}
    BY <1>1, <2>a
  <2>5. EverythingHeld'
    BY <1>1, <2>2, <2>b DEF EverythingHeld, ConnectionHeld, RecorderHeld, Deleting
  <2>6. Phases'
    BY <1>1, <1>c, <2>2, <2>3 DEF Phases, NothingOpen, AllDone, Undone, Deleting
  <2> QED
    BY <1>1, <2>2, <2>5, <2>6
<1>7. Matched'
  BY <1>1, <1>c DEF GoLiveInv, Matched
<1> QED
  BY <1>3, <1>4, <1>5, <1>6, <1>7 DEF GoLiveInv

LEMMA PreviewRefusedKept ==
  ASSUME GoLiveInv, previewRefused
  PROVE  GoLiveInv'
<1>1. /\ asked > 0 /\ asked' = asked - 1
      /\ status' = (IF mounted THEN "error" ELSE status)
      /\ UNCHANGED <<mounted, created, aupAccepted, streamRef, whipSessionRef, recorderRef,
                     cams, lit, casts, stops, canRecord, slips, uploadVars, tasks>>
  BY DEF previewRefused, uploadVars, SetStatus
<1>2. CastsGrow
  BY <1>1, ShapeFacts DEF CastsGrow, GoLiveInv
<1>3. UploadTypeOK' /\ LinksSound' /\ BusyRows'
  BY <1>1, QueueUntouched DEF GoLiveInv
<1>4. PageTypes'
  BY <1>1, <1>3, GoLiveConstants DEF PageTypes, GoLiveTypeOK, GoLiveInv, ConnectionStatus
<1>5. OneRecorder' /\ Uploads'
  BY <1>1, <1>2, RecordersCarried DEF GoLiveInv
<1>6. Tidy'
  <2>1. SUFFICES ASSUME slips' = {}
                 PROVE  mounted' /\ (EverythingHeld /\ Phases)'
    BY <1>1 DEF Tidy
  <2>2. mounted /\ EverythingHeld /\ Phases
    BY <1>1, <2>1 DEF GoLiveInv, Tidy, PageTypes, GoLiveTypeOK
  <2>3. asked = 1 /\ status = "requesting-devices" /\ streamRef = 0 /\ NothingOpen /\ AllDone
    BY <1>1, <2>2 DEF Phases
  <2>5. EverythingHeld'
    BY <1>1, <2>2 DEF EverythingHeld, ConnectionHeld, RecorderHeld, Deleting
  <2>6. Phases'
    BY <1>1, <2>2, <2>3 DEF Phases, NothingOpen, AllDone, Undone, Deleting
  <2> QED
    BY <1>1, <2>2, <2>5, <2>6
<1>7. Matched'
  BY <1>1 DEF GoLiveInv, Matched
<1> QED
  BY <1>3, <1>4, <1>5, <1>6, <1>7 DEF GoLiveInv

-----------------------------------------------------------------------------
(* goLive *)

LEMMA GoLiveKept ==
  ASSUME NEW b \in Available, GoLiveInv, goLive(b)
  PROVE  GoLiveInv'
<1> DEFINE c == [backend |-> b, stage |-> "create", pc |-> "none", rec |-> "none"]
           n == Len(casts) + 1
<1>1. /\ mounted /\ status = "ready" /\ streamRef # 0 /\ Len(casts) < MaxCasts
      /\ status' = "connecting" /\ casts' = Append(casts, c)
      /\ UNCHANGED <<mounted, created, aupAccepted, streamRef, whipSessionRef, recorderRef,
                     asked, cams, lit, stops, canRecord, slips, uploadVars, tasks>>
  BY DEF goLive, uploadVars, SetStatus, Offers, StickyCta, CameraPreview, canGoLive
<1>2. c \in CastState
  BY DEF CastState
<1>3. /\ casts \in Seq(CastState) /\ Len(casts) \in Nat /\ DOMAIN casts = 1..Len(casts)
      /\ Shape
  BY ShapeFacts DEF GoLiveInv, Shape
<1>4. /\ casts' \in Seq(CastState) /\ Len(casts') = n
      /\ DOMAIN casts' = (DOMAIN casts) \cup {n} /\ n \notin DOMAIN casts
      /\ casts'[n] = c /\ \A h \in DOMAIN casts : casts'[h] = casts[h]
  BY <1>1, <1>2, <1>3, SeqAppend
<1>5. c.stage = "create" /\ c.pc = "none" /\ c.rec = "none"
  OBVIOUS
<1> HIDE DEF c
<1>6. Len(casts') >= Len(casts) /\ Len(casts') <= MaxCasts
  BY <1>1, <1>3, <1>4, GoLiveConstants
<1> HIDE DEF n
<1>7. CastsGrow
  BY <1>4, <1>6 DEF CastsGrow
<1>8. UploadTypeOK' /\ LinksSound' /\ BusyRows'
  BY <1>1, QueueUntouched DEF GoLiveInv
<1>9. PageTypes'
  BY <1>1, <1>3, <1>4, <1>6, <1>8, GoLiveConstants DEF PageTypes, GoLiveTypeOK, GoLiveInv, ConnectionStatus
<1>10. OneRecorder' /\ Uploads'
  BY <1>1, <1>7, RecordersCarried DEF GoLiveInv
<1>11. Tidy'
  <2>1. SUFFICES ASSUME slips' = {}
                 PROVE  (EverythingHeld /\ Phases)'
    BY <1>1 DEF Tidy
  <2>2. EverythingHeld /\ Phases
    BY <1>1, <2>1 DEF GoLiveInv, Tidy
  <2>3. EverythingHeld'
    BY <1>1, <1>4, <1>5, <2>2 DEF EverythingHeld, ConnectionHeld, RecorderHeld, Deleting, Rest
  <2>4. NothingOpen /\ AllDone /\ asked = 0
    BY <1>1, <2>2 DEF Phases, GoLiveInv, PageTypes, GoLiveTypeOK
  <2>5. Phases'
    BY <1>1, <1>4, <1>5, <2>2, <2>4 DEF Phases, NothingOpen, AllDone, Undone, Deleting
  <2> QED
    BY <2>3, <2>5
<1>12. Matched'
  BY <1>1 DEF GoLiveInv, Matched
<1> QED
  BY <1>8, <1>9, <1>10, <1>11, <1>12 DEF GoLiveInv

\* A cast that goes on from one wait to the next, keeping its recorder.
LEMMA CastStepCarried ==
  ASSUME GoLiveInv, NEW g \in DOMAIN casts, NEW c \in CastState, Becomes(g, c),
         c.backend = casts[g].backend, casts[g].stage = "done" => c.stage = "done",
         status' \in ConnectionStatus,
         UNCHANGED <<mounted, created, aupAccepted, streamRef, whipSessionRef, recorderRef,
                     asked, cams, lit, stops, canRecord, slips, uploadVars>>
  PROVE  /\ CastBecomes(g, c) /\ PageTypes' /\ OneRecorder' /\ Uploads'
         /\ LinksSound' /\ BusyRows'
<1>1. Shape /\ DOMAIN casts = 1..Len(casts) /\ Len(casts) \in Nat
  BY ShapeFacts DEF GoLiveInv
<1>2. casts' \in Seq(CastState) /\ CastBecomes(g, c)
  BY <1>1, CastUpdate
<1>3. CastsGrow
  BY <1>1, <1>2 DEF CastBecomes, CastsGrow
<1>4. UploadTypeOK' /\ LinksSound' /\ BusyRows'
  BY QueueUntouched DEF GoLiveInv
<1>5. PageTypes'
  BY <1>2, <1>4 DEF PageTypes, GoLiveTypeOK, GoLiveInv, CastBecomes
<1>6. UNCHANGED tasks
  BY DEF uploadVars
<1>7. OneRecorder' /\ Uploads'
  BY <1>3, <1>6, RecordersCarried DEF GoLiveInv
<1> QED
  BY <1>2, <1>4, <1>5, <1>7

LEMMA LiveCreatedKept ==
  ASSUME NEW g \in DOMAIN casts, GoLiveInv, liveCreated(g)
  PROVE  GoLiveInv'
<1> DEFINE c == [casts[g] EXCEPT !.stage = "endpoint"]
<1>1. casts[g].stage = "create" /\ Becomes(g, c)
      /\ UNCHANGED <<mounted, status, created, aupAccepted, streamRef, whipSessionRef,
                     recorderRef, asked, cams, lit, stops, canRecord, slips, uploadVars>>
  BY DEF liveCreated
<1>2. casts[g] \in CastState
  BY ShapeFacts DEF GoLiveInv
<1>3. /\ c \in CastState /\ c.stage = "endpoint" /\ c.backend = casts[g].backend
      /\ c.pc = casts[g].pc /\ c.rec = casts[g].rec
  BY <1>2, CastFields, ZenonT(60)
<1> HIDE DEF c
<1>4. status' \in ConnectionStatus
  BY <1>1 DEF GoLiveInv, PageTypes, GoLiveTypeOK
<1>5. /\ CastBecomes(g, c) /\ PageTypes' /\ OneRecorder' /\ Uploads'
      /\ LinksSound' /\ BusyRows'
  BY <1>1, <1>3, <1>4, CastStepCarried
<1>6. Tidy'
  <2>1. ASSUME EverythingHeld PROVE EverythingHeld'
    BY <1>1, <1>3, <1>5, <2>1 DEF CastBecomes, EverythingHeld, ConnectionHeld, RecorderHeld, Deleting
  <2>2. ASSUME Phases PROVE Phases'
    BY <1>1, <1>3, <1>5, <2>2 DEF CastBecomes, Phases, NothingOpen, AllDone, Undone, Deleting
  <2>3. ASSUME AllDone PROVE AllDone'
    BY <1>1, <2>3 DEF AllDone, Undone
  <2> QED
    BY <1>1, <2>1, <2>2, <2>3 DEF GoLiveInv, Tidy
<1>7. Matched'
  BY <1>1, <1>3, <1>5 DEF GoLiveInv, Matched, CastBecomes
<1> QED
  BY <1>5, <1>6, <1>7 DEF GoLiveInv

LEMMA EndpointKept ==
  ASSUME NEW g \in DOMAIN casts, GoLiveInv, endpointKnown(g)
  PROVE  GoLiveInv'
<1> DEFINE c == [casts[g] EXCEPT !.stage = "offer", !.pc = "offer"]
<1>1. casts[g].stage = "endpoint" /\ streamRef # 0 /\ Becomes(g, c)
      /\ UNCHANGED <<mounted, status, created, aupAccepted, streamRef, whipSessionRef,
                     recorderRef, asked, cams, lit, stops, canRecord, slips, uploadVars>>
  BY DEF endpointKnown
<1>2. casts[g] \in CastState
  BY ShapeFacts DEF GoLiveInv
<1>3. /\ c \in CastState /\ c.stage = "offer" /\ c.backend = casts[g].backend
      /\ c.pc = "offer" /\ c.rec = casts[g].rec
  BY <1>2 DEF CastState
<1> HIDE DEF c
<1>4. status' \in ConnectionStatus
  BY <1>1 DEF GoLiveInv, PageTypes, GoLiveTypeOK
<1>5. /\ CastBecomes(g, c) /\ PageTypes' /\ OneRecorder' /\ Uploads'
      /\ LinksSound' /\ BusyRows'
  BY <1>1, <1>3, <1>4, CastStepCarried
<1>6. Tidy'
  <2>1. ASSUME EverythingHeld PROVE EverythingHeld'
    BY <1>1, <1>3, <1>5, <2>1 DEF CastBecomes, EverythingHeld, ConnectionHeld, RecorderHeld, Deleting, Rest
  <2>2. ASSUME Phases PROVE Phases'
    BY <1>1, <1>3, <1>5, <2>2 DEF CastBecomes, Phases, NothingOpen, AllDone, Undone, Deleting
  <2>3. ASSUME AllDone PROVE AllDone'
    BY <1>1, <2>3 DEF AllDone, Undone
  <2> QED
    BY <1>1, <2>1, <2>2, <2>3 DEF GoLiveInv, Tidy
<1>7. Matched'
  BY <1>1, <1>3, <1>5 DEF GoLiveInv, Matched, CastBecomes
<1> QED
  BY <1>5, <1>6, <1>7 DEF GoLiveInv

LEMMA GoLiveFailsKept ==
  ASSUME NEW g \in DOMAIN casts, GoLiveInv, goLiveFails(g)
  PROVE  GoLiveInv'
<1>1. casts[g] \in CastState
  BY ShapeFacts DEF GoLiveInv
<1>2. PICK c \in CastState : /\ c.stage = "done" /\ c.backend = casts[g].backend
                             /\ c.pc \in {casts[g].pc, "closed", "offer"}
                             /\ c.rec = casts[g].rec /\ Becomes(g, c)
  <2>1. CASE Becomes(g, [casts[g] EXCEPT !.stage = "done"])
    BY <1>1, <2>1, CastFields, ZenonT(60)
  <2>2. CASE \E pc \in {"closed", "offer"} :
               Becomes(g, [casts[g] EXCEPT !.stage = "done", !.pc = pc])
    <3>1. PICK pc \in {"closed", "offer"} :
            Becomes(g, [casts[g] EXCEPT !.stage = "done", !.pc = pc])
      BY <2>2
    <3> DEFINE d == [casts[g] EXCEPT !.stage = "done", !.pc = pc]
    <3>2. d \in CastState /\ d.stage = "done" /\ d.pc = pc /\ d.rec = casts[g].rec
          /\ d.backend = casts[g].backend
      BY <1>1 DEF CastState
    <3> HIDE DEF d
    <3> QED
      BY <3>1, <3>2 DEF d
  <2> QED
    BY <2>1, <2>2 DEF goLiveFails
<1>3. /\ casts[g].stage # "done" /\ status' = (IF mounted THEN "error" ELSE status)
      /\ UNCHANGED <<mounted, created, aupAccepted, streamRef, whipSessionRef, recorderRef,
                     asked, cams, lit, stops, canRecord, slips, uploadVars>>
  BY DEF goLiveFails, SetStatus
<1>4. status' \in ConnectionStatus
  BY <1>3 DEF GoLiveInv, PageTypes, GoLiveTypeOK, ConnectionStatus
<1>5. /\ CastBecomes(g, c) /\ PageTypes' /\ OneRecorder' /\ Uploads'
      /\ LinksSound' /\ BusyRows'
  BY <1>2, <1>3, <1>4, CastStepCarried
<1>6. Tidy'
  <2>1. ASSUME EverythingHeld PROVE EverythingHeld'
    BY <1>2, <1>3, <1>5, <2>1 DEF CastBecomes, EverythingHeld, ConnectionHeld, RecorderHeld, Deleting, Rest
  <2>2. ASSUME Phases, mounted PROVE Phases'
    <3>1. streamRef # 0 /\ whipSessionRef = 0 /\ status = "connecting"
      BY <1>3, <2>2 DEF Phases, AllDone, Undone
    <3>2. \A h \in DOMAIN casts \ {g} : ~Undone(h)
      BY <1>3, <2>2 DEF Phases, Undone
    <3> QED
      BY <1>2, <1>3, <1>5, <2>2, <3>1, <3>2 DEF CastBecomes, Phases, NothingOpen, AllDone, Undone, Deleting
  <2>3. ASSUME AllDone PROVE AllDone'
    BY <1>3, <2>3 DEF AllDone, Undone
  <2> QED
    BY <1>3, <2>1, <2>2, <2>3 DEF GoLiveInv, Tidy
<1>7. Matched'
  BY <1>2, <1>3, <1>5 DEF GoLiveInv, Matched, CastBecomes
<1> QED
  BY <1>5, <1>6, <1>7 DEF GoLiveInv

LEMMA ConnectionKept ==
  ASSUME NEW g \in DOMAIN casts, NEW s \in {"connected", "disconnected", "failed"},
         GoLiveInv, onConnectionStateChange(g, s)
  PROVE  GoLiveInv'
<1> DEFINE c == [casts[g] EXCEPT !.pc = s]
<1>1. /\ casts[g].pc \notin Rest /\ Becomes(g, c)
      /\ status' \in {status, "live", "error"}
      /\ s = "failed" \/ status' \in {status, "live"}
      /\ UNCHANGED <<mounted, created, aupAccepted, streamRef, whipSessionRef, recorderRef,
                     asked, cams, lit, stops, canRecord, slips, uploadVars>>
      /\ ~mounted => status' = status
  BY DEF onConnectionStateChange, ConnMoves, Rest, SetStatus
<1>2. casts[g] \in CastState
  BY ShapeFacts DEF GoLiveInv
<1>3. /\ c \in CastState /\ c.stage = casts[g].stage /\ c.backend = casts[g].backend
      /\ c.pc = s /\ c.rec = casts[g].rec
  BY <1>2 DEF CastState
<1> HIDE DEF c
<1>4. status' \in ConnectionStatus
  BY <1>1 DEF GoLiveInv, PageTypes, GoLiveTypeOK, ConnectionStatus
<1>5. /\ CastBecomes(g, c) /\ PageTypes' /\ OneRecorder' /\ Uploads'
      /\ LinksSound' /\ BusyRows'
  BY <1>1, <1>3, <1>4, CastStepCarried
<1>6. Tidy'
  <2>1. ASSUME EverythingHeld PROVE EverythingHeld'
    BY <1>1, <1>3, <1>5, <2>1 DEF CastBecomes, EverythingHeld, ConnectionHeld, RecorderHeld, Deleting, Rest
  <2>2. ASSUME EverythingHeld, Phases, mounted PROVE Phases'
    <3>1. whipSessionRef = g
      BY <1>1, <2>2 DEF EverythingHeld, ConnectionHeld, Phases
    <3>2. whipSessionRef # 0
      BY <3>1, ShapeFacts DEF GoLiveInv
    <3>3. AllDone /\ status' \in {"connecting", "live", "error"} /\ asked = 0 /\ streamRef # 0
      BY <1>1, <2>2, <3>2 DEF Phases, NothingOpen, GoLiveInv, PageTypes, GoLiveTypeOK
    <3>4. AllDone'
      BY <1>3, <1>5, <3>3 DEF CastBecomes, AllDone, Undone
    <3> QED
      BY <1>1, <2>2, <3>2, <3>3, <3>4 DEF Phases, NothingOpen, AllDone, Undone, Deleting
  <2>3. ASSUME AllDone PROVE AllDone'
    BY <1>3, <1>5, <2>3 DEF CastBecomes, AllDone, Undone
  <2> QED
    BY <1>1, <2>1, <2>2, <2>3 DEF GoLiveInv, Tidy
<1>7. Matched'
  BY <1>1, <1>3, <1>5 DEF GoLiveInv, Matched, CastBecomes
<1> QED
  BY <1>5, <1>6, <1>7 DEF GoLiveInv

LEMMA PublishedKept ==
  ASSUME NEW g \in DOMAIN casts, GoLiveInv, published(g)
  PROVE  GoLiveInv'
<1>1. casts[g] \in CastState /\ g # 0 /\ DOMAIN casts = 1..Len(casts) /\ Shape
  BY ShapeFacts DEF GoLiveInv
<1>2. PICK rec \in {"none", "recording"} :
        /\ publishWhip(g, rec)
        /\ \/ /\ created' = (IF mounted THEN g ELSE created)
              /\ recorderRef' = (IF rec = "recording" THEN g ELSE recorderRef)
              /\ rec = "none" /\ recorderRef # 0 => "stale" \in slips'
              /\ slips \subseteq slips' /\ slips' \subseteq slips \cup {"stale"}
              /\ UNCHANGED status
           \/ /\ rec = "none" /\ status' = (IF mounted THEN "error" ELSE status)
              /\ UNCHANGED <<created, recorderRef, slips>>
  BY DEF published, SetCreated, SetStatus
<1>3. /\ casts[g].stage = "offer" /\ whipSessionRef' = g
      /\ UNCHANGED <<mounted, aupAccepted, streamRef, asked, cams, lit, stops,
                     canRecord, uploadVars, tasks>>
  BY DEF published, uploadVars
<1>s. slips \subseteq slips' /\ slips' \subseteq slips \cup {"stale"}
  BY <1>2
<1> DEFINE c == [casts[g] EXCEPT !.stage = "done", !.pc = "answered", !.rec = rec]
<1>4. /\ c \in CastState /\ c.stage = "done" /\ c.backend = casts[g].backend
      /\ c.pc = "answered" /\ c.rec = rec /\ Becomes(g, c)
  BY <1>1, <1>2 DEF CastState, publishWhip
<1> HIDE DEF c
<1>5. casts' \in Seq(CastState) /\ CastBecomes(g, c)
  BY <1>1, <1>4, CastUpdate
<1>6. CastsGrow
  BY <1>1, <1>4, <1>5 DEF CastBecomes, CastsGrow, Shape
<1>7. UploadTypeOK' /\ LinksSound' /\ BusyRows'
  BY <1>3, <1>s, QueueUntouched DEF GoLiveInv
<1>8. PageTypes'
  BY <1>1, <1>2, <1>3, <1>5, <1>7, <1>s
     DEF PageTypes, GoLiveTypeOK, GoLiveInv, CastBecomes, ConnectionStatus
<1>9. Uploads'
  BY <1>3, <1>6, UploadsCarried DEF GoLiveInv
<1>10. recorderRef' \in {g, recorderRef} /\ (recorderRef' = g => rec = "recording" \/ recorderRef = g)
  BY <1>2
<1>11. OneRecorder'
  BY <1>1, <1>3, <1>4, <1>5, <1>6, <1>10 DEF GoLiveInv, OneRecorder, RecorderOf, Undone, CastBecomes, CastsGrow
<1>13. Matched'
  <2>1. SUFFICES ASSUME "stale" \notin slips'
                 PROVE  /\ mounted => recorderRef' \in {0, created'}
                        /\ \A k \in DOMAIN stops : stops[k].rec \in {0, stops[k].live}
    BY <1>3 DEF Matched
  <2>2. /\ mounted => recorderRef \in {0, created}
        /\ \A k \in DOMAIN stops : stops[k].rec \in {0, stops[k].live}
    BY <1>s, <2>1 DEF GoLiveInv, Matched
  <2> QED
    BY <1>2, <2>1, <2>2
<1>14. Tidy'
  <2>1. SUFFICES ASSUME slips' = {}
                 PROVE  mounted' /\ (EverythingHeld /\ Phases)'
    BY <1>3 DEF Tidy
  <2>2. mounted /\ EverythingHeld /\ Phases
    BY <1>3, <1>s, <2>1 DEF GoLiveInv, Tidy, PageTypes, GoLiveTypeOK, AllDone, Undone
  <2>3. /\ status = "connecting" /\ streamRef # 0 /\ whipSessionRef = 0 /\ NothingOpen
        /\ \A h \in DOMAIN casts \ {g} : ~Undone(h)
    BY <1>3, <2>2 DEF Phases, AllDone, Undone
  <2>4. recorderRef' = 0 \/ (recorderRef' = g /\ created' = g)
    BY <1>2, <2>2, <2>3 DEF NothingOpen
  <2>5. rec = "recording" => recorderRef' = g
    BY <1>2
  <2>6. \A h \in DOMAIN casts \ {g} : casts[h].pc \in Rest
    BY <1>1, <2>2, <2>3 DEF EverythingHeld, ConnectionHeld, NothingOpen
  <2>7. \A h \in DOMAIN casts' : ConnectionHeld(h)'
    BY <1>3, <1>4, <1>5, <2>2, <2>6 DEF CastBecomes, ConnectionHeld
  <2>8. \A h \in DOMAIN casts' : RecorderHeld(h)'
    BY <1>1, <1>3, <1>4, <1>5, <2>2, <2>3, <2>5 DEF CastBecomes, EverythingHeld, RecorderHeld, NothingOpen
  <2>9. EverythingHeld'
    BY <1>3, <2>2, <2>7, <2>8 DEF EverythingHeld
  <2>10. AllDone'
    BY <1>4, <1>5, <2>3 DEF CastBecomes, AllDone, Undone
  <2>11. status' \in {"connecting", "error"} /\ asked = 0
    BY <1>2, <2>2, <2>3 DEF Phases, GoLiveInv, PageTypes, GoLiveTypeOK
  <2>12. Phases'
    BY <1>1, <1>3, <2>3, <2>4, <2>10, <2>11 DEF Phases, NothingOpen, AllDone, Undone, Deleting
  <2> QED
    BY <1>3, <2>2, <2>9, <2>12
<1> QED
  BY <1>7, <1>8, <1>9, <1>11, <1>13, <1>14 DEF GoLiveInv

-----------------------------------------------------------------------------
(* stopLive and leaving the page *)

LEMMA StopLiveKept ==
  ASSUME GoLiveInv, stopLive
  PROVE  GoLiveInv'
<1> DEFINE s == [stage |-> "delete", page |-> TRUE, session |-> whipSessionRef,
                 rec |-> recorderRef, live |-> created]
<1>1. /\ mounted /\ status = "live" /\ stops' = Append(stops, s) /\ recorderRef' = 0
      /\ slips \subseteq slips' /\ slips' \subseteq slips \cup {"twice"}
      /\ slips' = {} => \A k \in DOMAIN stops : ~Deleting(k)
      /\ UNCHANGED <<mounted, status, created, aupAccepted, streamRef, whipSessionRef,
                     asked, cams, lit, casts, canRecord, uploadVars, tasks>>
  BY DEF stopLive, Offers, StickyCta, CameraPreview, canGoLive, uploadVars, Deleting
<1>2. /\ Shape /\ DOMAIN casts = 1..Len(casts) /\ Len(casts) \in Nat
      /\ {created, whipSessionRef, recorderRef} \subseteq 0..Len(casts)
      /\ 0 \notin DOMAIN casts
  BY ShapeFacts DEF GoLiveInv, PageTypes, GoLiveTypeOK
<1>3. /\ s \in StopState /\ s.stage = "delete" /\ s.page = TRUE
      /\ s.session = whipSessionRef /\ s.rec = recorderRef /\ s.live = created
  BY <1>2, GoLiveConstants DEF StopState, Shape
<1> HIDE DEF s
<1>4. stops' \in Seq(StopState) /\ \E n \in Nat : StopAdded(n, s)
  BY <1>1, <1>2, <1>3, StopAppend
<1>5. PICK n \in Nat : StopAdded(n, s)
  BY <1>4
<1>6. UploadTypeOK' /\ LinksSound' /\ BusyRows'
  BY <1>1, QueueUntouched DEF GoLiveInv
<1>7. PageTypes'
  BY <1>1, <1>2, <1>4, <1>6 DEF PageTypes, GoLiveTypeOK, GoLiveInv
<1>8. OneRecorder'
  BY <1>1, <1>3, <1>5 DEF GoLiveInv, OneRecorder, RecorderOf, Undone, StopAdded
<1>9. Uploads'
  <2>1. \A k \in DOMAIN stops' : stops'[k].stage \in {"encode", "url"} => ForCloudflare(stops[k])'
    BY <1>1, <1>3, <1>5 DEF GoLiveInv, Uploads, ForCloudflare, StopAdded
  <2>2. \A k \in DOMAIN stops' : stops'[k].live # 0 => stops'[k].live \in DOMAIN casts'
    BY <1>1, <1>2, <1>3, <1>5 DEF GoLiveInv, Uploads, StopAdded
  <2>3. \A t \in DOMAIN tasks : \E k \in DOMAIN stops' :
          /\ stops'[k].stage = "done" /\ ForCloudflare(stops[k])'
          /\ tasks[t].blob = stops'[k].rec /\ tasks[t].live = stops'[k].live
    BY <1>1, <1>5 DEF GoLiveInv, Uploads, ForCloudflare, StopAdded
  <2> QED
    BY <1>1, <2>1, <2>2, <2>3 DEF GoLiveInv, Uploads
<1>11. Matched'
  BY <1>1, <1>3, <1>5 DEF GoLiveInv, Matched, StopAdded
<1>12. Tidy'
  <2>1. SUFFICES ASSUME slips' = {}
                 PROVE  mounted' /\ (EverythingHeld /\ Phases)'
    BY <1>1 DEF Tidy
  <2>2. EverythingHeld /\ Phases /\ \A k \in DOMAIN stops : ~Deleting(k)
    BY <1>1, <2>1 DEF GoLiveInv, Tidy
  <2>3. \A h \in DOMAIN casts' : (ConnectionHeld(h) /\ RecorderHeld(h))'
    BY <1>1, <1>3, <1>5, <2>2 DEF StopAdded, EverythingHeld, ConnectionHeld, RecorderHeld, Deleting
  <2>4. \A k \in DOMAIN stops' : stops'[k].rec # 0 => stops'[k].live # 0 /\ stops'[k].page
    BY <1>1, <1>3, <1>5, <2>2 DEF StopAdded, EverythingHeld, Phases
  <2>5. EverythingHeld'
    BY <1>1, <2>2, <2>3, <2>4 DEF EverythingHeld
  <2>6. /\ whipSessionRef # 0 /\ streamRef # 0
    BY <1>1, <2>2 DEF Phases
  <2>7. Phases'
    BY <1>1, <1>3, <1>5, <2>2, <2>6 DEF StopAdded, Phases, NothingOpen, AllDone, Undone, Deleting
  <2> QED
    BY <1>1, <2>5, <2>7
<1> QED
  BY <1>6, <1>7, <1>8, <1>9, <1>11, <1>12 DEF GoLiveInv

LEMMA UnmountKept ==
  ASSUME GoLiveInv, Unmount
  PROVE  GoLiveInv'
<1> DEFINE s == [stage |-> "delete", page |-> FALSE, session |-> whipSessionRef,
                 rec |-> 0, live |-> 0]
<1>1. /\ mounted /\ mounted' = FALSE /\ lit' = lit \ {streamRef}
      /\ casts' = Cancelled(casts, recorderRef)
      /\ stops' = (IF whipSessionRef = 0 THEN stops ELSE Append(stops, s))
      /\ slips \subseteq slips' /\ slips' \subseteq slips \cup {"late"}
      /\ slips' = {} => ~(asked > 0) /\ AllDone
      /\ UNCHANGED <<status, created, aupAccepted, streamRef, whipSessionRef,
                     recorderRef, asked, cams, canRecord, uploadVars, tasks>>
  BY DEF Unmount, uploadVars, AllDone, Undone
<1>2. /\ Shape /\ DOMAIN casts = 1..Len(casts) /\ Len(casts) \in Nat
      /\ whipSessionRef \in 0..Len(casts) /\ 0 \notin DOMAIN casts
  BY ShapeFacts DEF GoLiveInv, PageTypes, GoLiveTypeOK
<1>3. /\ s \in StopState /\ s.stage = "delete" /\ s.session = whipSessionRef
      /\ s.rec = 0 /\ s.live = 0
  BY <1>2, GoLiveConstants DEF StopState, Shape
<1> HIDE DEF s
<1>4. /\ stops' \in Seq(StopState)
      /\ \/ stops' = stops /\ whipSessionRef = 0
         \/ \E n \in Nat : StopAdded(n, s)
  BY <1>1, <1>2, <1>3, StopAppend DEF Shape
<1>5. /\ DOMAIN stops \subseteq DOMAIN stops'
      /\ \A k \in DOMAIN stops : stops'[k] = stops[k]
      /\ \A k \in DOMAIN stops' \ DOMAIN stops : stops'[k] = s
      /\ whipSessionRef # 0 => \E k \in DOMAIN stops' : stops'[k] = s
  BY <1>4 DEF StopAdded
<1>6. /\ casts' \in Seq(CastState) /\ Len(casts') = Len(casts) /\ DOMAIN casts' = DOMAIN casts
      /\ \A h \in DOMAIN casts :
           /\ casts'[h].stage = casts[h].stage /\ casts'[h].pc = casts[h].pc
           /\ casts'[h].backend = casts[h].backend
           /\ casts'[h].rec = IF h = recorderRef THEN "cancelled" ELSE casts[h].rec
  BY <1>1, <1>2, CancelledFacts DEF Shape
<1>7. UploadTypeOK' /\ LinksSound' /\ BusyRows'
  BY <1>1, QueueUntouched DEF GoLiveInv
<1>8. PageTypes'
  BY <1>1, <1>4, <1>6, <1>7 DEF PageTypes, GoLiveTypeOK, GoLiveInv
<1>9. OneRecorder'
  BY <1>1, <1>3, <1>4, <1>6, SMTT(30) DEF GoLiveInv, OneRecorder, RecorderOf, Undone, StopAdded
<1>10. Uploads'
  <2>1. \A k \in DOMAIN stops' : stops'[k].stage \in {"encode", "url"} => ForCloudflare(stops[k])'
    BY <1>3, <1>5, <1>6 DEF GoLiveInv, Uploads, ForCloudflare
  <2>2. \A k \in DOMAIN stops' : stops'[k].live # 0 => stops'[k].live \in DOMAIN casts'
    BY <1>3, <1>5, <1>6 DEF GoLiveInv, Uploads
  <2>3. \A t \in DOMAIN tasks : \E k \in DOMAIN stops' :
          /\ stops'[k].stage = "done" /\ ForCloudflare(stops[k])'
          /\ tasks[t].blob = stops'[k].rec /\ tasks[t].live = stops'[k].live
    BY <1>5, <1>6 DEF GoLiveInv, Uploads, ForCloudflare
  <2> QED
    BY <1>1, <2>1, <2>2, <2>3 DEF GoLiveInv, Uploads
<1>12. Matched'
  BY <1>1, <1>3, <1>5 DEF GoLiveInv, Matched
<1>13. Tidy'
  <2>1. SUFFICES ASSUME slips' = {}
                 PROVE  EverythingHeld' /\ asked' = 0 /\ AllDone'
    BY <1>1 DEF Tidy
  <2>2. EverythingHeld /\ AllDone /\ asked = 0
    BY <1>1, <2>1 DEF GoLiveInv, Tidy, PageTypes, GoLiveTypeOK
  <2>3. \A h \in DOMAIN casts' : ConnectionHeld(h)'
    BY <1>2, <1>3, <1>5, <1>6, <2>2 DEF EverythingHeld, ConnectionHeld, Deleting
  <2>4. \A h \in DOMAIN casts' : RecorderHeld(h)'
    BY <1>5, <1>6, <2>2 DEF EverythingHeld, RecorderHeld
  <2>5. \A k \in DOMAIN stops' : stops'[k].rec # 0 => stops'[k].live # 0 /\ stops'[k].page
    BY <1>3, <1>5, <2>2 DEF EverythingHeld
  <2>6. lit' = {}
    BY <1>1, <2>2 DEF EverythingHeld
  <2>7. EverythingHeld'
    BY <2>3, <2>4, <2>5, <2>6 DEF EverythingHeld
  <2>8. AllDone'
    BY <1>6, <2>2 DEF AllDone, Undone
  <2> QED
    BY <1>1, <2>2, <2>7, <2>8
<1> QED
  BY <1>7, <1>8, <1>9, <1>10, <1>12, <1>13 DEF GoLiveInv

\* A stop that goes on to its next stage, uploading only what is Cloudflare's.
LEMMA StopStepCarried ==
  ASSUME OneRecorder, Uploads, CastsGrow, NEW k \in DOMAIN stops, NEW stage,
         StopBecomes(k, stage), stops[k].stage # "done", UNCHANGED <<recorderRef, tasks>>,
         stage \in {"encode", "url"} => ForCloudflare(stops[k])
  PROVE  OneRecorder' /\ Uploads'
<1>1. OneRecorder'
  BY DEF OneRecorder, RecorderOf, Undone, CastsGrow, StopBecomes
<1>2. \A m \in DOMAIN stops' : stops'[m].stage \in {"encode", "url"} => ForCloudflare(stops[m])'
  BY DEF Uploads, ForCloudflare, StopBecomes, CastsGrow
<1>3. \A m \in DOMAIN stops' : stops'[m].live # 0 => stops'[m].live \in DOMAIN casts'
  BY DEF Uploads, StopBecomes, CastsGrow
<1>4. \A t \in DOMAIN tasks : \E m \in DOMAIN stops' :
        /\ stops'[m].stage = "done" /\ ForCloudflare(stops[m])'
        /\ tasks[t].blob = stops'[m].rec /\ tasks[t].live = stops'[m].live
  BY DEF Uploads, ForCloudflare, StopBecomes, CastsGrow
<1> QED
  BY <1>1, <1>2, <1>3, <1>4 DEF Uploads

LEMMA SessionStoppedKept ==
  ASSUME NEW k \in DOMAIN stops, GoLiveInv, sessionStopped(k)
  PROVE  GoLiveInv'
<1> DEFINE s == stops[k]
           encode == createdBackend(k) = "cloudflare" /\ s.rec # 0 /\ s.live # 0
           cancel == createdBackend(k) # "cloudflare"
           x == IF cancel THEN s.rec ELSE 0
           next == IF encode THEN "encode" ELSE "done"
<1>1. /\ s.stage = "delete" /\ s.page
      /\ whipSessionRef' = 0 /\ streamRef' = 0 /\ lit' = lit \ {streamRef}
      /\ status' = (IF mounted THEN "idle" ELSE status)
      /\ casts' = Cancelled(Closed(s.session), x)
      /\ stops' = [stops EXCEPT ![k].stage = next]
      /\ slips \subseteq slips' /\ slips' \subseteq slips \cup {"pulled"}
      /\ UNCHANGED <<mounted, created, aupAccepted, recorderRef, asked, cams,
                     canRecord, uploadVars, tasks>>
  BY DEF sessionStopped, SetStatus, uploadVars
<1>2. /\ Shape /\ DOMAIN casts = 1..Len(casts) /\ Len(casts) \in Nat /\ 0 \notin DOMAIN casts
  BY ShapeFacts DEF GoLiveInv
<1>3. stops' \in Seq(StopState) /\ StopBecomes(k, next)
  BY <1>1, <1>2, StopUpdate
<1>4. next = "encode" => ForCloudflare(stops[k])
  BY <1>2 DEF GoLiveInv, Uploads, ForCloudflare, createdBackend
<1>5. next \in {"encode", "done"} /\ (next = "done" => s.rec = 0 \/ s.live = 0 \/ x = s.rec)
  OBVIOUS
<1> DEFINE cs == Closed(s.session)
<1>6. /\ cs \in Seq(CastState) /\ Len(cs) = Len(casts) /\ DOMAIN cs = DOMAIN casts
      /\ \A h \in DOMAIN casts :
           /\ cs[h].stage = casts[h].stage /\ cs[h].rec = casts[h].rec
           /\ cs[h].backend = casts[h].backend
           /\ cs[h].pc = IF h = s.session THEN "closed" ELSE casts[h].pc
  BY <1>2, ClosedFacts
<1> HIDE DEF cs, x, next
<1>7. casts' = Cancelled(cs, x)
  BY <1>1 DEF cs
<1>8. /\ casts' \in Seq(CastState) /\ Len(casts') = Len(casts) /\ DOMAIN casts' = DOMAIN casts
      /\ \A h \in DOMAIN casts :
           /\ casts'[h].stage = casts[h].stage
           /\ casts'[h].pc = IF h = s.session THEN "closed" ELSE casts[h].pc
           /\ casts'[h].backend = casts[h].backend
           /\ casts'[h].rec = IF h = x THEN "cancelled" ELSE casts[h].rec
  BY <1>6, <1>7, CancelledFacts
<1>9. CastsGrow
  BY <1>2, <1>8 DEF CastsGrow
<1>10. UploadTypeOK' /\ LinksSound' /\ BusyRows'
  BY <1>1, QueueUntouched DEF GoLiveInv
<1>11. PageTypes'
  <2>1. 0 \in 0..Len(casts) /\ 0 \in 0..cams
    BY <1>2 DEF GoLiveInv, PageTypes, GoLiveTypeOK
  <2> QED
    BY <1>1, <1>3, <1>8, <1>10, <2>1 DEF PageTypes, GoLiveTypeOK, GoLiveInv, ConnectionStatus
<1>12. OneRecorder' /\ Uploads'
  BY <1>1, <1>3, <1>4, <1>5, <1>9, StopStepCarried DEF GoLiveInv
<1>14. Matched'
  BY <1>1, <1>3, <1>8 DEF GoLiveInv, Matched, StopBecomes
<1>15. Tidy'
  <2>1. SUFFICES ASSUME slips' = {}
                 PROVE  /\ EverythingHeld' /\ (mounted => Phases')
                        /\ ~mounted => asked = 0 /\ AllDone'
    BY <1>1 DEF Tidy
  <2>2. EverythingHeld /\ (mounted => Phases) /\ (~mounted => asked = 0 /\ AllDone)
    BY <1>1, <2>1 DEF GoLiveInv, Tidy
  <2>3. AllDone => AllDone'
    BY <1>8 DEF AllDone, Undone
  <2>4. mounted => /\ s.session = whipSessionRef /\ recorderRef = 0 /\ whipSessionRef # 0
                   /\ AllDone /\ asked = 0 /\ \A m \in DOMAIN stops \ {k} : ~Deleting(m)
    BY <1>1, <2>2 DEF Phases, NothingOpen, Deleting, GoLiveInv, PageTypes, GoLiveTypeOK
  <2>5. \A h \in DOMAIN casts' : ConnectionHeld(h)'
    BY <1>1, <1>3, <1>8, <2>2, <2>4 DEF StopBecomes, EverythingHeld, ConnectionHeld, Deleting, Rest
  <2>6. s.rec # 0 /\ next = "done" => x = s.rec
    BY <1>5, <2>2 DEF EverythingHeld
  <2>7. \A h \in DOMAIN casts' : RecorderHeld(h)'
    <3>1. SUFFICES ASSUME NEW h \in DOMAIN casts, casts'[h].rec = "recording"
                   PROVE  RecorderHeld(h)'
      BY <1>8 DEF RecorderHeld
    <3>2. casts[h].rec = "recording" /\ h # x /\ h # 0
      BY <1>2, <1>8, <3>1
    <3>3. \/ mounted /\ recorderRef = h
          \/ \E m \in DOMAIN stops : stops[m].stage \in {"delete", "encode"} /\ stops[m].rec = h
      BY <2>2, <3>2 DEF EverythingHeld, RecorderHeld
    <3>4. s.rec = h => next = "encode"
      BY <1>5, <2>6, <3>2
    <3> QED
      BY <1>1, <1>3, <3>3, <3>4 DEF RecorderHeld, StopBecomes
  <2>8. EverythingHeld'
    <3>1. lit' = {}
      BY <1>1, <2>2 DEF EverythingHeld
    <3>2. \A m \in DOMAIN stops' : stops'[m].rec # 0 => stops'[m].live # 0 /\ stops'[m].page
      BY <1>3, <2>2 DEF EverythingHeld, StopBecomes
    <3> QED
      BY <2>5, <2>7, <3>1, <3>2 DEF EverythingHeld
  <2>9. ASSUME mounted PROVE Phases'
    <3>1. AllDone' /\ NothingOpen'
      BY <1>1, <1>3, <1>5, <2>3, <2>4, <2>9 DEF StopBecomes, NothingOpen, Deleting
    <3>2. status' = "idle" /\ asked' = 0
      BY <1>1, <2>4, <2>9
    <3> QED
      BY <1>1, <2>4, <2>9, <3>1, <3>2 DEF Phases, NothingOpen, AllDone
  <2> QED
    BY <2>2, <2>3, <2>8, <2>9
<1> QED
  BY <1>10, <1>11, <1>12, <1>14, <1>15 DEF GoLiveInv

LEMMA RecorderStoppedKept ==
  ASSUME NEW k \in DOMAIN stops, GoLiveInv, recorderStopped(k)
  PROVE  GoLiveInv'
<1> DEFINE r == stops[k].rec
           c == [casts[r] EXCEPT !.rec = "taken"]
<1>1. /\ stops[k].stage = "encode" /\ casts' = [casts EXCEPT ![r].rec = "taken"]
      /\ UNCHANGED <<mounted, status, created, aupAccepted, streamRef, whipSessionRef,
                     recorderRef, asked, cams, lit, canRecord, slips, uploadVars, tasks>>
  BY DEF recorderStopped, uploadVars
<1>2. PICK next \in {"url", "done"} : stops' = [stops EXCEPT ![k].stage = next]
  BY DEF recorderStopped
<1>3. Shape /\ DOMAIN casts = 1..Len(casts) /\ Len(casts) \in Nat
  BY ShapeFacts DEF GoLiveInv
<1>4. stops' \in Seq(StopState) /\ StopBecomes(k, next)
  BY <1>2, <1>3, StopUpdate
<1>5. ForCloudflare(stops[k])
  BY <1>1 DEF GoLiveInv, Uploads
<1>6. r \in DOMAIN casts
  BY <1>5 DEF GoLiveInv, OneRecorder, RecorderOf, ForCloudflare
<1>7. casts[r] \in CastState
  BY <1>6, ShapeFacts DEF GoLiveInv
<1>8. /\ c \in CastState /\ c.stage = casts[r].stage /\ c.backend = casts[r].backend
      /\ c.pc = casts[r].pc /\ c.rec = "taken" /\ Becomes(r, c)
  BY <1>1, <1>7 DEF CastState, Becomes
<1> HIDE DEF c
<1>9. casts' \in Seq(CastState) /\ CastBecomes(r, c)
  BY <1>3, <1>6, <1>8, CastUpdate
<1>10. CastsGrow
  BY <1>3, <1>6, <1>8, <1>9 DEF CastBecomes, CastsGrow
<1>11. UploadTypeOK' /\ LinksSound' /\ BusyRows'
  BY <1>1, QueueUntouched DEF GoLiveInv
<1>12. PageTypes'
  BY <1>1, <1>4, <1>9, <1>11 DEF PageTypes, GoLiveTypeOK, GoLiveInv, CastBecomes
<1>13. OneRecorder' /\ Uploads'
  BY <1>1, <1>4, <1>5, <1>10, StopStepCarried DEF GoLiveInv
<1>15. Matched'
  BY <1>1, <1>4, <1>6, <1>8, <1>9, SMTT(30) DEF GoLiveInv, Matched, StopBecomes, CastBecomes
<1>16. \A h \in DOMAIN casts : casts'[h].stage = casts[h].stage /\ casts'[h].pc = casts[h].pc
  BY <1>6, <1>8, <1>9 DEF CastBecomes
<1>17. \A m \in DOMAIN stops : stops'[m].stage = "delete" <=> stops[m].stage = "delete"
  BY <1>1, <1>2, <1>4 DEF StopBecomes
<1>18. Tidy'
  <2>1. ASSUME EverythingHeld PROVE EverythingHeld'
    <3>1. \A h \in DOMAIN casts' : ConnectionHeld(h)'
      <4>1. SUFFICES ASSUME NEW h \in DOMAIN casts PROVE ConnectionHeld(h)'
        BY <1>9 DEF CastBecomes
      <4>2. casts'[h].pc = casts[h].pc
        BY <1>16
      <4>3. \A m \in DOMAIN stops :
              m \in DOMAIN stops' /\ stops'[m].session = stops[m].session
        BY <1>4 DEF StopBecomes
      <4>4. mounted' = mounted /\ whipSessionRef' = whipSessionRef
        BY <1>1
      <4>5. ConnectionHeld(h)
        BY <2>1 DEF EverythingHeld
      <4> QED
        BY ONLY <4>2, <4>3, <4>4, <4>5, <1>17 DEF ConnectionHeld, Deleting
    <3>2. \A h \in DOMAIN casts' : RecorderHeld(h)'
      BY <1>1, <1>4, <1>6, <1>8, <1>9, <2>1, SMTT(30)
         DEF StopBecomes, CastBecomes, EverythingHeld, RecorderHeld
    <3> QED
      BY <1>1, <1>4, <2>1, <3>1, <3>2 DEF EverythingHeld, StopBecomes
  <2>2. ASSUME Phases PROVE Phases'
    BY <1>1, <1>4, <1>9, <1>16, <1>17, <2>2
       DEF StopBecomes, CastBecomes, Phases, NothingOpen, AllDone, Undone, Deleting
  <2>3. ASSUME AllDone PROVE AllDone'
    BY <1>9, <1>16, <2>3 DEF CastBecomes, AllDone, Undone
  <2> QED
    BY <1>1, <2>1, <2>2, <2>3 DEF GoLiveInv, Tidy
<1> QED
  BY <1>11, <1>12, <1>13, <1>15, <1>18 DEF GoLiveInv

LEMMA UnmountStoppedKept ==
  ASSUME NEW k \in DOMAIN stops, GoLiveInv, unmountStopped(k)
  PROVE  GoLiveInv'
<1>1. /\ stops[k].stage = "delete" /\ ~stops[k].page /\ casts' = Closed(stops[k].session)
      /\ stops' = [stops EXCEPT ![k].stage = "done"]
      /\ UNCHANGED <<mounted, status, created, aupAccepted, streamRef, whipSessionRef,
                     recorderRef, asked, cams, lit, canRecord, slips, uploadVars, tasks>>
  BY DEF unmountStopped, uploadVars
<1>2. Shape /\ DOMAIN casts = 1..Len(casts) /\ Len(casts) \in Nat
  BY ShapeFacts DEF GoLiveInv
<1>3. stops' \in Seq(StopState) /\ StopBecomes(k, "done")
  BY <1>1, <1>2, StopUpdate
<1>4. /\ casts' \in Seq(CastState) /\ Len(casts') = Len(casts) /\ DOMAIN casts' = DOMAIN casts
      /\ \A h \in DOMAIN casts :
           /\ casts'[h].stage = casts[h].stage /\ casts'[h].rec = casts[h].rec
           /\ casts'[h].backend = casts[h].backend
           /\ casts'[h].pc = IF h = stops[k].session THEN "closed" ELSE casts[h].pc
  BY <1>1, <1>2, ClosedFacts
<1>5. CastsGrow
  BY <1>2, <1>4 DEF CastsGrow
<1>6. UploadTypeOK' /\ LinksSound' /\ BusyRows'
  BY <1>1, QueueUntouched DEF GoLiveInv
<1>7. PageTypes'
  BY <1>1, <1>3, <1>4, <1>6 DEF PageTypes, GoLiveTypeOK, GoLiveInv
<1>8. OneRecorder' /\ Uploads'
  BY <1>1, <1>3, <1>5, StopStepCarried DEF GoLiveInv
<1>10. Matched'
  BY <1>1, <1>3, <1>4 DEF GoLiveInv, Matched, StopBecomes
<1>11. Tidy'
  <2>1. ASSUME EverythingHeld PROVE EverythingHeld'
    <3>1. \A h \in DOMAIN casts' : ConnectionHeld(h)'
      BY <1>1, <1>3, <1>4, <2>1 DEF StopBecomes, EverythingHeld, ConnectionHeld, Deleting, Rest
    <3>2. \A h \in DOMAIN casts' : RecorderHeld(h)'
      BY <1>1, <1>2, <1>3, <1>4, <2>1 DEF StopBecomes, EverythingHeld, RecorderHeld
    <3> QED
      BY <1>1, <1>3, <2>1, <3>1, <3>2 DEF EverythingHeld, StopBecomes
  <2>2. ASSUME Phases PROVE Phases'
    BY <1>1, <1>3, <1>4, <2>2, SMTT(30) DEF StopBecomes, Phases, NothingOpen, AllDone, Undone, Deleting
  <2>3. ASSUME AllDone PROVE AllDone'
    BY <1>4, <2>3 DEF AllDone, Undone
  <2> QED
    BY <1>1, <2>1, <2>2, <2>3 DEF GoLiveInv, Tidy
<1> QED
  BY <1>6, <1>7, <1>8, <1>10, <1>11 DEF GoLiveInv

\* The types of the queue, and a task that is started.
LEMMA TaskFacts ==
  ASSUME PageTypes
  PROVE  /\ UploadTypeOK /\ DOMAIN tasks = 1..Len(tasks) /\ Len(tasks) \in Nat
         /\ \A t \in DOMAIN tasks : tasks[t] \in Task /\ tasks[t].live \in Cast
<1>1. UploadTypeOK /\ tasks \in Seq(Task)
  BY DEF PageTypes, GoLiveTypeOK, UploadTypeOK
<1>2. \A t \in DOMAIN tasks : tasks[t] \in Task
  BY <1>1
<1>3. \A d \in Task : d.live \in Cast
  BY DEF Task
<1> QED
  BY <1>1, <1>2, <1>3

LEMMA UploadUrlKept ==
  ASSUME NEW k \in DOMAIN stops, GoLiveInv, uploadUrl(k)
  PROVE  GoLiveInv'
<1> DEFINE l == stops[k].live
           b == stops[k].rec
           d == [live |-> l, blob |-> b, stage |-> "load"]
           n == Len(tasks) + 1
<1>1. /\ stops[k].stage = "url" /\ stops' = [stops EXCEPT ![k].stage = "done"]
      /\ startUpload(l, b) \/ UNCHANGED uploadVars
      /\ UNCHANGED <<mounted, status, created, aupAccepted, streamRef, whipSessionRef,
                     recorderRef, asked, cams, lit, casts, canRecord, slips>>
  BY DEF uploadUrl
<1>2. Shape /\ DOMAIN casts = 1..Len(casts) /\ Len(casts) \in Nat
  BY ShapeFacts DEF GoLiveInv
<1>3. stops' \in Seq(StopState) /\ StopBecomes(k, "done")
  BY <1>1, <1>2, StopUpdate
<1>4. CastsGrow
  BY <1>1, <1>2 DEF CastsGrow
<1>5. ForCloudflare(stops[k]) /\ b \in DOMAIN casts /\ l \in DOMAIN casts
  BY <1>1 DEF GoLiveInv, Uploads, ForCloudflare, OneRecorder, RecorderOf
<1>6. Tidy'
  <2>1. ASSUME EverythingHeld PROVE EverythingHeld'
    BY <1>1, <1>3, <2>1 DEF StopBecomes, EverythingHeld, ConnectionHeld, RecorderHeld, Deleting
  <2>2. ASSUME Phases PROVE Phases'
    BY <1>1, <1>3, <2>2 DEF StopBecomes, Phases, NothingOpen, AllDone, Undone, Deleting
  <2> QED
    BY <1>1, <2>1, <2>2 DEF GoLiveInv, Tidy, AllDone, Undone
<1>7. Matched'
  BY <1>1, <1>3 DEF GoLiveInv, Matched, StopBecomes
<1>8. CASE UNCHANGED uploadVars
  <2>1. UploadTypeOK' /\ LinksSound' /\ BusyRows'
    BY <1>1, <1>8, QueueUntouched DEF GoLiveInv
  <2>2. PageTypes'
    BY <1>1, <1>3, <2>1 DEF PageTypes, GoLiveTypeOK, GoLiveInv
  <2>3. OneRecorder' /\ Uploads'
    BY <1>1, <1>3, <1>4, <1>8, StopStepCarried DEF GoLiveInv, uploadVars
  <2> QED
    BY <1>6, <1>7, <2>1, <2>2, <2>3 DEF GoLiveInv
<1>9. CASE startUpload(l, b)
  <2>1. /\ UploadTypeOK /\ DOMAIN tasks = 1..Len(tasks) /\ Len(tasks) \in Nat
        /\ \A t \in DOMAIN tasks : tasks[t].live \in Cast
    BY TaskFacts DEF GoLiveInv
  <2>2. l \in Cast /\ b \in Cast
    BY <1>2, <1>5, GoLiveConstants DEF Shape
  <2>3. d \in Task /\ d.live = l /\ d.blob = b /\ d.stage = "load"
    BY <2>2 DEF Task
  <2>4. /\ rows' = [rows EXCEPT ![l] = "queued"] /\ tasks' = Append(tasks, d)
        /\ UNCHANGED <<instances, tusModule, stored, linked>>
    BY <1>9 DEF startUpload
  <2> HIDE DEF d, l, b
  <2>5. /\ tasks' \in Seq(Task) /\ Len(tasks') = n /\ n \notin DOMAIN tasks
        /\ DOMAIN tasks' = (DOMAIN tasks) \cup {n} /\ tasks'[n] = d
        /\ \A t \in DOMAIN tasks : tasks'[t] = tasks[t]
    BY <2>1, <2>3, <2>4, SeqAppend DEF UploadTypeOK
  <2>6. UploadTypeOK'
    <3>1. rows' \in [Cast -> UploadStatus \cup {"none"}]
      BY <2>1, <2>2, <2>4 DEF UploadTypeOK, UploadStatus
    <3>2. 0..Len(tasks) \subseteq 0..Len(tasks') /\ 1..Len(tasks) \subseteq 1..Len(tasks')
      BY <2>1, <2>5
    <3> QED
      BY <2>1, <2>4, <2>5, <3>1, <3>2 DEF UploadTypeOK
  <2>7. PageTypes'
    BY <1>1, <1>3, <2>6 DEF PageTypes, GoLiveTypeOK, GoLiveInv
  <2> HIDE DEF n
  <2>8. LinksSound'
    <3>1. \A t \in DOMAIN tasks' : tasks'[t].stage = "link" => t \in stored'
      BY <2>3, <2>4, <2>5 DEF GoLiveInv, LinksSound
    <3>2. \A m \in Cast : linked'[m] # 0 => linked'[m] \in stored' /\ tasks'[linked'[m]].live = m
      BY <2>1, <2>4, <2>5 DEF GoLiveInv, LinksSound, UploadTypeOK
    <3>3. \A m \in Cast : rows'[m] = "done" => linked'[m] # 0
      BY <2>1, <2>2, <2>4 DEF GoLiveInv, LinksSound, UploadTypeOK
    <3> QED
      BY <3>1, <3>2, <3>3 DEF LinksSound
  <2>9. BusyRows'
    <3>1. \A m \in Cast : rows'[m] = IF m = l THEN "queued" ELSE rows[m]
      BY <2>1, <2>2, <2>4 DEF UploadTypeOK
    <3> QED
      BY <1>1, <2>1, <2>2, <2>3, <2>5, <3>1 DEF GoLiveInv, BusyRows, Busy, isActive, ACTIVE_STATUSES
  <2>10. OneRecorder'
    BY <1>1, <1>3, <1>4 DEF GoLiveInv, OneRecorder, RecorderOf, Undone, CastsGrow, StopBecomes
  <2>11. Uploads'
    <3>1. \A m \in DOMAIN stops' : stops'[m].stage \in {"encode", "url"} => ForCloudflare(stops[m])'
      BY <1>1, <1>3 DEF GoLiveInv, Uploads, ForCloudflare, StopBecomes
    <3>2. \A m \in DOMAIN stops' : stops'[m].live # 0 => stops'[m].live \in DOMAIN casts'
      BY <1>1, <1>3 DEF GoLiveInv, Uploads, StopBecomes
    <3>3. \A t \in DOMAIN tasks : \E m \in DOMAIN stops' :
            /\ stops'[m].stage = "done" /\ ForCloudflare(stops[m])'
            /\ tasks'[t].blob = stops'[m].rec /\ tasks'[t].live = stops'[m].live
      BY <1>1, <1>3, <2>5 DEF GoLiveInv, Uploads, ForCloudflare, StopBecomes
    <3>4. /\ stops'[k].stage = "done" /\ ForCloudflare(stops[k])'
          /\ tasks'[n].blob = stops'[k].rec /\ tasks'[n].live = stops'[k].live
          /\ k \in DOMAIN stops'
      BY <1>1, <1>3, <1>5, <2>3, <2>5 DEF ForCloudflare, StopBecomes, l, b
    <3>5. \A t \in DOMAIN tasks : tasks[t].blob # b
      BY <1>1, <1>5 DEF GoLiveInv, Uploads, OneRecorder, ForCloudflare, b
    <3>6. \A t, u \in DOMAIN tasks' : tasks'[t].blob = tasks'[u].blob => t = u
      BY <2>3, <2>5, <3>5 DEF GoLiveInv, Uploads
    <3>7. \A t \in DOMAIN tasks' : \E m \in DOMAIN stops' :
            /\ stops'[m].stage = "done" /\ ForCloudflare(stops[m])'
            /\ tasks'[t].blob = stops'[m].rec /\ tasks'[t].live = stops'[m].live
      BY <2>5, <3>3, <3>4
    <3> QED
      BY <3>1, <3>2, <3>6, <3>7 DEF Uploads
  <2> QED
    BY <1>6, <1>7, <2>7, <2>8, <2>9, <2>10, <2>11 DEF GoLiveInv
<1> QED
  BY <1>1, <1>8, <1>9

-----------------------------------------------------------------------------
(* The upload queue.  A task of its own live shares its row with no other. *)

\* One task goes on to another stage.
TaskBecomes(t, stage) ==
  /\ DOMAIN tasks' = DOMAIN tasks /\ Len(tasks') = Len(tasks)
  /\ \A u \in DOMAIN tasks :
       /\ tasks'[u].live = tasks[u].live /\ tasks'[u].blob = tasks[u].blob
       /\ tasks'[u].stage = IF u = t THEN stage ELSE tasks[u].stage

TaskStage == {"load", "tus", "link", "ended", "aborted"}

LEMMA TaskUpdate ==
  ASSUME PageTypes, NEW t \in DOMAIN tasks, NEW stage \in TaskStage,
         tasks' = [tasks EXCEPT ![t].stage = stage]
  PROVE  tasks' \in Seq(Task) /\ TaskBecomes(t, stage)
<1> DEFINE d == [tasks[t] EXCEPT !.stage = stage]
<1>1. tasks[t] \in Task /\ tasks \in Seq(Task)
  BY TaskFacts DEF UploadTypeOK
<1>2. d \in Task /\ d.stage = stage /\ d.live = tasks[t].live /\ d.blob = tasks[t].blob
  BY <1>1 DEF Task, TaskStage
<1>3. tasks' = [tasks EXCEPT ![t] = d]
  OBVIOUS
<1> HIDE DEF d
<1>4. /\ tasks' \in Seq(Task) /\ DOMAIN tasks' = DOMAIN tasks /\ Len(tasks') = Len(tasks)
      /\ tasks'[t] = d /\ \A u \in DOMAIN tasks \ {t} : tasks'[u] = tasks[u]
  BY <1>1, <1>2, <1>3, SeqUpdate
<1> QED
  BY <1>2, <1>4 DEF TaskBecomes

LEMMA OwnLive ==
  ASSUME GoLiveInv, "stale" \notin slips
  PROVE  /\ \A t \in DOMAIN tasks : tasks[t].live = tasks[t].blob
         /\ \A t, u \in DOMAIN tasks : tasks[t].live = tasks[u].live => t = u
BY DEF GoLiveInv, Uploads, Matched, ForCloudflare

\* What the page's own variables determine stays when they do.
LEMMA PageUntouched ==
  ASSUME GoLiveInv, UNCHANGED pageVars
  PROVE  /\ Tidy' /\ OneRecorder' /\ Matched' /\ (UploadTypeOK' => PageTypes')
         /\ UNCHANGED <<slips, stops, casts>>
<1>1. UNCHANGED <<mounted, status, created, aupAccepted, streamRef, whipSessionRef,
                  recorderRef, asked, cams, lit, casts, stops, canRecord, slips>>
  BY DEF pageVars
<1>2. Tidy'
  BY <1>1 DEF GoLiveInv, Tidy, EverythingHeld, ConnectionHeld, RecorderHeld, Phases,
    NothingOpen, AllDone, Undone, Deleting
<1>3. OneRecorder'
  BY <1>1 DEF GoLiveInv, OneRecorder, RecorderOf, Undone
<1>4. Matched'
  BY <1>1 DEF GoLiveInv, Matched
<1>5. UploadTypeOK' => PageTypes'
  BY <1>1 DEF GoLiveInv, PageTypes, GoLiveTypeOK
<1> QED
  BY <1>1, <1>2, <1>3, <1>4, <1>5

\* A step of a task that is busy, with the row of its live.
LEMMA TaskStepKept ==
  ASSUME GoLiveInv, UNCHANGED pageVars, NEW t \in DOMAIN tasks, NEW stage \in TaskStage,
         tasks' = [tasks EXCEPT ![t].stage = stage], Busy(t),
         rows' \in [Cast -> UploadStatus \cup {"none"}],
         \A m \in Cast \ {tasks[t].live} : rows'[m] = rows[m],
         stage \in {"load", "tus", "link"} /\ rows[tasks[t].live] \in ACTIVE_STATUSES
           => rows'[tasks[t].live] \in ACTIVE_STATUSES,
         rows'[tasks[t].live] = "done" => linked'[tasks[t].live] # 0,
         instances' \in [Cast -> 0..Len(tasks)], linked' \in [Cast -> 0..Len(tasks)],
         tusModule' \in BOOLEAN, stored' \subseteq 1..Len(tasks), stored \subseteq stored',
         stage = "link" => t \in stored',
         \A m \in Cast : \/ linked'[m] = linked[m]
                         \/ linked'[m] = t /\ m = tasks[t].live /\ t \in stored'
  PROVE  GoLiveInv'
<1>1. /\ Tidy' /\ OneRecorder' /\ Matched' /\ (UploadTypeOK' => PageTypes')
      /\ UNCHANGED <<slips, stops, casts>>
  BY PageUntouched
<1>2. /\ UploadTypeOK /\ DOMAIN tasks = 1..Len(tasks) /\ Len(tasks) \in Nat
      /\ \A u \in DOMAIN tasks : tasks[u].live \in Cast
  BY TaskFacts DEF GoLiveInv
<1>3. tasks' \in Seq(Task) /\ TaskBecomes(t, stage)
  BY TaskUpdate DEF GoLiveInv
<1>4. UploadTypeOK'
  BY <1>3 DEF UploadTypeOK, TaskBecomes
<1>5. Uploads'
  BY <1>1, <1>3 DEF GoLiveInv, Uploads, ForCloudflare, TaskBecomes
<1>6. LinksSound'
  <2>1. \A u \in DOMAIN tasks' : tasks'[u].stage = "link" => u \in stored'
    BY <1>3 DEF GoLiveInv, LinksSound, TaskBecomes
  <2>2. \A m \in Cast : linked'[m] # 0 => linked'[m] \in stored' /\ tasks'[linked'[m]].live = m
    <3>1. SUFFICES ASSUME NEW m \in Cast, linked'[m] # 0
                   PROVE  linked'[m] \in stored' /\ tasks'[linked'[m]].live = m
      OBVIOUS
    <3>2. CASE linked'[m] = linked[m]
      <4>1. linked[m] \in stored /\ tasks[linked[m]].live = m /\ linked[m] \in DOMAIN tasks
        BY <1>2, <3>1, <3>2 DEF GoLiveInv, LinksSound, UploadTypeOK
      <4> QED
        BY <1>3, <3>2, <4>1 DEF TaskBecomes
    <3>3. CASE linked'[m] = t /\ m = tasks[t].live /\ t \in stored'
      BY <1>3, <3>3 DEF TaskBecomes
    <3> QED
      BY <3>2, <3>3
  <2>3. \A m \in Cast : rows'[m] = "done" => linked'[m] # 0
    BY <1>2 DEF GoLiveInv, LinksSound
  <2> QED
    BY <2>1, <2>2, <2>3 DEF LinksSound
<1>7. BusyRows'
  <2>1. SUFFICES ASSUME "stale" \notin slips, NEW u \in DOMAIN tasks, Busy(u)'
                 PROVE  rows'[tasks[u].live] \in ACTIVE_STATUSES
    BY <1>1, <1>3 DEF BusyRows, TaskBecomes, isActive
  <2>2. CASE u = t
    <3>1. rows[tasks[t].live] \in ACTIVE_STATUSES
      BY <2>1 DEF GoLiveInv, BusyRows, isActive
    <3>2. stage \in {"load", "tus", "link"}
      BY <1>3, <2>1, <2>2 DEF Busy, TaskBecomes
    <3> QED
      BY <2>2, <3>1, <3>2
  <2>3. CASE u # t
    <3>1. Busy(u)
      BY <1>3, <2>1, <2>3 DEF Busy, TaskBecomes
    <3>2. rows[tasks[u].live] \in ACTIVE_STATUSES /\ tasks[u].live # tasks[t].live
      BY <2>1, <2>3, <3>1, OwnLive DEF GoLiveInv, BusyRows, isActive
    <3> QED
      BY <1>2, <3>2
  <2> QED
    BY <2>2, <2>3
<1> QED
  BY <1>1, <1>4, <1>5, <1>6, <1>7 DEF GoLiveInv

\* What upsert and Forget do.
LEMMA UpsertFacts ==
  ASSUME UploadTypeOK, NEW l \in Cast, NEW st \in UploadStatus, upsert(l, st)
  PROVE  /\ rows' \in [Cast -> UploadStatus \cup {"none"}]
         /\ \A m \in Cast \ {l} : rows'[m] = rows[m]
         /\ rows'[l] = IF rows[l] = "none" THEN "none" ELSE st
BY DEF UploadTypeOK, upsert

LEMMA ForgetFacts ==
  ASSUME UploadTypeOK, NEW l \in Cast, Forget(l)
  PROVE  instances' \in [Cast -> 0..Len(tasks)]
<1>1. Len(tasks) \in Nat
  BY DEF UploadTypeOK
<1> QED
  BY <1>1 DEF UploadTypeOK, Forget

LEMMA QueueKept ==
  ASSUME NEW t \in DOMAIN tasks, GoLiveInv, UNCHANGED pageVars, TaskStep(t)
  PROVE  GoLiveInv'
<1> DEFINE l == tasks[t].live
<1>1. /\ UploadTypeOK /\ DOMAIN tasks = 1..Len(tasks) /\ Len(tasks) \in Nat
      /\ l \in Cast /\ tasks[t] \in Task
  BY TaskFacts DEF GoLiveInv
<1>2. /\ rows \in [Cast -> UploadStatus \cup {"none"}] /\ tusModule \in BOOLEAN
      /\ instances \in [Cast -> 0..Len(tasks)] /\ linked \in [Cast -> 0..Len(tasks)]
      /\ stored \subseteq 1..Len(tasks) /\ t \in 1..Len(tasks) /\ t # 0
      /\ rows[l] = "done" => linked[l] # 0
  BY <1>1 DEF UploadTypeOK, GoLiveInv, LinksSound
<1> HIDE DEF l
<1>a. l = tasks[t].live
  BY DEF l
<1>b. "ended" \in TaskStage /\ "ended" \notin {"load", "tus", "link"} /\ "ended" # "link"
  BY DEF TaskStage
<1>3. CASE loadTus(t)
  <2>1. /\ Busy(t) /\ tusModule' \in BOOLEAN /\ tasks' = [tasks EXCEPT ![t].stage = "tus"]
        /\ instances' \in [Cast -> 0..Len(tasks)] /\ UNCHANGED <<rows, stored, linked>>
    BY <1>1, <1>2, <1>3, <1>a DEF loadTus, Busy, Advance
  <2> QED
    BY <1>2, <1>a, <2>1, TaskStepKept DEF TaskStage
<1>4. CASE loadTusFails(t)
  <2>1. /\ Busy(t) /\ upsert(l, "failed") /\ tasks' = [tasks EXCEPT ![t].stage = "ended"]
        /\ UNCHANGED <<instances, tusModule, stored, linked>>
    BY <1>4, <1>a DEF loadTusFails, Busy, Advance
  <2>2. /\ rows' \in [Cast -> UploadStatus \cup {"none"}]
        /\ \A m \in Cast \ {l} : rows'[m] = rows[m]
        /\ rows'[l] # "done"
    BY <1>1, <2>1, UpsertFacts DEF UploadStatus
  <2> QED
    BY <1>2, <1>a, <1>b, <2>1, <2>2, TaskStepKept
<1>5. CASE onProgress(t)
  <2>1. /\ Busy(t) /\ upsert(l, "uploading") /\ tasks[t].stage = "tus"
        /\ UNCHANGED <<tasks, instances, tusModule, stored, linked>>
    BY <1>5, <1>a DEF onProgress, Busy
  <2>2. [tasks[t] EXCEPT !.stage = "tus"] = tasks[t]
    BY <1>1, <2>1 DEF Task
  <2>3. tasks' = [tasks EXCEPT ![t].stage = "tus"]
    BY <1>1, <2>1, <2>2 DEF UploadTypeOK
  <2>4. /\ rows' \in [Cast -> UploadStatus \cup {"none"}]
        /\ \A m \in Cast \ {l} : rows'[m] = rows[m]
        /\ rows[l] \in ACTIVE_STATUSES => rows'[l] \in ACTIVE_STATUSES
        /\ rows'[l] # "done"
    BY <1>1, <2>1, UpsertFacts DEF UploadStatus, ACTIVE_STATUSES
  <2> QED
    BY <1>2, <1>a, <2>1, <2>3, <2>4, TaskStepKept DEF TaskStage
<1>6. CASE onError(t)
  <2>1. /\ Busy(t) /\ upsert(l, "failed") /\ tasks' = [tasks EXCEPT ![t].stage = "ended"]
        /\ Forget(l) /\ UNCHANGED <<tusModule, stored, linked>>
    BY <1>6, <1>a DEF onError, Busy, Advance
  <2>2. /\ rows' \in [Cast -> UploadStatus \cup {"none"}]
        /\ \A m \in Cast \ {l} : rows'[m] = rows[m]
        /\ rows'[l] # "done" /\ instances' \in [Cast -> 0..Len(tasks)]
    BY <1>1, <2>1, UpsertFacts, ForgetFacts DEF UploadStatus
  <2> QED
    BY <1>2, <1>a, <1>b, <2>1, <2>2, TaskStepKept
<1>7. CASE onSuccess(t)
  <2>1. /\ Busy(t) /\ upsert(l, "linking") /\ tasks' = [tasks EXCEPT ![t].stage = "link"]
        /\ stored' = stored \cup {t} /\ UNCHANGED <<instances, tusModule, linked>>
    BY <1>7, <1>a DEF onSuccess, Busy, Advance
  <2>2. /\ rows' \in [Cast -> UploadStatus \cup {"none"}]
        /\ \A m \in Cast \ {l} : rows'[m] = rows[m]
        /\ rows[l] \in ACTIVE_STATUSES => rows'[l] \in ACTIVE_STATUSES
        /\ rows'[l] # "done"
    BY <1>1, <2>1, UpsertFacts DEF UploadStatus, ACTIVE_STATUSES
  <2>3. stored' \subseteq 1..Len(tasks) /\ t \in stored' /\ stored \subseteq stored'
    BY <1>2, <2>1
  <2> QED
    BY <1>2, <1>a, <2>1, <2>2, <2>3, TaskStepKept DEF TaskStage
<1>8. CASE linkRecording(t)
  <2> DEFINE overwritten == [linked EXCEPT ![l] = t]
  <2>1. /\ Busy(t) /\ tasks[t].stage = "link" /\ tasks' = [tasks EXCEPT ![t].stage = "ended"]
        /\ \/ linked' = overwritten /\ upsert(l, "done")
           \/ linked' \in {linked, overwritten} /\ upsert(l, "failed")
        /\ Forget(l) /\ UNCHANGED <<tusModule, stored>>
    BY <1>8, <1>a DEF linkRecording, Busy, Advance
  <2>2. t \in stored
    BY <2>1 DEF GoLiveInv, LinksSound
  <2>3. /\ overwritten \in [Cast -> 0..Len(tasks)] /\ overwritten[l] # 0
        /\ \A m \in Cast : overwritten[m] = linked[m] \/ (overwritten[m] = t /\ m = l)
    BY <1>1, <1>2
  <2> HIDE DEF overwritten
  <2>4. /\ rows' \in [Cast -> UploadStatus \cup {"none"}]
        /\ \A m \in Cast \ {l} : rows'[m] = rows[m]
        /\ rows'[l] = "done" => linked'[l] # 0
        /\ instances' \in [Cast -> 0..Len(tasks)]
    BY <1>1, <2>1, <2>3, UpsertFacts, ForgetFacts DEF UploadStatus
  <2>5. /\ linked' \in [Cast -> 0..Len(tasks)]
        /\ \A m \in Cast : linked'[m] = linked[m] \/ (linked'[m] = t /\ m = l)
    BY <1>2, <2>1, <2>3
  <2> QED
    BY <1>2, <1>a, <1>b, <2>1, <2>2, <2>4, <2>5, TaskStepKept
<1> QED
  BY <1>3, <1>4, <1>5, <1>6, <1>7, <1>8 DEF TaskStep

LEMMA DismissKept ==
  ASSUME NEW l \in Cast, GoLiveInv, UNCHANGED pageVars, dismissUpload(l)
  PROVE  GoLiveInv'
<1>1. /\ Tidy' /\ OneRecorder' /\ Matched' /\ (UploadTypeOK' => PageTypes')
      /\ UNCHANGED <<slips, stops, casts>>
  BY PageUntouched
<1>2. /\ UploadTypeOK /\ DOMAIN tasks = 1..Len(tasks) /\ Len(tasks) \in Nat
      /\ \A u \in DOMAIN tasks : tasks[u].live \in Cast
  BY TaskFacts DEF GoLiveInv
<1>3. /\ rows[l] \in {"done", "failed"} /\ rows' = [rows EXCEPT ![l] = "none"]
      /\ Forget(l) /\ UNCHANGED <<tusModule, stored, linked>>
      /\ tasks' = (IF instances[l] = 0 THEN tasks
                   ELSE [tasks EXCEPT ![instances[l]].stage = "aborted"])
  BY DEF dismissUpload, isTerminal
<1>4. /\ tasks' \in Seq(Task) /\ DOMAIN tasks' = DOMAIN tasks /\ Len(tasks') = Len(tasks)
      /\ \A u \in DOMAIN tasks :
           /\ tasks'[u].live = tasks[u].live /\ tasks'[u].blob = tasks[u].blob
           /\ tasks'[u].stage \in {tasks[u].stage, "aborted"}
  <2>1. CASE instances[l] = 0
    BY <1>2, <1>3, <2>1 DEF UploadTypeOK
  <2>2. CASE instances[l] # 0
    <3>1. instances[l] \in DOMAIN tasks
      BY <1>2, <2>2 DEF UploadTypeOK
    <3>2. PICK i : i = instances[l]
      OBVIOUS
    <3>3. tasks' \in Seq(Task) /\ TaskBecomes(i, "aborted")
      BY <1>3, <2>2, <3>1, <3>2, TaskUpdate DEF TaskStage, GoLiveInv
    <3> QED
      BY <3>3 DEF TaskBecomes
  <2> QED
    BY <2>1, <2>2
<1>5. /\ rows' \in [Cast -> UploadStatus \cup {"none"}]
      /\ \A m \in Cast : rows'[m] = IF m = l THEN "none" ELSE rows[m]
  BY <1>2, <1>3 DEF UploadTypeOK
<1>6. instances' \in [Cast -> 0..Len(tasks)]
  BY <1>2, <1>3, ForgetFacts
<1>7. UploadTypeOK'
  BY <1>2, <1>3, <1>4, <1>5, <1>6 DEF UploadTypeOK
<1>8. Uploads'
  BY <1>1, <1>4 DEF GoLiveInv, Uploads, ForCloudflare
<1>9. LinksSound'
  <2>1. \A m \in Cast : linked[m] # 0 => linked[m] \in DOMAIN tasks
    BY <1>2 DEF UploadTypeOK
  <2> QED
    BY <1>3, <1>4, <1>5, <2>1 DEF GoLiveInv, LinksSound
<1>10. BusyRows'
  <2>1. SUFFICES ASSUME "stale" \notin slips, NEW u \in DOMAIN tasks, Busy(u)'
                 PROVE  rows'[tasks[u].live] \in ACTIVE_STATUSES
    BY <1>1, <1>4 DEF BusyRows, isActive
  <2>2. Busy(u)
    BY <1>4, <2>1 DEF Busy
  <2>3. rows[tasks[u].live] \in ACTIVE_STATUSES
    BY <2>1, <2>2 DEF GoLiveInv, BusyRows, isActive
  <2> QED
    BY <1>2, <1>3, <1>5, <2>3 DEF ACTIVE_STATUSES
<1> QED
  BY <1>1, <1>7, <1>8, <1>9, <1>10 DEF GoLiveInv

-----------------------------------------------------------------------------
(* The theorems *)

LEMMA GoLiveInvInitially == GoLiveInit => GoLiveInv
<1> SUFFICES ASSUME GoLiveInit PROVE GoLiveInv
  OBVIOUS
<1> USE DEF GoLiveInit, UploadInit
<1>1. UploadTypeOK
  <2>1. tasks \in Seq(Task) /\ Len(tasks) = 0 /\ 0 \in 0..Len(tasks)
    OBVIOUS
  <2> QED
    BY <2>1 DEF UploadTypeOK
<1>2. PageTypes
  <2>1. casts \in Seq(CastState) /\ stops \in Seq(StopState) /\ Len(casts) = 0
    OBVIOUS
  <2>2. {created, whipSessionRef, recorderRef} \subseteq 0..Len(casts)
    BY <2>1
  <2>3. /\ mounted \in BOOLEAN /\ aupAccepted \in BOOLEAN /\ canRecord \in BOOLEAN
        /\ status \in ConnectionStatus /\ slips = {}
    BY Zenon DEF ConnectionStatus
  <2>5. Len(casts) <= MaxCasts
    BY <2>1, GoLiveConstants
  <2>4. /\ streamRef \in 0..cams /\ cams \in 0..MaxCams /\ asked \in 0..MaxCams
        /\ lit \subseteq 1..cams /\ cams + asked <= MaxCams
    BY GoLiveConstants
  <2> QED
    BY <1>1, <2>1, <2>2, <2>3, <2>4, <2>5 DEF PageTypes, GoLiveTypeOK
<1>3. DOMAIN casts = {} /\ DOMAIN stops = {} /\ DOMAIN tasks = {}
  OBVIOUS
<1>4. Tidy
  BY <1>3 DEF Tidy, EverythingHeld, Phases, NothingOpen, AllDone
<1>5. OneRecorder /\ Uploads /\ Matched /\ LinksSound /\ BusyRows
  BY <1>3 DEF OneRecorder, RecorderOf, Uploads, Matched, LinksSound, BusyRows
<1> QED
  BY <1>2, <1>4, <1>5 DEF GoLiveInv

LEMMA GoLiveInvKept == GoLiveInv /\ [GoLiveNext]_goLiveVars => GoLiveInv'
<1> SUFFICES ASSUME GoLiveInv, [GoLiveNext]_goLiveVars PROVE GoLiveInv'
  OBVIOUS
<1>1. CASE SetAup
  BY <1>1, AupKept
<1>2. CASE startPreview
  BY <1>2, StartPreviewKept
<1>3. CASE previewReady
  BY <1>3, PreviewReadyKept
<1>4. CASE previewRefused
  BY <1>4, PreviewRefusedKept
<1>5. CASE \E b \in Available : goLive(b)
  BY <1>5, GoLiveKept
<1>6. ASSUME NEW g \in DOMAIN casts, CastStep(g) PROVE GoLiveInv'
  BY <1>6, LiveCreatedKept, EndpointKept, PublishedKept, GoLiveFailsKept DEF CastStep
<1>7. ASSUME NEW g \in DOMAIN casts, NEW s \in {"connected", "disconnected", "failed"},
             onConnectionStateChange(g, s)
      PROVE  GoLiveInv'
  BY <1>7, ConnectionKept
<1>8. CASE stopLive
  BY <1>8, StopLiveKept
<1>9. CASE Unmount
  BY <1>9, UnmountKept
<1>10. ASSUME NEW k \in DOMAIN stops, StopStep(k) PROVE GoLiveInv'
  BY <1>10, SessionStoppedKept, RecorderStoppedKept, UploadUrlKept, UnmountStoppedKept
     DEF StopStep
<1>11. CASE (\E t \in DOMAIN tasks : TaskStep(t)) /\ UNCHANGED pageVars
  BY <1>11, QueueKept
<1>12. CASE (\E l \in Cast : dismissUpload(l)) /\ UNCHANGED pageVars
  BY <1>12, DismissKept
<1>13. CASE UNCHANGED goLiveVars
  <2>1. UNCHANGED pageVars /\ UNCHANGED uploadVars
    BY <1>13 DEF goLiveVars
  <2>2. /\ Tidy' /\ OneRecorder' /\ Matched' /\ (UploadTypeOK' => PageTypes')
        /\ UNCHANGED <<slips, stops, casts>>
    BY <2>1, PageUntouched
  <2>3. UploadTypeOK' /\ LinksSound' /\ BusyRows'
    BY <2>1, <2>2, QueueUntouched DEF GoLiveInv
  <2>4. Uploads'
    BY <2>1, <2>2 DEF GoLiveInv, Uploads, ForCloudflare, uploadVars
  <2> QED
    BY <2>2, <2>3, <2>4 DEF GoLiveInv
<1> QED
  BY <1>1, <1>2, <1>3, <1>4, <1>5, <1>6, <1>7, <1>8, <1>9, <1>10, <1>11, <1>12, <1>13
     DEF GoLiveNext

\* For any number of broadcasts, cameras and stops, every variable of the go-live
\* page and of the upload queue keeps its type: no handler that resumes after the
\* page or another handler moved on leaves a ref that names nothing.
THEOREM GoLiveTypes == GoLiveSpec => []GoLiveTypeOK
<1>1. GoLiveInv => GoLiveTypeOK
  BY DEF GoLiveInv, PageTypes
<1> QED
  BY <1>1, GoLiveInvInitially, GoLiveInvKept, PTL DEF GoLiveSpec

\* For any number of broadcasts, a visit in which the user did not slip leaves no
\* camera, connection or recorder behind once its handlers have ended
\* (go-live-screen.tsx:243-310).
THEOREM StopsRelease == GoLiveSpec => []StopReleases
<1>1. GoLiveInv => StopReleases
  <2>1. SUFFICES ASSUME GoLiveInv, slips = {}, Quiet, status = "idle" \/ ~mounted
                 PROVE  /\ lit = {}
                        /\ \A g \in DOMAIN casts : casts[g].rec # "recording"
                        /\ \A g \in DOMAIN casts : casts[g].pc \in {"none", "offer", "closed"}
    BY DEF StopReleases
  <2>2. EverythingHeld /\ (mounted => Phases)
    BY <2>1 DEF GoLiveInv, Tidy
  <2>3. mounted => streamRef = 0 /\ whipSessionRef = 0 /\ recorderRef = 0
    BY <2>1, <2>2 DEF Phases, NothingOpen
  <2>4. \A k \in DOMAIN stops : stops[k].stage = "done"
    BY <2>1 DEF Quiet, Waits
  <2>5. 0 \notin DOMAIN casts /\ 0 \notin lit
    BY <2>1, ShapeFacts DEF GoLiveInv, PageTypes, GoLiveTypeOK
  <2>6. lit = {}
    BY <2>2, <2>3, <2>5 DEF EverythingHeld
  <2>7. \A g \in DOMAIN casts : casts[g].rec # "recording" /\ casts[g].pc \in Rest
    BY <2>2, <2>3, <2>4, <2>5 DEF EverythingHeld, ConnectionHeld, RecorderHeld, Deleting
  <2> QED
    BY <2>6, <2>7 DEF Rest
<1> QED
  BY <1>1, GoLiveInvInitially, GoLiveInvKept, PTL DEF GoLiveSpec

\* For any number of broadcasts, stops and retries, a recording is uploaded once,
\* for a live of Cloudflare's and, unless a slow stop took the camera of a later
\* broadcast, for its own live, and the banner's rows say what became of it
\* (go-live-screen.tsx:237-296, upload-context.tsx:98-220).
THEOREM RecordingsAreHonest == GoLiveSpec => []RecordingsHonest
<1>1. GoLiveInv => RecordingsHonest
  <2> SUFFICES ASSUME GoLiveInv PROVE RecordingsHonest
    OBVIOUS
  <2>1. /\ \A t \in DOMAIN tasks : casts[tasks[t].live].backend = "cloudflare"
        /\ \A t, u \in DOMAIN tasks : tasks[t].blob = tasks[u].blob => t = u
    BY DEF GoLiveInv, Uploads, ForCloudflare
  <2>2. "stale" \notin slips => \A t \in DOMAIN tasks : tasks[t].live = tasks[t].blob
    BY OwnLive
  <2>3. ASSUME "stale" \notin slips PROVE BannerHonest
    <3>1. /\ UploadTypeOK /\ DOMAIN tasks = 1..Len(tasks)
      BY TaskFacts DEF GoLiveInv
    <3>2. \A l \in Cast : rows[l] = "done" =>
            linked[l] \in stored /\ tasks[linked[l]].live = l /\ linked[l] \in DOMAIN tasks
      BY <3>1 DEF GoLiveInv, LinksSound, UploadTypeOK
    <3>3. \A l \in Cast : rows[l] = "done" => linked[l] \in stored /\ tasks[linked[l]].blob = l
      BY <2>2, <2>3, <3>2
    <3>4. \A t \in DOMAIN tasks : tasks[t].stage \in {"load", "tus", "link"} => isActive(tasks[t].live)
      BY <2>3 DEF GoLiveInv, BusyRows, Busy
    <3> QED
      BY <3>3, <3>4 DEF BannerHonest
  <2> QED
    BY <2>1, <2>2, <2>3 DEF RecordingsHonest, RecordingMatchesLive
<1> QED
  BY <1>1, GoLiveInvInitially, GoLiveInvKept, PTL DEF GoLiveSpec
=============================================================================
