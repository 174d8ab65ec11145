----------------------------- MODULE UploadQueue -----------------------------
(***************************************************************************)
(* The recordings on their way to Cloudflare: UploadProvider               *)
(* (components/upload-context.tsx), mounted once at the root of the app,   *)
(* and UploadBanner, its rows.  A task is one call of startUpload: it      *)
(* loads tus-js-client, runs tus and links the recording to its live.      *)
(***************************************************************************)
EXTENDS Integers, Sequences, FiniteSets

CONSTANT Cast         \* broadcasts, by the number of the goLive call

VARIABLES
  rows,               \* uploads: the banner's row of each live, "none" if none
  instances,          \* instancesRef: the task whose tus.Upload a live has, or 0
  tasks,              \* the calls of startUpload, in order
  tusModule,          \* tusModuleRef.current is set
  stored, linked      \* Cloudflare: tasks whose video landed; the task whose
                      \* video a live's recordingVideoUid names, or 0

uploadVars == <<rows, instances, tasks, tusModule, stored, linked>>

UploadStatus == {"queued", "uploading", "linking", "done", "failed"}
ACTIVE_STATUSES == {"queued", "uploading", "linking"}
isActive(l) == rows[l] \in ACTIVE_STATUSES

Task == [live: Cast, blob: Cast, stage: {"load", "tus", "link", "ended", "aborted"}]

\* the row of a live, if it still has one
upsert(l, status) == rows' = [rows EXCEPT ![l] = IF @ = "none" THEN @ ELSE status]
Advance(t, stage) == tasks' = [tasks EXCEPT ![t].stage = stage]
Forget(l) == instances' = [instances EXCEPT ![l] = 0]

\* startUpload up to `await loadTus()`
startUpload(l, blob) ==
  /\ rows' = [rows EXCEPT ![l] = "queued"]
  /\ tasks' = Append(tasks, [live |-> l, blob |-> blob, stage |-> "load"])
  /\ UNCHANGED <<instances, tusModule, stored, linked>>

\* loadTus answers: the client is made, kept and started
loadTus(t) ==
  /\ tasks[t].stage = "load"
  /\ tusModule' = TRUE
  /\ instances' = [instances EXCEPT ![tasks[t].live] = t]
  /\ Advance(t, "tus")
  /\ UNCHANGED <<rows, stored, linked>>

\* mutant: nobody catches the failed import
loadTusFailsUncaught(t) ==
  /\ tasks[t].stage = "load" /\ ~tusModule
  /\ Advance(t, "ended")
  /\ UNCHANGED <<rows, instances, tusModule, stored, linked>>

\* the import fails; a module that is loaded needs no import
loadTusFails(t) ==
  /\ tasks[t].stage = "load" /\ ~tusModule
  /\ upsert(tasks[t].live, "failed")
  /\ Advance(t, "ended")
  /\ UNCHANGED <<instances, tusModule, stored, linked>>

onProgress(t) ==
  /\ tasks[t].stage = "tus"
  /\ upsert(tasks[t].live, "uploading")
  /\ UNCHANGED <<instances, tasks, tusModule, stored, linked>>

\* tus has used up its retryDelays
onError(t) ==
  /\ tasks[t].stage = "tus"
  /\ upsert(tasks[t].live, "failed")
  /\ Forget(tasks[t].live)
  /\ Advance(t, "ended")
  /\ UNCHANGED <<tusModule, stored, linked>>

\* the last chunk is stored, and linkRecording is called
onSuccess(t) ==
  /\ tasks[t].stage = "tus"
  /\ stored' = stored \cup {t}
  /\ upsert(tasks[t].live, "linking")
  /\ Advance(t, "link")
  /\ UNCHANGED <<instances, tusModule, linked>>

\* POST link-recording: the live's meta comes to name this video, whichever it named
\* before; a failure may come before or after the server has written it
linkRecording(t) ==
  LET l == tasks[t].live
      overwritten == [linked EXCEPT ![l] = t]
  IN /\ tasks[t].stage = "link"
     /\ \/ linked' = overwritten /\ upsert(l, "done")
        \/ linked' \in {linked, overwritten} /\ upsert(l, "failed")
     /\ Forget(l)
     /\ Advance(t, "ended")
     /\ UNCHANGED <<tusModule, stored>>

\* mutant: every row can be dismissed
isTerminalAny(l) == rows[l] # "none"

\* UploadRow: the X and "tentar novamente" of a terminal row, and the ten
\* seconds of a row that is done, all of which call dismissUpload
isTerminal(l) == rows[l] \in {"done", "failed"}

dismissUpload(l) ==
  /\ isTerminal(l)
  /\ rows' = [rows EXCEPT ![l] = "none"]
  /\ Forget(l)
  /\ tasks' = IF instances[l] = 0 THEN tasks
              ELSE [tasks EXCEPT ![instances[l]].stage = "aborted"]
  /\ UNCHANGED <<tusModule, stored, linked>>

\* the effect on `uploads`: while a row is active, closing the tab asks first
beforeunload == \E l \in Cast : isActive(l)

UploadInit ==
  /\ rows = [l \in Cast |-> "none"] /\ instances = [l \in Cast |-> 0]
  /\ tasks = <<>> /\ tusModule = FALSE
  /\ stored = {} /\ linked = [l \in Cast |-> 0]

\* a task runs on without its page
TaskStep(t) ==
  \/ loadTus(t) \/ loadTusFails(t) \/ onProgress(t) \/ onError(t)
  \/ onSuccess(t) \/ linkRecording(t)

\* the import, tus with its bounded retries and the link end, one way or another
TaskSettles(t) ==
  loadTus(t) \/ loadTusFails(t) \/ onError(t) \/ onSuccess(t) \/ linkRecording(t)

UploadTypeOK ==
  /\ rows \in [Cast -> UploadStatus \cup {"none"}]
  /\ tasks \in Seq(Task)
  /\ instances \in [Cast -> 0..Len(tasks)] /\ linked \in [Cast -> 0..Len(tasks)]
  /\ tusModule \in BOOLEAN /\ stored \subseteq 1..Len(tasks)

-----------------------------------------------------------------------------
(* Properties *)

\* The banner says "gravação salva" only of a live whose meta names a video
\* that landed and that is the live's own recording (upload-context.tsx:98-111);
\* and a task that still needs the tab has an active row, so that closing the tab
\* asks first, whatever the user dismissed and started again (206-220).
BannerHonest ==
  /\ \A l \in Cast : rows[l] = "done" =>
       linked[l] \in stored /\ tasks[linked[l]].blob = l
  /\ \A t \in DOMAIN tasks :
       tasks[t].stage \in {"load", "tus", "link"} => isActive(tasks[t].live)

\* An upload reaches an end and says so: no row stays active for ever.
UploadsSettle == \A l \in Cast : isActive(l) ~> ~isActive(l)
=============================================================================
