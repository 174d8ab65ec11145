-------------------------- MODULE LiveRegistration --------------------------
(***************************************************************************)
(* The studio's dashboard rows (app/dashboard/live-row.tsx), the server's  *)
(* handlers that change a live input (register, register-relayed,          *)
(* link-recording, rename, delete) and what they change: the live input's  *)
(* meta at Cloudflare, the relayer's counter in KV and the registry on     *)
(* chain.  All lives belong to one creator, who may have several tabs      *)
(* open.  A handler is a job whose stage is the await it is in; what lies  *)
(* between two awaits is one step.  A closed tab is a row that takes no     *)
(* more steps.                                                             *)
(***************************************************************************)
EXTENDS Integers, Sequences, FiniteSets

CONSTANTS
  Live,               \* live inputs of the creator
  Row,                \* dashboard rows, in any number of tabs
  liveOf,             \* the live input a row shows
  MaxFree,            \* MAX_FREE_REGISTRATIONS_PER_OWNER
  MaxJobs,            \* bound: requests in a run
  MaxNow,             \* bound: seconds that pass
  MaxTx               \* bound: transactions sent

ASSUME RegistrationConstants ==
  /\ liveOf \in [Row -> Live]
  /\ MaxFree \in Nat /\ MaxJobs \in Nat /\ MaxNow \in Nat /\ MaxTx \in Nat

VARIABLES
  inputs,             \* Cloudflare: the meta of each live input
  gone,               \* Cloudflare: deleted live inputs
  videos,             \* Cloudflare: lives whose uploaded recording exists
  kv,                 \* KV: sponsored registrations counted for the owner
  nonce, anchored,    \* ContentRegistry: nonces(owner), registered manifests
  txs,                \* registerContent transactions sent, in order
  row,                \* the state of each dashboard row
  jobs,               \* the requests the server got, in order
  now,                \* Date.now() in seconds
  written, overlap    \* history: the last value put under each key; two
                      \* requests were in flight together

regVars == <<inputs, gone, videos, kv, nonce, anchored, txs, row, jobs, now,
             written, overlap>>

\* sprint2PlaceholderManifestCid hashes the video, the owner and the second
Cid == [live: Live, at: 0..MaxNow]
None == [live |-> "none", at |-> 0]
sprint2PlaceholderManifestCid(l) == [live |-> l, at |-> now]

\* meta as the handlers use it; registerTxHash and registerBlock are written
\* with manifestCid and never apart from it.  A live's recording is one video.
Key == {"name", "recordingVideoUid", "manifestCid", "sponsored"}
Meta == [name: {"first", "renamed"}, recordingVideoUid: BOOLEAN,
         manifestCid: Cid \cup {None}, sponsored: BOOLEAN]
NoMeta == [name |-> "first", recordingVideoUid |-> FALSE,
           manifestCid |-> None, sponsored |-> FALSE]

Tx == [cid: Cid, nonce: Nat, sponsored: BOOLEAN,
       status: {"pending", "success", "reverted"}]

RowState == [kind: {"closed", "idle", "running", "success", "error"},
             step: {"none", "nonce", "sign", "relay", "confirm", "persist"},
             sponsored: BOOLEAN,        \* which of the two handlers runs
             exhausted: BOOLEAN,        \* sponsorship.kind = 'exhausted'
             props: Meta,               \* the live as the page rendered it
             cid: Cid \cup {None}, nonce: Nat, tx: Nat, job: Nat]

Job == [kind: {"register", "relayed", "link", "rename", "delete"},
        live: Live, stage: {"owner", "count", "verify", "submit", "receipt",
                            "increment", "video", "read", "put", "unlink",
                            "done"},
        cid: Cid \cup {None}, nonce: Nat, used: Nat, tx: Nat, seen: Meta,
        answer: {"none", "ok", "error", "exhausted"}]

Successful == {t \in DOMAIN txs : txs[t].status = "success"}
Active(j) == jobs[j].stage # "done"
Exists(l) == l \notin gone

-----------------------------------------------------------------------------
(* The dashboard page and its rows *)

\* DashboardPage: the rows it lists carry the meta as it is now
Rendered(r) == inputs[liveOf[r]]
Anchored(meta) == meta.manifestCid # None

NewRow(r) ==
  [kind |-> IF Anchored(Rendered(r)) THEN "success" ELSE "idle", step |-> "none",
   sponsored |-> FALSE, exhausted |-> FALSE,
   props |-> Rendered(r), cid |-> Rendered(r).manifestCid, nonce |-> 0,
   tx |-> 0, job |-> 0]

ClosedRow == [kind |-> "closed", step |-> "none", sponsored |-> FALSE,
              exhausted |-> FALSE, props |-> NoMeta,
              cid |-> None, nonce |-> 0, tx |-> 0, job |-> 0]

OpenDashboard(r) ==
  /\ row[r].kind = "closed" /\ Exists(liveOf[r])
  /\ row' = [row EXCEPT ![r] = NewRow(r)]
  /\ UNCHANGED <<inputs, gone, videos, kv, nonce, anchored, txs, jobs, now,
                 written, overlap>>

\* router.refresh, revalidatePath: new props, the row keeps its own state;
\* a deleted live is not listed, and neither is any when the list fails
Refresh(r) ==
  /\ row[r].kind # "closed"
  /\ row' = [row EXCEPT ![r] = IF Exists(liveOf[r])
                               THEN [@ EXCEPT !.props = Rendered(r)] ELSE ClosedRow]
  /\ UNCHANGED <<inputs, gone, videos, kv, nonce, anchored, txs, jobs, now,
                 written, overlap>>

canRegister(w) ==
  /\ w.props.recordingVideoUid /\ ~Anchored(w.props)
  /\ w.kind \notin {"closed", "running", "success"}

\* which of the two buttons the row offers: the free one, the self-paid one
RegisterButtons(w) ==
  {free \in BOOLEAN : canRegister(w) /\ (free => ~w.exhausted)}

\* what the row says about the chain
OnChainRow(w) ==
  CASE w.kind = "success" -> "anchored"
    [] w.kind = "running" -> "in progress"
    [] w.kind = "error" -> "failed"
    [] OTHER -> "nothing"

RowFails(w) == [w EXCEPT !.kind = "error", !.step = "none", !.cid = None,
                         !.nonce = 0, !.tx = 0, !.job = 0]

\* handleRegister and handleRegisterSponsored up to their first await
handleRegister(r, free) ==
  /\ free \in RegisterButtons(row[r])
  /\ row' = [row EXCEPT ![r] = [@ EXCEPT !.kind = "running", !.step = "nonce",
                                         !.sponsored = free]]
  /\ UNCHANGED <<inputs, gone, videos, kv, nonce, anchored, txs, jobs, now,
                 written, overlap>>

\* nonces(owner) answers and the typed data is built, for the wallet to sign
NonceRead(r) ==
  /\ row[r].kind = "running" /\ row[r].step = "nonce"
  /\ row' = [row EXCEPT ![r] = [@ EXCEPT
               !.step = "sign", !.nonce = nonce,
               !.cid = sprint2PlaceholderManifestCid(liveOf[r])]]
  /\ UNCHANGED <<inputs, gone, videos, kv, nonce, anchored, txs, jobs, now,
                 written, overlap>>

\* the RPC node, the wallet or the user refuses, the connection to the server
\* breaks, or the wait for a receipt runs out
RowGivesUp(r) ==
  /\ row[r].kind = "running"
  /\ row' = [row EXCEPT ![r] = RowFails(@)]
  /\ UNCHANGED <<inputs, gone, videos, kv, nonce, anchored, txs, jobs, now,
                 written, overlap>>

\* the wallet has signed: sendTransaction, at the creator's expense
SelfPaid(r) ==
  /\ row[r].kind = "running" /\ row[r].step = "sign" /\ ~row[r].sponsored
  /\ Len(txs) < MaxTx
  /\ txs' = Append(txs, [cid |-> row[r].cid, nonce |-> row[r].nonce,
                         sponsored |-> FALSE, status |-> "pending"])
  /\ row' = [row EXCEPT ![r] = [@ EXCEPT !.step = "confirm", !.tx = Len(txs) + 1]]
  /\ UNCHANGED <<inputs, gone, videos, kv, nonce, anchored, jobs, now,
                 written, overlap>>

-----------------------------------------------------------------------------
(* Requests: the live input as a handler first reads it, the patch it makes *)

NewJob(kind, l, w) ==
  [kind |-> kind, live |-> l, stage |-> "owner", cid |-> w.cid,
   nonce |-> w.nonce, used |-> 0, tx |-> w.tx, seen |-> NoMeta, answer |-> "none"]

Request(kind, l, w) ==
  /\ Len(jobs) < MaxJobs
  /\ jobs' = Append(jobs, NewJob(kind, l, w))
  /\ overlap' = (overlap \/ \E j \in DOMAIN jobs : Active(j))
  /\ UNCHANGED <<inputs, gone, videos, kv, nonce, anchored, txs, now, written>>

\* the wallet has signed: fetch('/register-relayed')
PostRelayed(r) ==
  /\ row[r].kind = "running" /\ row[r].step = "sign" /\ row[r].sponsored
  /\ Request("relayed", liveOf[r], row[r])
  /\ row' = [row EXCEPT ![r] = [@ EXCEPT !.step = "relay", !.job = Len(jobs) + 1]]

\* the receipt arrives: fetch('/register'), or the handler throws
Confirmed(r) ==
  /\ row[r].kind = "running" /\ row[r].step = "confirm"
  /\ \/ /\ txs[row[r].tx].status = "success"
        /\ Request("register", liveOf[r], row[r])
        /\ row' = [row EXCEPT ![r] = [@ EXCEPT !.step = "persist",
                                               !.job = Len(jobs) + 1]]
     \/ /\ txs[row[r].tx].status = "reverted"
        /\ row' = [row EXCEPT ![r] = RowFails(@)]
        /\ UNCHANGED <<inputs, gone, videos, kv, nonce, anchored, txs, jobs,
                       now, written, overlap>>

\* mutant: the row reacts to a good answer only
AnsweredOk(r) ==
  /\ row[r].kind = "running" /\ row[r].job # 0
  /\ jobs[row[r].job].answer = "ok"
  /\ row' = [row EXCEPT ![r] = [@ EXCEPT !.kind = "success", !.step = "none",
                                          !.nonce = 0, !.tx = 0, !.job = 0]]
  /\ UNCHANGED <<inputs, gone, videos, kv, nonce, anchored, txs, jobs, now,
                 written, overlap>>

\* the row's request answers
Answered(r) ==
  LET answer == IF row[r].job = 0 THEN "none" ELSE jobs[row[r].job].answer
  IN /\ row[r].kind = "running" /\ answer # "none"
     /\ row' = [row EXCEPT ![r] =
          IF answer = "ok"
          THEN [@ EXCEPT !.kind = "success", !.step = "none", !.nonce = 0,
                         !.tx = 0, !.job = 0]
          ELSE [RowFails(row[r]) EXCEPT
                  !.exhausted = row[r].exhausted \/ answer = "exhausted"]]
     /\ UNCHANGED <<inputs, gone, videos, kv, nonce, anchored, txs, jobs, now,
                    written, overlap>>

\* the form behind the pencil: one server action per submit
SubmitRename(r) ==
  /\ row[r].kind # "closed"
  /\ Request("rename", liveOf[r], ClosedRow)
  /\ UNCHANGED row

\* confirmAndDelete
SubmitDelete(r) ==
  /\ row[r].kind # "closed"
  /\ Request("delete", liveOf[r], ClosedRow)
  /\ UNCHANGED row

\* the upload context, after tus reports that the recording is stored
LinkRecording(l) ==
  /\ l \in videos
  /\ Request("link", l, ClosedRow)
  /\ UNCHANGED row

-----------------------------------------------------------------------------
(* The handlers.  Each step takes job j from one await to the next.         *)

Moves(j, job) == jobs' = [jobs EXCEPT ![j] = job]
Answer(job, answer) == [job EXCEPT !.stage = "done", !.answer = answer,
                                   !.seen = NoMeta, !.nonce = 0, !.used = 0]

\* a failed call of Cloudflare, the RPC node or KV, or a missing session.  The
\* relayed handler has already been paid for once the counter is written, and
\* answers "ok" whatever becomes of the meta
Fails(j) ==
  /\ Active(j)
  /\ Moves(j, Answer(jobs[j], IF /\ jobs[j].kind = "relayed"
                                 /\ jobs[j].stage \in {"read", "put"}
                              THEN "ok" ELSE "error"))
  /\ UNCHANGED <<inputs, gone, videos, kv, nonce, anchored, txs, row, now,
                 written, overlap>>

\* "manifestCid already set for this live"
Conflict(job, meta) == Anchored(meta) /\ meta.manifestCid # job.cid

\* what each handler does with the live input it has read: refuse, answer, or
\* go on to its next await
registerPost(job, meta) ==
  IF Conflict(job, meta) THEN Answer(job, "error") ELSE [job EXCEPT !.stage = "read"]

relayedPost(job, meta) ==
  IF Conflict(job, meta) THEN Answer(job, "error") ELSE [job EXCEPT !.stage = "count"]

linkRecordingPost(job, meta) ==
  IF meta.recordingVideoUid THEN Answer(job, "ok") ELSE [job EXCEPT !.stage = "video"]

renameLiveAction(job, meta) == [job EXCEPT !.stage = "read"]

deleteLiveAction(job, meta) ==
  [job EXCEPT !.stage = IF meta.recordingVideoUid THEN "unlink" ELSE "put"]

\* resolveLiveOwnership: not found, or the live as it is now
resolveLiveOwnership(j) ==
  LET job == jobs[j]
      meta == inputs[job.live]
  IN /\ job.stage = "owner"
     /\ Moves(j,
          IF ~Exists(job.live) THEN Answer(job, "error")
          ELSE CASE job.kind = "register" -> registerPost(job, meta)
                 [] job.kind = "relayed" -> relayedPost(job, meta)
                 [] job.kind = "link" -> linkRecordingPost(job, meta)
                 [] job.kind = "rename" -> renameLiveAction(job, meta)
                 [] job.kind = "delete" -> deleteLiveAction(job, meta))
     /\ UNCHANGED <<inputs, gone, videos, kv, nonce, anchored, txs, row, now,
                    written, overlap>>

\* readCount: the sponsorship budget
readCount(j) ==
  /\ jobs[j].stage = "count"
  /\ Moves(j, IF kv >= MaxFree THEN Answer(jobs[j], "exhausted")
              ELSE [jobs[j] EXCEPT !.used = kv, !.stage = "verify"])
  /\ UNCHANGED <<inputs, gone, videos, kv, nonce, anchored, txs, row, now,
                 written, overlap>>

\* nonces(owner), then verifyTypedData over the nonce just read
verifyTypedData(j) ==
  /\ jobs[j].stage = "verify"
  /\ Moves(j, IF jobs[j].nonce = nonce THEN [jobs[j] EXCEPT !.stage = "submit"]
              ELSE Answer(jobs[j], "error"))
  /\ UNCHANGED <<inputs, gone, videos, kv, nonce, anchored, txs, row, now,
                 written, overlap>>

\* what registerContent would do now
Accepts(tx) == tx.nonce = nonce /\ tx.cid \notin anchored

\* mutant: the registration is counted when it is sent
writeContractCounting(j) ==
  LET tx == [cid |-> jobs[j].cid, nonce |-> jobs[j].nonce, sponsored |-> TRUE,
             status |-> "pending"]
  IN /\ jobs[j].stage = "submit" /\ Len(txs) < MaxTx
     /\ txs' = Append(txs, tx)
     /\ kv' = kv + 1
     /\ Moves(j, [jobs[j] EXCEPT !.stage = "receipt", !.tx = Len(txs) + 1])
     /\ UNCHANGED <<inputs, gone, videos, nonce, anchored, row, now,
                    written, overlap>>

\* writeContract: a call that would revert now is refused by the estimate; the
\* node's answer to one that is broadcast may be lost
writeContract(j) ==
  LET tx == [cid |-> jobs[j].cid, nonce |-> jobs[j].nonce, sponsored |-> TRUE,
             status |-> "pending"]
  IN /\ jobs[j].stage = "submit"
     /\ \/ /\ Accepts(tx) /\ Len(txs) < MaxTx
           /\ txs' = Append(txs, tx)
           /\ LET sent == [jobs[j] EXCEPT !.stage = "receipt", !.tx = Len(txs) + 1]
              IN Moves(j, sent) \/ Moves(j, Answer(sent, "error"))
        \/ /\ ~Accepts(tx)
           /\ Moves(j, Answer(jobs[j], "error"))
           /\ UNCHANGED txs
     /\ UNCHANGED <<inputs, gone, videos, kv, nonce, anchored, row, now,
                    written, overlap>>

\* mutant: the status of the receipt is not looked at
waitForTransactionReceiptUnchecked(j) ==
  /\ jobs[j].stage = "receipt"
  /\ txs[jobs[j].tx].status # "pending"
  /\ Moves(j, [jobs[j] EXCEPT !.stage = "increment"])
  /\ UNCHANGED <<inputs, gone, videos, kv, nonce, anchored, txs, row, now,
                 written, overlap>>

\* waitForTransactionReceipt; its 30 s limit is Fails, and leaves the
\* transaction where it is
waitForTransactionReceipt(j) ==
  /\ jobs[j].stage = "receipt"
  /\ txs[jobs[j].tx].status # "pending"
  /\ Moves(j, IF txs[jobs[j].tx].status = "success"
              THEN [jobs[j] EXCEPT !.stage = "increment"]
              ELSE Answer(jobs[j], "error"))
  /\ UNCHANGED <<inputs, gone, videos, kv, nonce, anchored, txs, row, now,
                 written, overlap>>

\* mutant: what is left is counted, not what is used
incrementCountDown(j) ==
  /\ jobs[j].stage = "increment"
  /\ kv' = jobs[j].used - 1
  /\ Moves(j, [jobs[j] EXCEPT !.stage = "read"])
  /\ UNCHANGED <<inputs, gone, videos, nonce, anchored, txs, row, now,
                 written, overlap>>

incrementCount(j) ==
  /\ jobs[j].stage = "increment"
  /\ kv' = jobs[j].used + 1
  /\ Moves(j, [jobs[j] EXCEPT !.stage = "read"])
  /\ UNCHANGED <<inputs, gone, videos, nonce, anchored, txs, row, now,
                 written, overlap>>

\* link-recording: getVideo confirms the upload landed
getVideo(j) ==
  /\ jobs[j].stage = "video"
  /\ Moves(j, IF jobs[j].live \in videos THEN [jobs[j] EXCEPT !.stage = "read"]
              ELSE Answer(jobs[j], "error"))
  /\ UNCHANGED <<inputs, gone, videos, kv, nonce, anchored, txs, row, now,
                 written, overlap>>

\* the keys a handler sets
Patched(job) ==
  CASE job.kind = "rename" -> {"name"}
    [] job.kind = "link" -> {"recordingVideoUid"}
    [] job.kind = "relayed" -> {"manifestCid", "sponsored"}
    [] OTHER -> {"manifestCid"}

Patch(job) == [name |-> "renamed", recordingVideoUid |-> TRUE,
               manifestCid |-> job.cid, sponsored |-> TRUE]

\* mutant: the PUT replaces the meta
MergedReplacing(meta, job) ==
  [k \in Key |-> IF k \in Patched(job) THEN Patch(job)[k] ELSE NoMeta[k]]

Merged(meta, job) ==
  [k \in Key |-> IF k \in Patched(job) THEN Patch(job)[k] ELSE meta[k]]

\* updateLiveInput: GET, merge, PUT of the whole meta
updateLiveInputGet(j) ==
  /\ jobs[j].stage = "read" /\ Exists(jobs[j].live)
  /\ Moves(j, [jobs[j] EXCEPT !.seen = inputs[jobs[j].live], !.stage = "put"])
  /\ UNCHANGED <<inputs, gone, videos, kv, nonce, anchored, txs, row, now,
                 written, overlap>>

updateLiveInputPut(j) ==
  LET job == jobs[j] IN
  /\ job.stage = "put" /\ job.kind # "delete" /\ Exists(job.live)
  /\ inputs' = [inputs EXCEPT ![job.live] = Merged(job.seen, job)]
  /\ written' = [written EXCEPT ![job.live] =
                   [k \in Key |-> IF k \in Patched(job) THEN Patch(job)[k] ELSE @[k]]]
  /\ \E answer \in {"ok", IF job.kind = "relayed" THEN "ok" ELSE "error"} :
       Moves(j, Answer(job, answer))
  /\ UNCHANGED <<gone, videos, kv, nonce, anchored, txs, row, now, overlap>>

\* deleteLiveAction: the recording first; that it fails changes nothing
deleteVideo(j) ==
  /\ jobs[j].stage = "unlink"
  /\ videos' \in {videos, videos \ {jobs[j].live}}
  /\ Moves(j, [jobs[j] EXCEPT !.stage = "put"])
  /\ UNCHANGED <<inputs, gone, kv, nonce, anchored, txs, row, now, written,
                 overlap>>

deleteLiveInput(j) ==
  /\ jobs[j].stage = "put" /\ jobs[j].kind = "delete"
  /\ gone' = gone \cup {jobs[j].live}
  /\ Moves(j, Answer(jobs[j], "ok"))
  /\ UNCHANGED <<inputs, videos, kv, nonce, anchored, txs, row, now, written,
                 overlap>>

JobStep(j) ==
  \/ resolveLiveOwnership(j) \/ readCount(j) \/ verifyTypedData(j)
  \/ writeContract(j) \/ waitForTransactionReceipt(j) \/ incrementCount(j)
  \/ getVideo(j) \/ updateLiveInputGet(j) \/ updateLiveInputPut(j)
  \/ deleteVideo(j) \/ deleteLiveInput(j) \/ Fails(j)

-----------------------------------------------------------------------------
(* The chain, the uploads, the clock *)

\* registerContent in a block: the signature commits to the nonce
registerContent(t) ==
  /\ txs[t].status = "pending"
  /\ IF Accepts(txs[t])
     THEN /\ nonce' = nonce + 1
          /\ anchored' = anchored \cup {txs[t].cid}
          /\ txs' = [txs EXCEPT ![t].status = "success"]
     ELSE /\ txs' = [txs EXCEPT ![t].status = "reverted"]
          /\ UNCHANGED <<nonce, anchored>>
  /\ UNCHANGED <<inputs, gone, videos, kv, row, jobs, now, written, overlap>>

Uploaded(l) ==
  /\ l \notin videos /\ Exists(l) /\ ~inputs[l].recordingVideoUid
  /\ videos' = videos \cup {l}
  /\ UNCHANGED <<inputs, gone, kv, nonce, anchored, txs, row, jobs, now,
                 written, overlap>>

Tick ==
  /\ now < MaxNow
  /\ now' = now + 1
  /\ UNCHANGED <<inputs, gone, videos, kv, nonce, anchored, txs, row, jobs,
                 written, overlap>>

\* the creator's lives, their recordings linked already or not
RegInit ==
  /\ videos \in SUBSET Live
  /\ inputs = [l \in Live |-> [NoMeta EXCEPT !.recordingVideoUid = l \in videos]]
  /\ gone = {} /\ kv = 0 /\ nonce = 0 /\ anchored = {}
  /\ txs = <<>> /\ jobs = <<>> /\ now = 0
  /\ row = [r \in Row |-> ClosedRow]
  /\ written = inputs /\ overlap = FALSE

RowStep(r) ==
  \/ NonceRead(r) \/ RowGivesUp(r) \/ SelfPaid(r)
  \/ PostRelayed(r) \/ Confirmed(r) \/ Answered(r)

RegNext ==
  \/ \E r \in Row :
       \/ OpenDashboard(r) \/ Refresh(r)
       \/ SubmitRename(r) \/ SubmitDelete(r) \/ RowStep(r)
       \/ \E free \in BOOLEAN : handleRegister(r, free)
  \/ \E l \in Live : Uploaded(l) \/ LinkRecording(l)
  \/ \E j \in DOMAIN jobs : JobStep(j)
  \/ \E t \in DOMAIN txs : registerContent(t)
  \/ Tick

\* every await of a handler ends (Cloudflare, KV and the RPC node answer or
\* fail, the receipt's wait is bounded) and its answer reaches the row
RegFairness ==
  /\ \A r \in Row :
       /\ WF_regVars(Answered(r))
       /\ WF_regVars(row[r].step = "confirm" /\ (RowGivesUp(r) \/ Confirmed(r)))
  /\ \A j \in 1..MaxJobs : WF_regVars(j \in DOMAIN jobs /\ JobStep(j))

RegSpec == RegInit /\ [][RegNext]_regVars /\ RegFairness

-----------------------------------------------------------------------------
(* Properties *)

\* Every variable has its type.
RegTypeOK ==
  /\ inputs \in [Live -> Meta] /\ written \in [Live -> Meta]
  /\ gone \subseteq Live /\ videos \subseteq Live
  /\ kv \in Nat /\ nonce \in Nat /\ now \in 0..MaxNow
  /\ anchored \subseteq Cid /\ txs \in Seq(Tx) /\ jobs \in Seq(Job)
  /\ row \in [Row -> RowState] /\ overlap \in BOOLEAN

\* The meta tells the truth.  A manifest it names, and one a row calls anchored,
\* is registered on chain, whichever of the two paths, tabs and timeouts led
\* there: the routes write meta only after a successful receipt.  A recording it
\* links has landed at Cloudflare and is still there, unless the creator asked
\* for the live to be deleted.
AnchoredIsOnChain ==
  /\ \A l \in Live : Anchored(inputs[l]) => inputs[l].manifestCid \in anchored
  /\ \A r \in Row : OnChainRow(row[r]) = "anchored" => row[r].cid \in anchored
RecordingExists ==
  \A l \in Live \ gone :
    inputs[l].recordingVideoUid =>
      \/ l \in videos
      \/ \E j \in DOMAIN jobs : jobs[j].kind = "delete" /\ jobs[j].live = l
MetaTruthful == AnchoredIsOnChain /\ RecordingExists

\* The relayer's counter never charges the creator for a registration that did
\* not happen, whatever is lost, reverted or concurrent.
Sponsored == {t \in Successful : txs[t].sponsored}
NoOvercharge == kv <= Cardinality(Sponsored)

\* While no two requests overlap, every sponsored registration is counted but
\* those whose handler is still waiting for its transaction or failed to see
\* the outcome (the 504 of a slow receipt, a lost answer).
Unseen == {j \in DOMAIN jobs : /\ jobs[j].kind = "relayed" /\ jobs[j].tx # 0
                               /\ \/ jobs[j].stage \in {"receipt", "increment"}
                                  \/ jobs[j].answer = "error"}
SponsoredCounted ==
  ~overlap => Cardinality(Sponsored) <= kv + Cardinality(Unseen)

\* While no two requests overlap, a live input's meta holds the last value put
\* under each key: the merge of updateLiveInput loses no other key.
WritesKept == ~overlap => \A l \in Live \ gone : inputs[l] = written[l]

\* Once a row waits for the server or for a receipt, it stops saying so: the
\* handler's bounded waits and its catch report an outcome.
RegisterSettles ==
  \A r \in Row :
    (row[r].kind = "running" /\ (row[r].job # 0 \/ row[r].step = "confirm"))
      ~> OnChainRow(row[r]) # "in progress"

\* What the comments claim.  register-relayed/route.ts:30: "Rate limited to
\* `MAX_FREE_REGISTRATIONS_PER_OWNER` registrations per owner address".
SponsorshipCapped == Cardinality(Sponsored) <= MaxFree

\* register-relayed/route.ts:185: "the live input should only ever anchor one
\* manifest".
OneManifestPerLive == \A c, d \in anchored : c.live = d.live => c = d

\* stream-client.ts:99: "partial updates of individual keys are safe".
PartialUpdatesSafe == \A l \in Live \ gone : inputs[l] = written[l]
=============================================================================
