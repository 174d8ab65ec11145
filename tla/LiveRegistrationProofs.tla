----------------------- MODULE LiveRegistrationProofs -----------------------
(***************************************************************************)
(* Proofs about LiveRegistration, for any number of lives, rows, tabs,     *)
(* requests and transactions: what the meta and the rows say is true, the  *)
(* relayer's counter charges nobody for what did not happen, and writes    *)
(* that do not overlap keep each other's keys.                             *)
(***************************************************************************)
EXTENDS LiveRegistration, SumTheorems

(***************************************************************************)
(* The inductive invariant.  What a row or a request carries from one      *)
(* await to the next is still true when it is used: a transaction it waits *)
(* for, a manifest it is about to write, the meta it has read, the count   *)
(* it has read.                                                            *)
(***************************************************************************)

\* The recording of a live is there, or the creator asked to delete the live.
Kept(l) ==
  \/ l \in videos
  \/ \E j \in DOMAIN jobs : jobs[j].kind = "delete" /\ jobs[j].live = l

TruthfulMeta(l, meta) ==
  /\ Anchored(meta) => meta.manifestCid \in anchored
  /\ meta.recordingVideoUid => Kept(l)

RowOK(w) ==
  /\ w.kind = "success" => w.cid \in anchored
  /\ w.kind = "running" /\ w.step \in {"sign", "relay", "confirm", "persist"} => w.cid \in Cid
  /\ w.kind = "running" /\ w.step = "confirm" =>
       w.tx \in DOMAIN txs /\ txs[w.tx].cid = w.cid
  /\ w.job # 0 =>
       /\ w.kind = "running" /\ w.step \in {"relay", "persist"}
       /\ w.job \in DOMAIN jobs
       /\ jobs[w.job].cid = w.cid
       /\ jobs[w.job].kind \in {"register", "relayed"}

JobOK(x) ==
  /\ x.kind = "register" => x.cid \in anchored
  /\ x.kind = "relayed" => x.cid \in Cid
  /\ x.kind = "relayed" /\ (x.stage \in {"increment", "read", "put"} \/ x.answer = "ok") =>
       x.cid \in anchored
  /\ x.stage \in {"count", "verify", "submit", "receipt", "increment"} => x.kind = "relayed"
  /\ x.stage = "unlink" => x.kind = "delete"
  /\ x.stage = "video" => x.kind = "link"
  /\ x.kind = "link" /\ x.stage \in {"read", "put"} => Kept(x.live)
  /\ TruthfulMeta(x.live, x.seen)
  /\ x.stage = "receipt" =>
       /\ x.tx \in DOMAIN txs /\ txs[x.tx].cid = x.cid /\ txs[x.tx].sponsored
       /\ x.used <= Cardinality(Sponsored \ {x.tx})
  /\ x.stage \in {"verify", "submit"} => x.used <= Cardinality(Sponsored)
  /\ x.stage = "increment" => x.used + 1 <= Cardinality(Sponsored)

\* While requests have not overlapped, one at most is under way, and the meta it
\* has read is the meta as it is.
OneAtATime ==
  ~overlap =>
    /\ \A i, j \in DOMAIN jobs : Active(i) /\ Active(j) => i = j
    /\ inputs = written
    /\ \A j \in DOMAIN jobs :
         jobs[j].stage = "put" /\ jobs[j].kind # "delete" => jobs[j].seen = inputs[jobs[j].live]

RegInv ==
  /\ RegTypeOK
  /\ \A r \in Row : RowOK(row[r])
  /\ \A j \in DOMAIN jobs : JobOK(jobs[j])
  /\ \A t \in Successful : txs[t].cid \in anchored
  /\ \A l \in Live : TruthfulMeta(l, inputs[l])
  /\ NoOvercharge
  /\ OneAtATime

(***************************************************************************)
(* Nothing a row or a request relies on is ever taken back.                *)
(***************************************************************************)
Grows ==
  /\ anchored \subseteq anchored'
  /\ Sponsored \subseteq Sponsored'
  /\ \A t \in DOMAIN txs :
       t \in DOMAIN txs' /\ txs'[t].cid = txs[t].cid /\ txs'[t].sponsored = txs[t].sponsored
  /\ \A j \in DOMAIN jobs :
       /\ j \in DOMAIN jobs'
       /\ jobs'[j].kind = jobs[j].kind /\ jobs'[j].live = jobs[j].live /\ jobs'[j].cid = jobs[j].cid
  /\ \A l \in Live : Kept(l) => Kept(l)'

LEMMA SponsoredFinite ==
  ASSUME txs \in Seq(Tx)
  PROVE  /\ IsFiniteSet(Sponsored) /\ Cardinality(Sponsored) \in Nat
         /\ \A t : Cardinality(Sponsored \ {t}) \in Nat
<1>1. IsFiniteSet(DOMAIN txs)
  <2>1. DOMAIN txs = 1..Len(txs) /\ Len(txs) \in Nat
    OBVIOUS
  <2> QED
    BY <2>1, FS_Interval
<1>2. Sponsored \subseteq DOMAIN txs
  BY DEF Sponsored, Successful
<1>3. IsFiniteSet(Sponsored)
  BY <1>1, <1>2, FS_Subset
<1>4. \A t : IsFiniteSet(Sponsored \ {t})
  BY <1>3, FS_Subset
<1> QED
  BY <1>3, <1>4, FS_CardinalityType

LEMMA CountGrows ==
  ASSUME NEW A, NEW B, IsFiniteSet(B), A \subseteq B, NEW t
  PROVE  /\ Cardinality(A) \in Nat /\ Cardinality(B) \in Nat
         /\ Cardinality(A) <= Cardinality(B)
         /\ Cardinality(A \ {t}) \in Nat /\ Cardinality(B \ {t}) \in Nat
         /\ Cardinality(A \ {t}) <= Cardinality(B \ {t})
<1>1. IsFiniteSet(A) /\ IsFiniteSet(A \ {t}) /\ IsFiniteSet(B \ {t}) /\ A \ {t} \subseteq B \ {t}
  BY FS_Subset
<1> QED
  BY <1>1, FS_Subset, FS_CardinalityType

LEMMA RowGrows ==
  ASSUME NEW w, RowOK(w), Grows
  PROVE  RowOK(w)'
BY DEF RowOK, Grows

LEMMA MetaGrows ==
  ASSUME NEW l \in Live, NEW meta, TruthfulMeta(l, meta), Grows
  PROVE  TruthfulMeta(l, meta)'
BY DEF TruthfulMeta, Anchored, Grows

LEMMA JobGrows ==
  ASSUME NEW x \in Job, JobOK(x), Grows, txs' \in Seq(Tx)
  PROVE  JobOK(x)'
<1> DEFINE A == Sponsored
           B == Sponsored'
           t == x.tx
<1>1. IsFiniteSet(B)
  <2>1. DOMAIN txs' = 1..Len(txs') /\ Len(txs') \in Nat
    OBVIOUS
  <2>2. IsFiniteSet(DOMAIN txs')
    BY <2>1, FS_Interval
  <2>3. B \subseteq DOMAIN txs'
    BY DEF Sponsored, Successful
  <2> QED
    BY <2>2, <2>3, FS_Subset
<1>2. A \subseteq B
  BY DEF Grows
<1> HIDE DEF A, B
<1>3. /\ Cardinality(A) \in Nat /\ Cardinality(B) \in Nat
      /\ Cardinality(A) <= Cardinality(B)
      /\ Cardinality(A \ {t}) \in Nat /\ Cardinality(B \ {t}) \in Nat
      /\ Cardinality(A \ {t}) <= Cardinality(B \ {t})
  BY <1>1, <1>2, CountGrows
<1>4. x.used \in Nat /\ x.live \in Live
  BY DEF Job
<1>5. /\ x.stage = "receipt" => x.used <= Cardinality(B \ {t})
      /\ x.stage \in {"verify", "submit"} => x.used <= Cardinality(B)
      /\ x.stage = "increment" => x.used + 1 <= Cardinality(B)
  BY <1>3, <1>4 DEF JobOK, A
<1>6. TruthfulMeta(x.live, x.seen)'
  BY <1>4, MetaGrows DEF JobOK
<1>7. /\ x.kind = "register" => x.cid \in anchored'
      /\ x.kind = "relayed" => x.cid \in Cid
      /\ x.kind = "relayed" /\ (x.stage \in {"increment", "read", "put"} \/ x.answer = "ok") =>
           x.cid \in anchored'
      /\ x.stage \in {"count", "verify", "submit", "receipt", "increment"} => x.kind = "relayed"
      /\ x.stage = "unlink" => x.kind = "delete"
      /\ x.stage = "video" => x.kind = "link"
  BY DEF JobOK, Grows
<1>8. /\ x.kind = "link" /\ x.stage \in {"read", "put"} => Kept(x.live)'
      /\ x.stage = "receipt" =>
           x.tx \in DOMAIN txs' /\ txs'[x.tx].cid = x.cid /\ txs'[x.tx].sponsored
  BY <1>4 DEF JobOK, Grows
<1> QED
  BY <1>5, <1>6, <1>7, <1>8 DEF JobOK, B, t

\* What a row or a request that a step leaves alone relies on still holds.
LEMMA OthersKept ==
  ASSUME RegInv, Grows, txs' \in Seq(Tx)
  PROVE  /\ \A r \in Row : row'[r] = row[r] => RowOK(row[r])'
         /\ \A j \in DOMAIN jobs : jobs'[j] = jobs[j] => JobOK(jobs[j])'
         /\ \A l \in Live : inputs'[l] = inputs[l] => TruthfulMeta(l, inputs[l])'
<1>1. ASSUME NEW r \in Row, row'[r] = row[r] PROVE RowOK(row[r])'
  <2>1. PICK w : w = row[r]
    OBVIOUS
  <2>2. RowOK(w)
    BY <2>1 DEF RegInv
  <2>3. RowOK(w)'
    BY <2>2, RowGrows
  <2> QED
    BY <1>1, <2>1, <2>3
<1>2. ASSUME NEW j \in DOMAIN jobs, jobs'[j] = jobs[j] PROVE JobOK(jobs[j])'
  <2>1. PICK x : x = jobs[j]
    OBVIOUS
  <2>2. x \in Job /\ JobOK(x)
    BY <2>1, SeqElement DEF RegInv, RegTypeOK
  <2>3. JobOK(x)'
    BY <2>2, JobGrows
  <2> QED
    BY <1>2, <2>1, <2>3
<1>3. ASSUME NEW l \in Live, inputs'[l] = inputs[l] PROVE TruthfulMeta(l, inputs[l])'
  <2>1. PICK m : m = inputs[l]
    OBVIOUS
  <2>2. TruthfulMeta(l, m)
    BY <2>1 DEF RegInv
  <2>3. TruthfulMeta(l, m)'
    BY <2>2, MetaGrows
  <2> QED
    BY <1>3, <2>1, <2>3
<1> QED
  BY <1>1, <1>2, <1>3

(***************************************************************************)
(* A step that changes one row, and one that moves one request on.         *)
(***************************************************************************)
serverVars == <<inputs, gone, videos, kv, nonce, anchored, txs, now, written, overlap>>

LEMMA RowChanges ==
  ASSUME RegInv, NEW r \in Row, NEW w \in RowState, RowOK(w),
         row' = [row EXCEPT ![r] = w], UNCHANGED serverVars, UNCHANGED jobs
  PROVE  RegInv'
<1> USE DEF serverVars
<1>1. RegTypeOK'
  BY DEF RegInv, RegTypeOK
<1>2. Grows
  BY DEF Grows, Sponsored, Successful, Kept
<1>3. txs' \in Seq(Tx) /\ row \in [Row -> RowState]
  BY DEF RegInv, RegTypeOK
<1>4. ASSUME NEW q \in Row PROVE RowOK(row[q])'
  <2>1. CASE q = r
    <3>1. row'[q] = w
      BY <1>3, <2>1
    <3>2. RowOK(w)'
      BY <1>2, RowGrows
    <3> QED
      BY <3>1, <3>2
  <2>2. CASE q # r
    <3>1. row'[q] = row[q]
      BY <1>3, <2>2
    <3> QED
      BY <1>2, <1>3, <3>1, OthersKept
  <2> QED
    BY <2>1, <2>2
<1>5. \A j \in DOMAIN jobs' : JobOK(jobs[j])'
  BY <1>2, <1>3, OthersKept
<1>6. \A l \in Live : TruthfulMeta(l, inputs[l])'
  BY <1>2, <1>3, OthersKept
<1>7. (\A t \in Successful : txs[t].cid \in anchored)' /\ NoOvercharge' /\ OneAtATime'
  BY DEF RegInv, Successful, NoOvercharge, Sponsored, OneAtATime, Active
<1> QED
  BY <1>1, <1>4, <1>5, <1>6, <1>7 DEF RegInv

LEMMA JobMoved ==
  ASSUME RegInv, NEW j \in DOMAIN jobs, NEW x \in Job, JobOK(x), Moves(j, x),
         x.kind = jobs[j].kind, x.live = jobs[j].live, x.cid = jobs[j].cid,
         Active(j),
         x.stage = "put" /\ x.kind # "delete" => x.seen = inputs[x.live],
         UNCHANGED serverVars, UNCHANGED row
  PROVE  RegInv'
<1> USE DEF serverVars
<1>0. jobs \in Seq(Job) /\ txs' \in Seq(Tx)
  BY DEF RegInv, RegTypeOK
<1>1. /\ jobs' \in Seq(Job) /\ DOMAIN jobs' = DOMAIN jobs /\ jobs'[j] = x
      /\ \A i \in DOMAIN jobs \ {j} : jobs'[i] = jobs[i]
  BY <1>0, SeqUpdate DEF Moves
<1>2. RegTypeOK'
  BY <1>1 DEF RegInv, RegTypeOK
<1>3. \A i \in DOMAIN jobs : /\ jobs'[i].kind = jobs[i].kind
                             /\ jobs'[i].live = jobs[i].live
                             /\ jobs'[i].cid = jobs[i].cid
  BY <1>1
<1>4. Grows
  <2>1. \A l \in Live : Kept(l) => Kept(l)'
    BY <1>1, <1>3 DEF Kept
  <2> QED
    BY <1>1, <1>3, <2>1 DEF Grows, Sponsored, Successful
<1>5. \A r \in Row : RowOK(row[r])'
  BY <1>0, <1>4, OthersKept
<1>6. \A l \in Live : TruthfulMeta(l, inputs[l])'
  BY <1>0, <1>4, OthersKept
<1>7. ASSUME NEW i \in DOMAIN jobs' PROVE JobOK(jobs[i])'
  <2>1. CASE i = j
    <3>1. JobOK(x)'
      BY <1>0, <1>4, JobGrows
    <3> QED
      BY <1>1, <2>1, <3>1
  <2>2. CASE i # j
    BY <1>0, <1>1, <1>4, <2>2, OthersKept
  <2> QED
    BY <2>1, <2>2
<1>8. (\A t \in Successful : txs[t].cid \in anchored)' /\ NoOvercharge'
  BY DEF RegInv, Successful, NoOvercharge, Sponsored
<1>9. OneAtATime'
  <2> SUFFICES ASSUME ~overlap
               PROVE  /\ \A i, k \in DOMAIN jobs' : Active(i)' /\ Active(k)' => i = k
                      /\ inputs' = written'
                      /\ \A i \in DOMAIN jobs' :
                           jobs'[i].stage = "put" /\ jobs'[i].kind # "delete"
                             => jobs'[i].seen = inputs'[jobs'[i].live]
    BY DEF OneAtATime
  <2>1. \A i \in DOMAIN jobs : Active(i)' => Active(i)
    BY <1>1 DEF Active
  <2>2. /\ \A i, k \in DOMAIN jobs : Active(i) /\ Active(k) => i = k
        /\ inputs = written
        /\ \A i \in DOMAIN jobs : jobs[i].stage = "put" /\ jobs[i].kind # "delete"
                                    => jobs[i].seen = inputs[jobs[i].live]
    BY DEF RegInv, OneAtATime
  <2> QED
    BY <1>1, <2>1, <2>2
<1> QED
  BY <1>2, <1>5, <1>6, <1>7, <1>8, <1>9 DEF RegInv

LEMMA JobAdded ==
  ASSUME RegInv, NEW x \in Job, JobOK(x), x.stage = "owner",
         jobs' = Append(jobs, x),
         overlap' = (overlap \/ \E j \in DOMAIN jobs : Active(j)),
         UNCHANGED <<inputs, gone, videos, kv, nonce, anchored, txs, now, written>>,
         row' \in [Row -> RowState],
         \A r \in Row : row'[r] = row[r] \/ RowOK(row[r])'
  PROVE  RegInv'
<1>0. jobs \in Seq(Job) /\ txs' \in Seq(Tx)
  BY DEF RegInv, RegTypeOK
<1> DEFINE n == Len(jobs) + 1
<1>1. /\ jobs' \in Seq(Job) /\ DOMAIN jobs' = DOMAIN jobs \cup {n} /\ n \notin DOMAIN jobs
      /\ \A i \in DOMAIN jobs : jobs'[i] = jobs[i]
      /\ jobs'[n] = x
  BY <1>0, SeqAppend
<1> HIDE DEF n
<1>2. RegTypeOK'
  BY <1>1 DEF RegInv, RegTypeOK
<1>3. Grows
  <2>1. \A l \in Live : Kept(l) => Kept(l)'
    BY <1>1 DEF Kept
  <2> QED
    BY <1>1, <2>1 DEF Grows, Sponsored, Successful
<1>4. \A r \in Row : RowOK(row[r])'
  BY <1>0, <1>3, OthersKept
<1>5. \A l \in Live : TruthfulMeta(l, inputs[l])'
  BY <1>0, <1>3, OthersKept
<1>6. ASSUME NEW i \in DOMAIN jobs' PROVE JobOK(jobs[i])'
  <2>1. CASE i = n
    <3>1. JobOK(x)'
      BY <1>0, <1>3, JobGrows
    <3> QED
      BY <1>1, <2>1, <3>1
  <2>2. CASE i \in DOMAIN jobs
    BY <1>0, <1>1, <1>3, <2>2, OthersKept
  <2> QED
    BY <1>1, <2>1, <2>2
<1>7. (\A t \in Successful : txs[t].cid \in anchored)' /\ NoOvercharge'
  BY DEF RegInv, Successful, NoOvercharge, Sponsored
<1>8. OneAtATime'
  <2> SUFFICES ASSUME ~overlap'
               PROVE  /\ \A i, k \in DOMAIN jobs' : Active(i)' /\ Active(k)' => i = k
                      /\ inputs' = written'
                      /\ \A i \in DOMAIN jobs' :
                           jobs'[i].stage = "put" /\ jobs'[i].kind # "delete"
                             => jobs'[i].seen = inputs'[jobs'[i].live]
    BY DEF OneAtATime
  <2>1. ~overlap /\ \A i \in DOMAIN jobs : ~Active(i)
    OBVIOUS
  <2>2. \A i \in DOMAIN jobs : ~Active(i)'
    BY <1>1, <2>1 DEF Active
  <2>3. /\ inputs = written
        /\ \A i \in DOMAIN jobs : jobs[i].stage = "put" /\ jobs[i].kind # "delete"
                                    => jobs[i].seen = inputs[jobs[i].live]
    BY <2>1 DEF RegInv, OneAtATime
  <2> QED
    BY <1>1, <2>2, <2>3
<1> QED
  BY <1>2, <1>4, <1>5, <1>6, <1>7, <1>8 DEF RegInv

(***************************************************************************)
(* The rows.                                                               *)
(***************************************************************************)
LEMMA RowTypes ==
  ASSUME RegInv, NEW r \in Row
  PROVE  /\ row[r] \in RowState /\ RowOK(row[r])
         /\ liveOf[r] \in Live /\ inputs[liveOf[r]] \in Meta
BY RegistrationConstants DEF RegInv, RegTypeOK

LEMMA NoMetaType == NoMeta \in Meta /\ ClosedRow \in RowState
BY DEF NoMeta, Meta, ClosedRow, RowState

LEMMA Open_Inv ==
  ASSUME RegInv, NEW r \in Row, OpenDashboard(r) \/ Refresh(r)
  PROVE  RegInv'
<1>1. row[r] \in RowState /\ RowOK(row[r]) /\ inputs[liveOf[r]] \in Meta
  BY RowTypes
<1>2. CASE OpenDashboard(r)
  <2> DEFINE w == NewRow(r)
  <2>1. w \in RowState
    BY <1>1 DEF NewRow, RowState, Rendered, Meta
  <2>2. RowOK(w)
    <3>1. TruthfulMeta(liveOf[r], inputs[liveOf[r]])
      BY RowTypes DEF RegInv
    <3> QED
      BY <3>1 DEF RowOK, NewRow, Rendered, TruthfulMeta
  <2> HIDE DEF w
  <2>3. row' = [row EXCEPT ![r] = w] /\ UNCHANGED serverVars /\ UNCHANGED jobs
    BY <1>2 DEF OpenDashboard, serverVars, w
  <2> QED
    BY <2>1, <2>2, <2>3, RowChanges
<1>3. CASE Refresh(r)
  <2> DEFINE w == IF Exists(liveOf[r]) THEN [row[r] EXCEPT !.props = Rendered(r)] ELSE ClosedRow
  <2>1. w \in RowState
    BY <1>1, NoMetaType DEF RowState, Rendered
  <2>2. RowOK(w)
    BY <1>1 DEF RowOK, ClosedRow, RowState
  <2> HIDE DEF w
  <2>3. row' = [row EXCEPT ![r] = w] /\ UNCHANGED serverVars /\ UNCHANGED jobs
    BY <1>3 DEF Refresh, serverVars, w
  <2> QED
    BY <2>1, <2>2, <2>3, RowChanges
<1> QED
  BY <1>2, <1>3

LEMMA RowFailsOK ==
  ASSUME NEW w \in RowState
  PROVE  /\ RowFails(w) \in RowState /\ RowOK(RowFails(w))
         /\ \A b \in BOOLEAN : /\ [RowFails(w) EXCEPT !.exhausted = b] \in RowState
                               /\ RowOK([RowFails(w) EXCEPT !.exhausted = b])
BY ZenonT(60) DEF RowFails, RowOK, RowState

LEMMA Starting_Inv ==
  ASSUME RegInv, NEW r \in Row,
         \/ \E free \in BOOLEAN : handleRegister(r, free)
         \/ NonceRead(r)
         \/ RowGivesUp(r)
  PROVE  RegInv'
<1>1. row[r] \in RowState /\ RowOK(row[r]) /\ liveOf[r] \in Live
  BY RowTypes
<1>2. ASSUME NEW free \in BOOLEAN, handleRegister(r, free) PROVE RegInv'
  <2> DEFINE w == [row[r] EXCEPT !.kind = "running", !.step = "nonce", !.sponsored = free]
  <2>1. w \in RowState
    BY <1>1 DEF RowState
  <2>2. RowOK(w)
    BY <1>1, <1>2 DEF RowOK, RowState, handleRegister, RegisterButtons, canRegister
  <2> HIDE DEF w
  <2>3. row' = [row EXCEPT ![r] = w] /\ UNCHANGED serverVars /\ UNCHANGED jobs
    BY <1>2 DEF handleRegister, serverVars, w
  <2> QED
    BY <2>1, <2>2, <2>3, RowChanges
<1>3. CASE NonceRead(r)
  <2> DEFINE w == [row[r] EXCEPT !.step = "sign", !.nonce = nonce,
                                 !.cid = sprint2PlaceholderManifestCid(liveOf[r])]
  <2>1. nonce \in Nat /\ now \in 0..MaxNow
    BY DEF RegInv, RegTypeOK
  <2>2. sprint2PlaceholderManifestCid(liveOf[r]) \in Cid
    BY <1>1, <2>1 DEF Cid, sprint2PlaceholderManifestCid
  <2>3. w \in RowState
    BY <1>1, <2>1, <2>2 DEF RowState
  <2>4. RowOK(w)
    BY <1>1, <1>3, <2>2 DEF RowOK, RowState, NonceRead
  <2> HIDE DEF w
  <2>5. row' = [row EXCEPT ![r] = w] /\ UNCHANGED serverVars /\ UNCHANGED jobs
    BY <1>3 DEF NonceRead, serverVars, w
  <2> QED
    BY <2>3, <2>4, <2>5, RowChanges
<1>4. CASE RowGivesUp(r)
  <2>1. row' = [row EXCEPT ![r] = RowFails(row[r])] /\ UNCHANGED serverVars /\ UNCHANGED jobs
    BY <1>4 DEF RowGivesUp, serverVars
  <2> QED
    BY <1>1, <2>1, RowFailsOK, RowChanges
<1> QED
  BY <1>2, <1>3, <1>4

\* The parts of the invariant a step has to show when it disturbs several.
LEMMA Assembled ==
  ASSUME RegInv, RegTypeOK', Grows,
         \A r \in Row : row'[r] = row[r] \/ RowOK(row[r])',
         \A j \in DOMAIN jobs' : (j \in DOMAIN jobs /\ jobs'[j] = jobs[j]) \/ JobOK(jobs[j])',
         \A l \in Live : inputs'[l] = inputs[l] \/ TruthfulMeta(l, inputs[l])',
         \A t \in Successful' : txs'[t].cid \in anchored',
         NoOvercharge', OneAtATime'
  PROVE  RegInv'
<1>1. txs' \in Seq(Tx)
  BY DEF RegTypeOK
<1>2. /\ \A r \in Row : row'[r] = row[r] => RowOK(row[r])'
      /\ \A j \in DOMAIN jobs : jobs'[j] = jobs[j] => JobOK(jobs[j])'
      /\ \A l \in Live : inputs'[l] = inputs[l] => TruthfulMeta(l, inputs[l])'
  BY <1>1, OthersKept
<1> QED
  BY <1>2 DEF RegInv

\* A transaction that was sent is not yet a registration.
LEMMA TxAdded ==
  ASSUME RegInv, NEW tx \in Tx, tx.status = "pending", txs' = Append(txs, tx)
  PROVE  /\ txs' \in Seq(Tx) /\ Successful' = Successful /\ Sponsored' = Sponsored
         /\ DOMAIN txs' = DOMAIN txs \cup {Len(txs) + 1}
         /\ Len(txs) + 1 \notin DOMAIN txs /\ Len(txs) + 1 \in Nat
         /\ \A t \in DOMAIN txs : txs'[t] = txs[t]
         /\ txs'[Len(txs) + 1] = tx
<1>1. txs \in Seq(Tx)
  BY DEF RegInv, RegTypeOK
<1> DEFINE n == Len(txs) + 1
<1>2. /\ txs' \in Seq(Tx) /\ DOMAIN txs' = DOMAIN txs \cup {n}
      /\ n \notin DOMAIN txs /\ \A t \in DOMAIN txs : txs'[t] = txs[t]
      /\ txs'[n] = tx
  BY <1>1, SeqAppend
<1>3. n \in Nat
  BY <1>1
<1> HIDE DEF n
<1>4. Successful' = Successful
  BY <1>2 DEF Successful
<1>5. Sponsored' = Sponsored
  BY <1>2, <1>4 DEF Sponsored, Successful
<1> QED
  BY <1>2, <1>3, <1>4, <1>5 DEF n

LEMMA SelfPaid_Inv ==
  ASSUME RegInv, NEW r \in Row, SelfPaid(r)
  PROVE  RegInv'
<1> DEFINE tx == [cid |-> row[r].cid, nonce |-> row[r].nonce, sponsored |-> FALSE,
                  status |-> "pending"]
           n == Len(txs) + 1
           w == [row[r] EXCEPT !.step = "confirm", !.tx = n]
<1>1. row[r] \in RowState /\ RowOK(row[r]) /\ row \in [Row -> RowState]
  BY RowTypes DEF RegInv, RegTypeOK
<1>2. row[r].kind = "running" /\ row[r].step = "sign" /\ row[r].cid \in Cid /\ row[r].job = 0
  BY <1>1 DEF SelfPaid, RowOK
<1>3. tx \in Tx /\ tx.status = "pending" /\ tx.cid = row[r].cid
  BY <1>1, <1>2 DEF Tx, RowState
<1>4. txs' = Append(txs, tx) /\ row' = [row EXCEPT ![r] = w]
      /\ UNCHANGED <<inputs, gone, videos, kv, nonce, anchored, jobs, now, written, overlap>>
  BY DEF SelfPaid
<1> HIDE DEF tx
<1>5. /\ txs' \in Seq(Tx) /\ Successful' = Successful /\ Sponsored' = Sponsored
      /\ DOMAIN txs' = DOMAIN txs \cup {n} /\ n \in Nat
      /\ \A t \in DOMAIN txs : txs'[t] = txs[t]
      /\ txs'[n] = tx
  BY <1>3, <1>4, TxAdded
<1> HIDE DEF n
<1>6. w \in RowState /\ w.kind = "running" /\ w.step = "confirm" /\ w.tx = n
      /\ w.cid = row[r].cid /\ w.job = 0
  BY <1>1, <1>2, <1>5 DEF RowState
<1> HIDE DEF w
<1>7. RegTypeOK'
  BY <1>4, <1>5, <1>6 DEF RegInv, RegTypeOK
<1>8. Grows
  BY <1>4, <1>5 DEF Grows, Kept
<1>9. ASSUME NEW q \in Row PROVE row'[q] = row[q] \/ RowOK(row[q])'
  <2>1. CASE q = r
    <3>1. row'[q] = w
      BY <1>1, <1>4, <2>1
    <3> QED
      BY <1>2, <1>3, <1>5, <1>6, <3>1 DEF RowOK
  <2> QED
    BY <1>1, <1>4, <2>1
<1>10. \A t \in Successful' : txs'[t].cid \in anchored'
  BY <1>4, <1>5 DEF RegInv, Successful
<1>11. NoOvercharge' /\ OneAtATime'
  BY <1>4, <1>5 DEF RegInv, NoOvercharge, OneAtATime, Active
<1> QED
  BY <1>4, <1>7, <1>8, <1>9, <1>10, <1>11, Assembled

\* A new request carries what its row vouches for.
LEMMA NewJobOK ==
  ASSUME NEW kind \in {"register", "relayed", "link", "rename", "delete"},
         NEW l \in Live, NEW w \in RowState,
         kind = "register" => w.cid \in anchored,
         kind = "relayed" => w.cid \in Cid
  PROVE  /\ NewJob(kind, l, w) \in Job /\ JobOK(NewJob(kind, l, w))
         /\ NewJob(kind, l, w).stage = "owner" /\ NewJob(kind, l, w).kind = kind
         /\ NewJob(kind, l, w).cid = w.cid
<1> DEFINE x == NewJob(kind, l, w)
<1>1. x \in Job
  BY NoMetaType DEF NewJob, Job, RowState
<1>2. /\ x.kind = kind /\ x.stage = "owner" /\ x.cid = w.cid /\ x.seen = NoMeta
      /\ x.answer = "none" /\ x.live = l
  BY DEF NewJob
<1>3. TruthfulMeta(l, NoMeta)
  BY DEF TruthfulMeta, Anchored, NoMeta
<1> HIDE DEF x
<1>4. JobOK(x)
  BY <1>2, <1>3 DEF JobOK
<1> QED
  BY <1>1, <1>2, <1>4 DEF x

LEMMA Request_Inv ==
  ASSUME RegInv, NEW kind \in {"register", "relayed", "link", "rename", "delete"},
         NEW l \in Live, NEW w \in RowState,
         kind = "register" => w.cid \in anchored,
         kind = "relayed" => w.cid \in Cid,
         Request(kind, l, w),
         row' \in [Row -> RowState],
         \A r \in Row : row'[r] = row[r] \/ RowOK(row[r])'
  PROVE  RegInv'
<1> DEFINE x == NewJob(kind, l, w)
<1>1. x \in Job /\ JobOK(x) /\ x.stage = "owner"
  BY NewJobOK
<1>2. /\ jobs' = Append(jobs, x)
      /\ overlap' = (overlap \/ \E j \in DOMAIN jobs : Active(j))
      /\ UNCHANGED <<inputs, gone, videos, kv, nonce, anchored, txs, now, written>>
  BY DEF Request
<1> HIDE DEF x
<1> QED
  BY <1>1, <1>2, JobAdded

LEMMA Submit_Inv ==
  ASSUME RegInv,
         \/ \E r \in Row : SubmitRename(r) \/ SubmitDelete(r)
         \/ \E l \in Live : LinkRecording(l)
  PROVE  RegInv'
<1>1. PICK kind \in {"link", "rename", "delete"}, l \in Live :
        Request(kind, l, ClosedRow) /\ UNCHANGED row
  BY RegistrationConstants DEF SubmitRename, SubmitDelete, LinkRecording
<1>2. row' \in [Row -> RowState] /\ \A r \in Row : row'[r] = row[r]
  BY <1>1 DEF RegInv, RegTypeOK
<1> QED
  BY <1>1, <1>2, NoMetaType, Request_Inv

\* A row that has sent a request waits for that very request.
LEMMA WaitsForRequest ==
  ASSUME RegInv, NEW r \in Row, NEW kind \in {"register", "relayed"}, NEW step \in {"relay", "persist"},
         row[r].kind = "running", row[r].cid \in Cid,
         kind = "register" => row[r].cid \in anchored,
         Request(kind, liveOf[r], row[r]),
         row' = [row EXCEPT ![r] = [@ EXCEPT !.step = step, !.job = Len(jobs) + 1]]
  PROVE  RegInv'
<1>1. row[r] \in RowState /\ RowOK(row[r]) /\ liveOf[r] \in Live /\ row \in [Row -> RowState]
      /\ jobs \in Seq(Job)
  BY RowTypes DEF RegInv, RegTypeOK
<1> DEFINE n == Len(jobs) + 1
           w == [row[r] EXCEPT !.step = step, !.job = n]
           x == NewJob(kind, liveOf[r], row[r])
<1>2. x \in Job /\ x.kind = kind /\ x.cid = row[r].cid
  BY <1>1, NewJobOK
<1>3. jobs' = Append(jobs, x) /\ row' = [row EXCEPT ![r] = w] /\ UNCHANGED <<anchored, txs>>
  BY DEF Request
<1> HIDE DEF x
<1>4. DOMAIN jobs' = DOMAIN jobs \cup {n} /\ jobs'[n] = x
  BY <1>1, <1>2, <1>3, SeqAppend
<1>5. n \in Nat
  BY <1>1
<1> HIDE DEF n
<1>6. w \in RowState /\ w.kind = "running" /\ w.step = step /\ w.job = n /\ w.cid = row[r].cid
  BY <1>1, <1>5 DEF RowState
<1> HIDE DEF w
<1>7. row' \in [Row -> RowState]
  BY <1>1, <1>3, <1>6
<1>8. ASSUME NEW q \in Row PROVE row'[q] = row[q] \/ RowOK(row[q])'
  <2>1. CASE q = r
    <3>1. row'[q] = w
      BY <1>1, <1>3, <2>1
    <3> QED
      BY <1>2, <1>3, <1>4, <1>6, <3>1 DEF RowOK
  <2> QED
    BY <1>1, <1>3, <2>1
<1> QED
  BY <1>1, <1>7, <1>8, Request_Inv

LEMMA Waiting_Inv ==
  ASSUME RegInv, NEW r \in Row, PostRelayed(r) \/ Confirmed(r) \/ Answered(r)
  PROVE  RegInv'
<1>1. row[r] \in RowState /\ RowOK(row[r])
  BY RowTypes
<1>2. CASE PostRelayed(r)
  <2>1. row[r].kind = "running" /\ row[r].cid \in Cid
    BY <1>1, <1>2 DEF PostRelayed, RowOK
  <2> QED
    BY <1>2, <2>1, WaitsForRequest DEF PostRelayed
<1>3. CASE Confirmed(r)
  <2>1. row[r].kind = "running" /\ row[r].cid \in Cid
        /\ row[r].tx \in DOMAIN txs /\ txs[row[r].tx].cid = row[r].cid
    BY <1>1, <1>3 DEF Confirmed, RowOK
  <2>2. CASE txs[row[r].tx].status = "success" /\ Request("register", liveOf[r], row[r])
             /\ row' = [row EXCEPT ![r] = [@ EXCEPT !.step = "persist", !.job = Len(jobs) + 1]]
    <3>1. row[r].cid \in anchored
      BY <2>1, <2>2 DEF RegInv, Successful
    <3> QED
      BY <2>1, <2>2, <3>1, WaitsForRequest
  <2>3. CASE row' = [row EXCEPT ![r] = RowFails(row[r])] /\ UNCHANGED serverVars /\ UNCHANGED jobs
    BY <1>1, <2>3, RowFailsOK, RowChanges
  <2> QED
    BY <1>3, <2>2, <2>3 DEF Confirmed, serverVars
<1>4. CASE Answered(r)
  <2> DEFINE answer == jobs[row[r].job].answer
             w == IF answer = "ok"
                  THEN [row[r] EXCEPT !.kind = "success", !.step = "none", !.nonce = 0,
                                      !.tx = 0, !.job = 0]
                  ELSE [RowFails(row[r]) EXCEPT !.exhausted = row[r].exhausted \/ answer = "exhausted"]
  <2>1. row[r].kind = "running" /\ row[r].job # 0
        /\ row' = [row EXCEPT ![r] = w] /\ UNCHANGED serverVars /\ UNCHANGED jobs
    <3>1. row[r].kind = "running" /\ row[r].job # 0
      BY <1>4 DEF Answered
    <3>2. row' = [row EXCEPT ![r] = w]
      <4>1. CASE answer = "ok"
        BY <1>4, <3>1, <4>1 DEF Answered
      <4>2. CASE answer # "ok"
        BY <1>4, <3>1, <4>2 DEF Answered
      <4> QED
        BY <4>1, <4>2
    <3>3. UNCHANGED serverVars /\ UNCHANGED jobs
      BY <1>4 DEF Answered, serverVars
    <3> QED
      BY <3>1, <3>2, <3>3
  <2>2. row[r].job \in DOMAIN jobs /\ jobs[row[r].job].cid = row[r].cid
        /\ jobs[row[r].job].kind \in {"register", "relayed"} /\ JobOK(jobs[row[r].job])
    BY <1>1, <2>1 DEF RowOK, RegInv
  <2>3. w \in RowState /\ RowOK(w)
    <3>1. CASE answer = "ok"
      <4>1. row[r].cid \in anchored
        BY <2>2, <3>1 DEF JobOK
      <4> QED
        BY <1>1, <3>1, <4>1 DEF RowState, RowOK
    <3>2. CASE answer # "ok"
      <4> DEFINE b == row[r].exhausted \/ answer = "exhausted"
      <4>1. w = [RowFails(row[r]) EXCEPT !.exhausted = b] /\ b \in BOOLEAN
        BY <3>2
      <4> QED
        BY <1>1, <4>1, RowFailsOK
    <3> QED
      BY <3>1, <3>2
  <2> HIDE DEF w
  <2> QED
    BY <2>1, <2>3, RowChanges
<1> QED
  BY <1>2, <1>3, <1>4

(***************************************************************************)
(* The handlers.                                                           *)
(***************************************************************************)
LEMMA JobTypes ==
  ASSUME RegInv, NEW j \in DOMAIN jobs
  PROVE  /\ jobs[j] \in Job /\ JobOK(jobs[j]) /\ jobs[j].live \in Live
         /\ TruthfulMeta(jobs[j].live, inputs[jobs[j].live])
         /\ inputs[jobs[j].live] \in Meta
<1>1. jobs[j] \in Job /\ JobOK(jobs[j])
  BY SeqElement DEF RegInv, RegTypeOK
<1>2. jobs[j].live \in Live
  BY <1>1 DEF Job
<1> QED
  BY <1>1, <1>2 DEF RegInv, RegTypeOK

\* An answered request relies on nothing but its manifest.
LEMMA AnswerOK ==
  ASSUME NEW x \in Job, JobOK(x), NEW answer \in {"ok", "error", "exhausted"},
         x.kind = "relayed" /\ answer = "ok" => x.cid \in anchored
  PROVE  LET y == Answer(x, answer)
         IN  /\ y \in Job /\ JobOK(y) /\ y.stage = "done"
             /\ y.kind = x.kind /\ y.live = x.live /\ y.cid = x.cid
<1> DEFINE y == Answer(x, answer)
<1>1. y \in Job
  BY NoMetaType DEF Answer, Job
<1>2. /\ y.kind = x.kind /\ y.live = x.live /\ y.cid = x.cid /\ y.stage = "done"
      /\ y.answer = answer /\ y.seen = NoMeta
  BY DEF Answer, Job
<1>3. TruthfulMeta(y.live, NoMeta)
  BY DEF TruthfulMeta, Anchored, NoMeta
<1> HIDE DEF y
<1>4. JobOK(y)
  BY <1>2, <1>3 DEF JobOK
<1> QED
  BY <1>1, <1>2, <1>4 DEF y

\* A request that answers and changes nothing else.
LEMMA JobAnswers ==
  ASSUME RegInv, NEW j \in DOMAIN jobs, NEW answer \in {"ok", "error", "exhausted"},
         jobs[j].kind = "relayed" /\ answer = "ok" => jobs[j].cid \in anchored,
         Active(j), Moves(j, Answer(jobs[j], answer)), UNCHANGED serverVars, UNCHANGED row
  PROVE  RegInv'
<1> DEFINE y == Answer(jobs[j], answer)
<1>1. /\ y \in Job /\ JobOK(y) /\ y.stage = "done"
      /\ y.kind = jobs[j].kind /\ y.live = jobs[j].live /\ y.cid = jobs[j].cid
  BY JobTypes, AnswerOK
<1> HIDE DEF y
<1>2. Moves(j, y)
  BY DEF y
<1> QED
  BY <1>1, <1>2, JobMoved

LEMMA Fails_Inv ==
  ASSUME RegInv, NEW j \in DOMAIN jobs, Fails(j)
  PROVE  RegInv'
<1> DEFINE answer == IF jobs[j].kind = "relayed" /\ jobs[j].stage \in {"read", "put"}
                     THEN "ok" ELSE "error"
<1>1. Active(j) /\ Moves(j, Answer(jobs[j], answer)) /\ UNCHANGED serverVars /\ UNCHANGED row
  BY DEF Fails, serverVars
<1>2. jobs[j].kind = "relayed" /\ answer = "ok" => jobs[j].cid \in anchored
  BY JobTypes DEF JobOK
<1>3. answer \in {"ok", "error", "exhausted"}
  OBVIOUS
<1> HIDE DEF answer
<1> QED
  BY <1>1, <1>2, <1>3, JobAnswers

\* A request that goes on to its next await with what it has.
LEMMA JobGoesOn ==
  ASSUME RegInv, NEW j \in DOMAIN jobs,
         NEW stage \in {"count", "read", "video", "unlink", "put", "submit", "increment"},
         jobs[j].stage # "done",
         stage \in {"count", "submit", "increment"} => jobs[j].kind = "relayed",
         stage = "submit" => jobs[j].stage = "verify",
         stage = "increment" =>
           jobs[j].cid \in anchored /\ jobs[j].used + 1 <= Cardinality(Sponsored),
         stage \in {"unlink", "put"} => jobs[j].kind = "delete",
         jobs[j].kind = "relayed" => stage \in {"count", "submit", "increment"},
         stage = "video" => jobs[j].kind = "link",
         jobs[j].kind = "link" /\ stage = "read" => Kept(jobs[j].live),
         Moves(j, [jobs[j] EXCEPT !.stage = stage]), UNCHANGED serverVars, UNCHANGED row
  PROVE  RegInv'
<1> DEFINE x == jobs[j]
           y == [x EXCEPT !.stage = stage]
<1>1. x \in Job /\ JobOK(x)
  BY JobTypes
<1>2. /\ y \in Job /\ y.stage = stage /\ y.kind = x.kind /\ y.live = x.live /\ y.cid = x.cid
      /\ y.used = x.used /\ y.seen = x.seen /\ y.answer = x.answer /\ y.tx = x.tx
  BY <1>1 DEF Job
<1>3. Moves(j, y) /\ Active(j)
  BY DEF Active
<1> HIDE DEF y
<1>4. JobOK(y)
  BY <1>1, <1>2 DEF JobOK
<1>5. y.stage = "put" => y.kind = "delete"
  BY <1>2
<1> QED
  BY <1>2, <1>3, <1>4, <1>5, JobMoved

LEMMA resolveLiveOwnership_Inv ==
  ASSUME RegInv, NEW j \in DOMAIN jobs, resolveLiveOwnership(j)
  PROVE  RegInv'
<1> DEFINE job == jobs[j]
           meta == inputs[job.live]
<1>1. job \in Job /\ JobOK(job) /\ job.stage = "owner" /\ Active(j)
      /\ UNCHANGED serverVars /\ UNCHANGED row
  BY JobTypes DEF resolveLiveOwnership, serverVars, Active
<1>2. \/ Moves(j, Answer(job, "error"))
      \/ job.kind = "link" /\ Moves(j, Answer(job, "ok"))
      \/ job.kind \in {"register", "rename"} /\ Moves(j, [job EXCEPT !.stage = "read"])
      \/ job.kind = "relayed" /\ Moves(j, [job EXCEPT !.stage = "count"])
      \/ job.kind = "link" /\ Moves(j, [job EXCEPT !.stage = "video"])
      \/ job.kind = "delete" /\ Moves(j, [job EXCEPT !.stage = "unlink"])
      \/ job.kind = "delete" /\ Moves(j, [job EXCEPT !.stage = "put"])
  <2>1. CASE ~Exists(job.live)
    BY <2>1 DEF resolveLiveOwnership
  <2>2. CASE Exists(job.live) /\ job.kind = "register"
    BY <2>2 DEF resolveLiveOwnership, registerPost
  <2>3. CASE Exists(job.live) /\ job.kind = "relayed"
    BY <2>3 DEF resolveLiveOwnership, relayedPost
  <2>4. CASE Exists(job.live) /\ job.kind = "link"
    BY <2>4 DEF resolveLiveOwnership, linkRecordingPost
  <2>5. CASE Exists(job.live) /\ job.kind = "rename"
    BY <2>5 DEF resolveLiveOwnership, renameLiveAction
  <2>6. CASE Exists(job.live) /\ job.kind = "delete"
    BY <2>6 DEF resolveLiveOwnership, deleteLiveAction
  <2> QED
    BY <1>1, <2>1, <2>2, <2>3, <2>4, <2>5, <2>6 DEF Job
<1>3. CASE Moves(j, Answer(job, "error"))
  BY <1>1, <1>3, JobAnswers
<1>4. CASE job.kind = "link" /\ Moves(j, Answer(job, "ok"))
  BY <1>1, <1>4, JobAnswers
<1>5. CASE job.kind \in {"register", "rename"} /\ Moves(j, [job EXCEPT !.stage = "read"])
  BY <1>1, <1>5, JobGoesOn
<1>6. CASE job.kind = "relayed" /\ Moves(j, [job EXCEPT !.stage = "count"])
  BY <1>1, <1>6, JobGoesOn
<1>7. CASE job.kind = "link" /\ Moves(j, [job EXCEPT !.stage = "video"])
  BY <1>1, <1>7, JobGoesOn
<1>8. CASE job.kind = "delete" /\ Moves(j, [job EXCEPT !.stage = "unlink"])
  BY <1>1, <1>8, JobGoesOn
<1>9. CASE job.kind = "delete" /\ Moves(j, [job EXCEPT !.stage = "put"])
  BY <1>1, <1>9, JobGoesOn
<1> QED
  BY <1>2, <1>3, <1>4, <1>5, <1>6, <1>7, <1>8, <1>9

LEMMA readCount_Inv ==
  ASSUME RegInv, NEW j \in DOMAIN jobs, readCount(j)
  PROVE  RegInv'
<1> DEFINE x == jobs[j]
           y == [x EXCEPT !.used = kv, !.stage = "verify"]
<1>1. x \in Job /\ JobOK(x) /\ x.stage = "count" /\ Active(j)
      /\ UNCHANGED serverVars /\ UNCHANGED row
  BY JobTypes DEF readCount, serverVars, Active
<1>2. CASE Moves(j, Answer(x, "exhausted"))
  BY <1>1, <1>2, JobAnswers
<1>3. CASE Moves(j, y)
  <2>1. kv \in Nat /\ kv <= Cardinality(Sponsored)
    BY DEF RegInv, RegTypeOK, NoOvercharge
  <2>2. /\ y \in Job /\ y.stage = "verify" /\ y.kind = x.kind /\ y.live = x.live
        /\ y.cid = x.cid /\ y.used = kv /\ y.seen = x.seen /\ y.answer = x.answer
    BY <1>1, <2>1 DEF Job
  <2> HIDE DEF y
  <2>3. JobOK(y)
    BY <1>1, <2>1, <2>2 DEF JobOK
  <2> QED
    BY <1>1, <1>3, <2>2, <2>3, JobMoved
<1> QED
  BY <1>2, <1>3 DEF readCount

LEMMA verifyTypedData_Inv ==
  ASSUME RegInv, NEW j \in DOMAIN jobs, verifyTypedData(j)
  PROVE  RegInv'
<1>1. jobs[j].stage = "verify" /\ jobs[j].kind = "relayed" /\ Active(j)
      /\ UNCHANGED serverVars /\ UNCHANGED row
  BY JobTypes DEF verifyTypedData, serverVars, Active, JobOK
<1>2. CASE Moves(j, [jobs[j] EXCEPT !.stage = "submit"])
  BY <1>1, <1>2, JobGoesOn
<1>3. CASE Moves(j, Answer(jobs[j], "error"))
  BY <1>1, <1>3, JobAnswers
<1> QED
  BY <1>2, <1>3 DEF verifyTypedData

\* The receipt says success: the request's own transaction is one more
\* sponsored registration than those it counted before it sent it.
LEMMA waitForTransactionReceipt_Inv ==
  ASSUME RegInv, NEW j \in DOMAIN jobs, waitForTransactionReceipt(j)
  PROVE  RegInv'
<1> DEFINE t == jobs[j].tx
<1>1. jobs[j] \in Job /\ JobOK(jobs[j]) /\ jobs[j].stage = "receipt" /\ Active(j)
      /\ UNCHANGED serverVars /\ UNCHANGED row
  BY JobTypes DEF waitForTransactionReceipt, serverVars, Active
<1>2. /\ jobs[j].kind = "relayed" /\ t \in DOMAIN txs /\ txs[t].cid = jobs[j].cid
      /\ txs[t].sponsored /\ jobs[j].used <= Cardinality(Sponsored \ {t})
      /\ jobs[j].used \in Nat
  BY <1>1 DEF JobOK, Job
<1>3. CASE txs[t].status = "success" /\ Moves(j, [jobs[j] EXCEPT !.stage = "increment"])
  <2>1. t \in Sponsored /\ jobs[j].cid \in anchored
    BY <1>2, <1>3 DEF Sponsored, Successful, RegInv
  <2>2. txs \in Seq(Tx)
    BY DEF RegInv, RegTypeOK
  <2>3. Cardinality(Sponsored \ {t}) = Cardinality(Sponsored) - 1 /\ Cardinality(Sponsored) \in Nat
    BY <2>1, <2>2, SponsoredFinite, FS_RemoveElement
  <2>4. jobs[j].used + 1 <= Cardinality(Sponsored)
    BY <1>2, <2>3
  <2> QED
    BY <1>1, <1>2, <1>3, <2>1, <2>4, JobGoesOn
<1>4. CASE Moves(j, Answer(jobs[j], "error"))
  BY <1>1, <1>4, JobAnswers
<1> QED
  BY <1>3, <1>4 DEF waitForTransactionReceipt

LEMMA getVideo_Inv ==
  ASSUME RegInv, NEW j \in DOMAIN jobs, getVideo(j)
  PROVE  RegInv'
<1>1. jobs[j].stage = "video" /\ jobs[j].kind = "link" /\ Active(j)
      /\ UNCHANGED serverVars /\ UNCHANGED row
  BY JobTypes DEF getVideo, serverVars, Active, JobOK
<1>2. CASE jobs[j].live \in videos /\ Moves(j, [jobs[j] EXCEPT !.stage = "read"])
  <2>1. Kept(jobs[j].live)
    BY <1>2 DEF Kept
  <2> QED
    BY <1>1, <1>2, <2>1, JobGoesOn
<1>3. CASE Moves(j, Answer(jobs[j], "error"))
  BY <1>1, <1>3, JobAnswers
<1> QED
  BY <1>2, <1>3 DEF getVideo

LEMMA updateLiveInputGet_Inv ==
  ASSUME RegInv, NEW j \in DOMAIN jobs, updateLiveInputGet(j)
  PROVE  RegInv'
<1> DEFINE x == jobs[j]
           m == inputs[x.live]
           y == [x EXCEPT !.seen = m, !.stage = "put"]
<1>1. x \in Job /\ JobOK(x) /\ x.stage = "read" /\ Active(j) /\ m \in Meta
      /\ TruthfulMeta(x.live, m) /\ Moves(j, y) /\ UNCHANGED serverVars /\ UNCHANGED row
  BY JobTypes DEF updateLiveInputGet, serverVars, Active
<1>2. /\ y \in Job /\ y.stage = "put" /\ y.kind = x.kind /\ y.live = x.live
      /\ y.cid = x.cid /\ y.seen = m /\ y.answer = x.answer
  BY <1>1 DEF Job
<1> HIDE DEF y
<1>3. JobOK(y)
  BY <1>1, <1>2 DEF JobOK
<1> QED
  BY <1>1, <1>2, <1>3, JobMoved

(***************************************************************************)
(* The steps that move a request on and change something else as well.     *)
(***************************************************************************)
LEMMA JobsAfterMove ==
  ASSUME RegInv, NEW j \in DOMAIN jobs, NEW x \in Job, Moves(j, x), Active(j),
         x.kind = jobs[j].kind, x.live = jobs[j].live, x.cid = jobs[j].cid
  PROVE  /\ jobs' \in Seq(Job) /\ DOMAIN jobs' = DOMAIN jobs /\ jobs'[j] = x
         /\ \A i \in DOMAIN jobs \ {j} : jobs'[i] = jobs[i]
         /\ \A i \in DOMAIN jobs : /\ jobs'[i].kind = jobs[i].kind
                                   /\ jobs'[i].live = jobs[i].live
                                   /\ jobs'[i].cid = jobs[i].cid
         /\ overlap' = overlap /\ (~overlap => inputs' = written')
              /\ (x.stage = "put" /\ x.kind # "delete" => x.seen = inputs'[x.live])
              => OneAtATime'
<1>1. jobs \in Seq(Job)
  BY DEF RegInv, RegTypeOK
<1>2. /\ jobs' \in Seq(Job) /\ DOMAIN jobs' = DOMAIN jobs /\ jobs'[j] = x
      /\ \A i \in DOMAIN jobs \ {j} : jobs'[i] = jobs[i]
  BY <1>1, SeqUpdate DEF Moves
<1>3. \A i \in DOMAIN jobs : /\ jobs'[i].kind = jobs[i].kind
                             /\ jobs'[i].live = jobs[i].live
                             /\ jobs'[i].cid = jobs[i].cid
  BY <1>2
<1>4. ASSUME overlap' = overlap, ~overlap => inputs' = written',
             x.stage = "put" /\ x.kind # "delete" => x.seen = inputs'[x.live]
      PROVE  OneAtATime'
  <2> SUFFICES ASSUME ~overlap
               PROVE  /\ \A i, k \in DOMAIN jobs' : Active(i)' /\ Active(k)' => i = k
                      /\ inputs' = written'
                      /\ \A i \in DOMAIN jobs' :
                           jobs'[i].stage = "put" /\ jobs'[i].kind # "delete"
                             => jobs'[i].seen = inputs'[jobs'[i].live]
    BY <1>4 DEF OneAtATime
  <2>1. \A i \in DOMAIN jobs : i # j => ~Active(i)
    BY DEF RegInv, OneAtATime
  <2>2. \A i \in DOMAIN jobs : i # j => ~Active(i)' /\ jobs'[i].stage # "put"
    BY <1>2, <2>1 DEF Active
  <2> QED
    BY <1>2, <1>4, <2>2
<1> QED
  BY <1>2, <1>3, <1>4

LEMMA incrementCount_Inv ==
  ASSUME RegInv, NEW j \in DOMAIN jobs, incrementCount(j)
  PROVE  RegInv'
<1> DEFINE x == jobs[j]
           y == [x EXCEPT !.stage = "read"]
<1>1. x \in Job /\ JobOK(x) /\ x.stage = "increment" /\ Active(j)
  BY JobTypes DEF incrementCount, Active
<1>2. /\ y \in Job /\ y.stage = "read" /\ y.kind = x.kind /\ y.live = x.live /\ y.cid = x.cid
      /\ y.seen = x.seen /\ y.answer = x.answer
  BY <1>1 DEF Job
<1>3. Moves(j, y) /\ kv' = x.used + 1
      /\ UNCHANGED <<inputs, gone, videos, nonce, anchored, txs, row, now, written, overlap>>
  BY DEF incrementCount
<1>4. x.kind = "relayed" /\ x.cid \in anchored /\ x.used + 1 <= Cardinality(Sponsored)
      /\ x.used \in Nat
  BY <1>1 DEF JobOK, Job
<1> HIDE DEF y
<1>5. JobOK(y)
  BY <1>1, <1>2, <1>4 DEF JobOK
<1>6. /\ jobs' \in Seq(Job) /\ DOMAIN jobs' = DOMAIN jobs /\ jobs'[j] = y
      /\ \A i \in DOMAIN jobs \ {j} : jobs'[i] = jobs[i]
      /\ \A i \in DOMAIN jobs : /\ jobs'[i].kind = jobs[i].kind
                                /\ jobs'[i].live = jobs[i].live
                                /\ jobs'[i].cid = jobs[i].cid
  BY <1>1, <1>2, <1>3, JobsAfterMove
<1>7. OneAtATime'
  <2>1. ~overlap => inputs' = written'
    BY <1>3 DEF RegInv, OneAtATime
  <2> QED
    BY <1>1, <1>2, <1>3, <2>1, JobsAfterMove
<1>8. RegTypeOK'
  BY <1>3, <1>4, <1>6 DEF RegInv, RegTypeOK
<1>9. Grows
  <2>1. \A l \in Live : Kept(l) => Kept(l)'
    BY <1>3, <1>6 DEF Kept
  <2> QED
    BY <1>3, <1>6, <2>1 DEF Grows, Sponsored, Successful
<1>10. JobOK(jobs[j])'
  <2>1. PICK z : z = y
    OBVIOUS
  <2>2. z \in Job /\ JobOK(z)
    BY <1>2, <1>5, <2>1
  <2>3. JobOK(z)'
    BY <1>8, <1>9, <2>2, JobGrows DEF RegTypeOK
  <2> QED
    BY <1>6, <2>1, <2>3
<1>11. NoOvercharge' /\ \A t \in Successful' : txs'[t].cid \in anchored'
  BY <1>3, <1>4 DEF NoOvercharge, Sponsored, Successful, RegInv
<1> QED
  BY <1>3, <1>6, <1>7, <1>8, <1>9, <1>10, <1>11, Assembled

\* The meta that is put keeps what was read, but for the keys the handler sets.
LEMMA MergedOK ==
  ASSUME NEW m \in Meta, NEW x \in Job, x.kind # "delete",
         x.kind \in {"register", "relayed"} => x.cid \in Cid
  PROVE  /\ Merged(m, x) \in Meta
         /\ Merged(m, x).manifestCid
              = IF x.kind \in {"register", "relayed"} THEN x.cid ELSE m.manifestCid
         /\ Merged(m, x).recordingVideoUid
              = IF x.kind = "link" THEN TRUE ELSE m.recordingVideoUid
<1>1. x.kind \in {"register", "relayed", "link", "rename"}
  BY DEF Job
<1> DEFINE y == Merged(m, x)
<1>2. y = [k \in Key |-> IF k \in Patched(x) THEN Patch(x)[k] ELSE m[k]]
  BY DEF Merged
<1>3. /\ Patch(x)["name"] = "renamed" /\ Patch(x)["recordingVideoUid"] = TRUE
      /\ Patch(x)["manifestCid"] = x.cid /\ Patch(x)["sponsored"] = TRUE
  BY DEF Patch
<1>4. /\ m["name"] \in {"first", "renamed"} /\ m["recordingVideoUid"] \in BOOLEAN
      /\ m["manifestCid"] \in Cid \cup {None} /\ m["sponsored"] \in BOOLEAN
  BY DEF Meta
<1>5. /\ "name" \in Patched(x) <=> x.kind = "rename"
      /\ "recordingVideoUid" \in Patched(x) <=> x.kind = "link"
      /\ "manifestCid" \in Patched(x) <=> x.kind \in {"register", "relayed"}
      /\ "sponsored" \in Patched(x) <=> x.kind = "relayed"
  <2>1. CASE x.kind = "register"
    BY <2>1 DEF Patched
  <2>2. CASE x.kind = "relayed"
    BY <2>2 DEF Patched
  <2>3. CASE x.kind = "link"
    BY <2>3 DEF Patched
  <2>4. CASE x.kind = "rename"
    BY <2>4 DEF Patched
  <2> QED
    BY <1>1, <2>1, <2>2, <2>3, <2>4
<1>6. /\ y["name"] = IF x.kind = "rename" THEN "renamed" ELSE m["name"]
      /\ y["recordingVideoUid"] = IF x.kind = "link" THEN TRUE ELSE m["recordingVideoUid"]
      /\ y["manifestCid"] = IF x.kind \in {"register", "relayed"} THEN x.cid ELSE m["manifestCid"]
      /\ y["sponsored"] = IF x.kind = "relayed" THEN TRUE ELSE m["sponsored"]
  BY <1>2, <1>3, <1>5 DEF Key
<1>7. y = [name |-> y["name"], recordingVideoUid |-> y["recordingVideoUid"],
           manifestCid |-> y["manifestCid"], sponsored |-> y["sponsored"]]
  BY <1>2 DEF Key
<1> HIDE DEF y
<1>8. /\ y["name"] \in {"first", "renamed"} /\ y["recordingVideoUid"] \in BOOLEAN
      /\ y["manifestCid"] \in Cid \cup {None} /\ y["sponsored"] \in BOOLEAN
  BY <1>4, <1>6
<1>9. y \in Meta
  BY <1>7, <1>8 DEF Meta
<1> QED
  BY <1>6, <1>9 DEF y

LEMMA updateLiveInputPut_Inv ==
  ASSUME RegInv, NEW j \in DOMAIN jobs, updateLiveInputPut(j)
  PROVE  RegInv'
<1> DEFINE x == jobs[j]
           l == x.live
           old == x.seen
           merged == Merged(old, x)
<1>1. x \in Job /\ JobOK(x) /\ x.stage = "put" /\ x.kind # "delete" /\ Active(j)
      /\ l \in Live /\ old \in Meta
  BY JobTypes DEF updateLiveInputPut, Active, Job
<1>2. PICK answer \in {"ok", "error"} : Moves(j, Answer(x, answer))
  BY DEF updateLiveInputPut
<1>3. /\ inputs' = [inputs EXCEPT ![l] = merged]
      /\ written' = [written EXCEPT ![l] = Merged(written[l], x)]
      /\ UNCHANGED <<gone, videos, kv, nonce, anchored, txs, row, now, overlap>>
  BY DEF updateLiveInputPut, Merged
<1>4. x.kind \in {"register", "relayed"} => x.cid \in anchored /\ x.cid \in Cid
  BY <1>1 DEF JobOK, RegInv, RegTypeOK
<1>5. inputs \in [Live -> Meta] /\ written \in [Live -> Meta]
  BY DEF RegInv, RegTypeOK
<1>6. /\ merged \in Meta
      /\ merged.manifestCid = IF x.kind \in {"register", "relayed"} THEN x.cid ELSE old.manifestCid
      /\ merged.recordingVideoUid = IF x.kind = "link" THEN TRUE ELSE old.recordingVideoUid
      /\ Merged(written[l], x) \in Meta
  BY <1>1, <1>4, <1>5, MergedOK
<1> DEFINE y == Answer(x, answer)
<1>7. /\ y \in Job /\ JobOK(y) /\ y.stage = "done"
      /\ y.kind = x.kind /\ y.live = l /\ y.cid = x.cid
  BY <1>1, <1>4, AnswerOK
<1> HIDE DEF y
<1>8. /\ jobs' \in Seq(Job) /\ DOMAIN jobs' = DOMAIN jobs /\ jobs'[j] = y
      /\ \A i \in DOMAIN jobs \ {j} : jobs'[i] = jobs[i]
      /\ \A i \in DOMAIN jobs : /\ jobs'[i].kind = jobs[i].kind
                                /\ jobs'[i].live = jobs[i].live
                                /\ jobs'[i].cid = jobs[i].cid
  BY <1>1, <1>2, <1>7, JobsAfterMove DEF y
<1>9. OneAtATime'
  <2>1. ASSUME ~overlap PROVE inputs' = written'
    <3>1. inputs = written /\ old = inputs[l]
      BY <1>1, <2>1 DEF RegInv, OneAtATime
    <3> QED
      BY <1>3, <3>1
  <2> QED
    BY <1>1, <1>2, <1>3, <1>7, <2>1, JobsAfterMove DEF y
<1>10. RegTypeOK'
  BY <1>1, <1>3, <1>5, <1>6, <1>8 DEF RegInv, RegTypeOK
<1>11. Grows
  <2>1. \A k \in Live : Kept(k) => Kept(k)'
    BY <1>3, <1>8 DEF Kept
  <2> QED
    BY <1>3, <1>8, <2>1 DEF Grows, Sponsored, Successful
<1>12. JobOK(jobs[j])'
  <2>1. PICK z : z = y
    OBVIOUS
  <2>2. z \in Job /\ JobOK(z)
    BY <1>7, <2>1
  <2>3. JobOK(z)'
    BY <1>10, <1>11, <2>2, JobGrows DEF RegTypeOK
  <2> QED
    BY <1>8, <2>1, <2>3
<1>13. ASSUME NEW k \in Live PROVE inputs'[k] = inputs[k] \/ TruthfulMeta(k, inputs[k])'
  <2>1. CASE k = l
    <3>1. PICK m : m = merged
      OBVIOUS
    <3>2. inputs'[k] = m
      BY <1>1, <1>3, <1>5, <2>1, <3>1
    <3>3. Anchored(m) => m.manifestCid \in anchored
      BY <1>1, <1>4, <1>6, <3>1 DEF JobOK, TruthfulMeta, Anchored
    <3>4. m.recordingVideoUid => Kept(k)
      BY <1>1, <1>6, <2>1, <3>1 DEF JobOK, TruthfulMeta
    <3>5. TruthfulMeta(k, m)
      BY <3>3, <3>4 DEF TruthfulMeta
    <3>6. TruthfulMeta(k, m)'
      BY <1>11, <3>5, MetaGrows
    <3> QED
      BY <3>2, <3>6
  <2> QED
    BY <1>3, <1>5, <2>1
<1>14. NoOvercharge' /\ \A t \in Successful' : txs'[t].cid \in anchored'
  BY <1>3 DEF NoOvercharge, Sponsored, Successful, RegInv
<1> QED
  BY <1>3, <1>8, <1>9, <1>10, <1>11, <1>12, <1>13, <1>14, Assembled

\* The recording goes only because its live is to be deleted.
LEMMA Delete_Inv ==
  ASSUME RegInv, NEW j \in DOMAIN jobs, deleteVideo(j) \/ deleteLiveInput(j)
  PROVE  RegInv'
<1> DEFINE x == jobs[j]
           y == IF x.stage = "unlink" THEN [x EXCEPT !.stage = "put"] ELSE Answer(x, "ok")
<1>1. x \in Job /\ JobOK(x) /\ Active(j) /\ x.stage \in {"unlink", "put"}
      /\ x.kind = "delete" /\ x.live \in Live
  BY JobTypes DEF deleteVideo, deleteLiveInput, Active, JobOK
<1>2. /\ Moves(j, y)
      /\ \A l \in videos : l \in videos' \/ l = x.live
      /\ videos' \subseteq videos /\ gone' \subseteq gone \cup {x.live}
      /\ UNCHANGED <<inputs, kv, nonce, anchored, txs, row, now, written, overlap>>
  BY DEF deleteVideo, deleteLiveInput
<1>3. /\ y \in Job /\ JobOK(y) /\ y.kind = x.kind /\ y.live = x.live /\ y.cid = x.cid
  <2>1. CASE x.stage = "unlink"
    <3>1. /\ y \in Job /\ y.kind = x.kind /\ y.live = x.live /\ y.cid = x.cid
          /\ y.stage = "put" /\ y.seen = x.seen
      BY <1>1, <2>1 DEF Job
    <3> HIDE DEF y
    <3> QED
      BY <1>1, <3>1 DEF JobOK
  <2>2. CASE x.stage # "unlink"
    BY <1>1, <2>2, AnswerOK
  <2> QED
    BY <2>1, <2>2
<1> HIDE DEF y
<1>4. /\ jobs' \in Seq(Job) /\ DOMAIN jobs' = DOMAIN jobs /\ jobs'[j] = y
      /\ \A i \in DOMAIN jobs \ {j} : jobs'[i] = jobs[i]
      /\ \A i \in DOMAIN jobs : /\ jobs'[i].kind = jobs[i].kind
                                /\ jobs'[i].live = jobs[i].live
                                /\ jobs'[i].cid = jobs[i].cid
  BY <1>1, <1>2, <1>3, JobsAfterMove
<1>5. OneAtATime'
  <2>1. ~overlap => inputs' = written'
    BY <1>2 DEF RegInv, OneAtATime
  <2> QED
    BY <1>1, <1>2, <1>3, <2>1, JobsAfterMove
<1>6. RegTypeOK'
  BY <1>1, <1>2, <1>4 DEF RegInv, RegTypeOK
<1>7. Grows
  <2>1. Kept(x.live)'
    BY <1>1, <1>4 DEF Kept
  <2>2. \A k \in Live : Kept(k) => Kept(k)'
    BY <1>2, <1>4, <2>1 DEF Kept
  <2> QED
    BY <1>2, <1>4, <2>2 DEF Grows, Sponsored, Successful
<1>8. JobOK(jobs[j])'
  <2>1. PICK z : z = y
    OBVIOUS
  <2>2. z \in Job /\ JobOK(z)
    BY <1>3, <2>1
  <2>3. JobOK(z)'
    BY <1>6, <1>7, <2>2, JobGrows DEF RegTypeOK
  <2> QED
    BY <1>4, <2>1, <2>3
<1>9. NoOvercharge' /\ \A t \in Successful' : txs'[t].cid \in anchored'
  BY <1>2 DEF NoOvercharge, Sponsored, Successful, RegInv
<1> QED
  BY <1>2, <1>4, <1>5, <1>6, <1>7, <1>8, <1>9, Assembled

\* The count was read before the transaction existed, so it does not include it.
LEMMA writeContract_Inv ==
  ASSUME RegInv, NEW j \in DOMAIN jobs, writeContract(j)
  PROVE  RegInv'
<1> DEFINE x == jobs[j]
           tx == [cid |-> x.cid, nonce |-> x.nonce, sponsored |-> TRUE, status |-> "pending"]
           n == Len(txs) + 1
           sent == [x EXCEPT !.stage = "receipt", !.tx = n]
<1>1. x \in Job /\ JobOK(x) /\ x.stage = "submit" /\ Active(j)
      /\ UNCHANGED <<inputs, gone, videos, kv, nonce, anchored, row, now, written, overlap>>
  BY JobTypes DEF writeContract, Active
<1>2. x.kind = "relayed" /\ x.cid \in Cid /\ x.used <= Cardinality(Sponsored)
      /\ x.used \in Nat /\ x.nonce \in Nat
  BY <1>1 DEF JobOK, Job
<1>3. CASE UNCHANGED txs /\ Moves(j, Answer(x, "error"))
  BY <1>1, <1>3, JobAnswers DEF serverVars
<1>4. CASE txs' = Append(txs, tx) /\ (Moves(j, sent) \/ Moves(j, Answer(sent, "error")))
  <2>1. tx \in Tx /\ tx.status = "pending" /\ tx.cid = x.cid /\ tx.sponsored
    BY <1>2 DEF Tx
  <2> HIDE DEF tx
  <2>2. /\ txs' \in Seq(Tx) /\ Successful' = Successful /\ Sponsored' = Sponsored
        /\ DOMAIN txs' = DOMAIN txs \cup {n} /\ n \notin DOMAIN txs /\ n \in Nat
        /\ \A t \in DOMAIN txs : txs'[t] = txs[t]
        /\ txs'[n] = tx
    BY <1>4, <2>1, TxAdded
  <2> HIDE DEF n
  <2>3. /\ sent \in Job /\ sent.stage = "receipt" /\ sent.tx = n /\ sent.kind = x.kind
        /\ sent.live = x.live /\ sent.cid = x.cid /\ sent.used = x.used /\ sent.seen = x.seen
        /\ sent.answer = x.answer
    BY <1>1, <2>2 DEF Job
  <2> HIDE DEF sent
  <2>4. PICK y : Moves(j, y) /\ (y = sent \/ y = Answer(sent, "error"))
    BY <1>4
  <2>5. /\ y \in Job /\ y.kind = x.kind /\ y.live = x.live /\ y.cid = x.cid
        /\ y.stage \in {"receipt", "done"}
    <3>1. CASE y = sent
      BY <2>3, <3>1
    <3>2. CASE y = Answer(sent, "error")
      BY <2>3, <3>2, NoMetaType DEF Answer, Job
    <3> QED
      BY <2>4, <3>1, <3>2
  <2>6. /\ jobs' \in Seq(Job) /\ DOMAIN jobs' = DOMAIN jobs /\ jobs'[j] = y
        /\ \A i \in DOMAIN jobs \ {j} : jobs'[i] = jobs[i]
        /\ \A i \in DOMAIN jobs : /\ jobs'[i].kind = jobs[i].kind
                                  /\ jobs'[i].live = jobs[i].live
                                  /\ jobs'[i].cid = jobs[i].cid
    BY <1>1, <2>4, <2>5, JobsAfterMove
  <2>7. OneAtATime'
    <3>1. ~overlap => inputs' = written'
      BY <1>1 DEF RegInv, OneAtATime
    <3> QED
      BY <1>1, <2>4, <2>5, <3>1, JobsAfterMove
  <2>8. RegTypeOK'
    BY <1>1, <2>2, <2>6 DEF RegInv, RegTypeOK
  <2>9. Grows
    <3>1. \A l \in Live : Kept(l) => Kept(l)'
      BY <1>1, <2>6 DEF Kept
    <3> QED
      BY <1>1, <2>2, <2>6, <3>1 DEF Grows
  <2>10. JobOK(y)'
    <3>1. TruthfulMeta(x.live, x.seen)
      BY <1>1 DEF JobOK
    <3>2. CASE y = sent
      <4>1. PICK z \in Job : z = x
        BY <1>1
      <4>2. TruthfulMeta(z.live, z.seen)' /\ y.seen = z.seen /\ y.live = z.live /\ y.answer = z.answer
        BY <2>3, <2>9, <3>1, <3>2, <4>1, MetaGrows DEF Job
      <4>3. TruthfulMeta(y.live, y.seen)'
        BY <4>2
      <4>4. Sponsored' \ {n} = Sponsored
        BY <2>2 DEF Sponsored, Successful
      <4>5. y.used <= Cardinality(Sponsored' \ {y.tx})
        BY <1>2, <2>3, <3>2, <4>4
      <4>6. y.answer # "ok" \/ x.cid \in anchored
        BY <1>1, <1>2, <4>1, <4>2 DEF JobOK
      <4> QED
        BY <1>1, <1>2, <2>1, <2>2, <2>3, <3>2, <4>3, <4>5, <4>6 DEF JobOK
    <3>3. CASE y = Answer(sent, "error")
      <4>1. y.stage = "done" /\ y.answer = "error" /\ y.seen = NoMeta
        BY <2>3, <3>3 DEF Answer, Job
      <4>2. TruthfulMeta(y.live, y.seen)'
        BY <4>1 DEF TruthfulMeta, Anchored, NoMeta
      <4> QED
        BY <1>2, <2>5, <4>1, <4>2 DEF JobOK
    <3> QED
      BY <2>4, <3>2, <3>3
  <2>11. JobOK(jobs[j])'
    BY <2>6, <2>10
  <2>12. NoOvercharge' /\ \A t \in Successful' : txs'[t].cid \in anchored'
    BY <1>1, <2>2 DEF NoOvercharge, Successful, RegInv
  <2> QED
    BY <1>1, <2>6, <2>7, <2>8, <2>9, <2>11, <2>12, Assembled
<1> QED
  BY <1>3, <1>4 DEF writeContract

LEMMA JobStep_Inv ==
  ASSUME RegInv, NEW j \in DOMAIN jobs, JobStep(j)
  PROVE  RegInv'
BY resolveLiveOwnership_Inv, readCount_Inv, verifyTypedData_Inv, writeContract_Inv,
   waitForTransactionReceipt_Inv, incrementCount_Inv, getVideo_Inv, updateLiveInputGet_Inv,
   updateLiveInputPut_Inv, Delete_Inv, Fails_Inv DEF JobStep

(***************************************************************************)
(* The chain, the uploads, the clock.                                      *)
(***************************************************************************)
LEMMA registerContent_Inv ==
  ASSUME RegInv, NEW t \in DOMAIN txs, registerContent(t)
  PROVE  RegInv'
<1> DEFINE status == IF Accepts(txs[t]) THEN "success" ELSE "reverted"
           tx == [txs[t] EXCEPT !.status = status]
<1>1. txs \in Seq(Tx) /\ txs[t] \in Tx /\ txs[t].status = "pending"
      /\ UNCHANGED <<inputs, gone, videos, kv, row, jobs, now, written, overlap>>
  BY SeqElement DEF RegInv, RegTypeOK, registerContent
<1>2. /\ tx \in Tx /\ tx.cid = txs[t].cid /\ tx.sponsored = txs[t].sponsored
      /\ tx.status = status /\ tx.cid \in Cid
  BY <1>1 DEF Tx
<1>3. txs' = [txs EXCEPT ![t] = tx]
  BY <1>1 DEF registerContent
<1>4. /\ anchored \subseteq anchored' /\ anchored' \subseteq Cid /\ nonce' \in Nat
      /\ status = "success" => tx.cid \in anchored'
  BY <1>2 DEF registerContent, RegInv, RegTypeOK
<1> HIDE DEF tx, status
<1>5. /\ txs' \in Seq(Tx) /\ DOMAIN txs' = DOMAIN txs /\ txs'[t] = tx
      /\ \A u \in DOMAIN txs \ {t} : txs'[u] = txs[u]
  BY <1>1, <1>2, <1>3, SeqUpdate
<1>6. Successful \subseteq Successful' /\ Sponsored \subseteq Sponsored'
  BY <1>1, <1>5 DEF Successful, Sponsored
<1>7. RegTypeOK'
  BY <1>1, <1>4, <1>5 DEF RegInv, RegTypeOK
<1>8. Grows
  <2>1. \A l \in Live : Kept(l) => Kept(l)'
    BY <1>1 DEF Kept
  <2>2. \A u \in DOMAIN txs : /\ u \in DOMAIN txs' /\ txs'[u].cid = txs[u].cid
                              /\ txs'[u].sponsored = txs[u].sponsored
    BY <1>2, <1>5
  <2> QED
    BY <1>1, <1>4, <1>6, <2>1, <2>2 DEF Grows
<1>9. \A u \in Successful' : txs'[u].cid \in anchored'
  BY <1>2, <1>4, <1>5 DEF Successful, RegInv
<1>10. NoOvercharge'
  <2> DEFINE A == Sponsored
             B == Sponsored'
  <2>1. B \subseteq DOMAIN txs
    BY <1>5 DEF Sponsored, Successful
  <2>2. IsFiniteSet(DOMAIN txs)
    <3>1. DOMAIN txs = 1..Len(txs) /\ Len(txs) \in Nat
      BY <1>1
    <3> QED
      BY <3>1, FS_Interval
  <2>3. IsFiniteSet(B) /\ A \subseteq B
    BY <1>6, <2>1, <2>2, FS_Subset
  <2>4. kv \in Nat /\ kv <= Cardinality(A)
    BY DEF RegInv, RegTypeOK, NoOvercharge
  <2> HIDE DEF A, B
  <2>5. Cardinality(A) \in Nat /\ Cardinality(B) \in Nat /\ Cardinality(A) <= Cardinality(B)
    BY <2>3, CountGrows
  <2>6. kv <= Cardinality(B)
    BY <2>4, <2>5
  <2> QED
    BY <1>1, <2>6 DEF NoOvercharge, B
<1>11. OneAtATime'
  BY <1>1 DEF RegInv, OneAtATime, Active
<1> QED
  BY <1>1, <1>7, <1>8, <1>9, <1>10, <1>11, Assembled

LEMMA Outside_Inv ==
  ASSUME RegInv, Tick \/ \E l \in Live : Uploaded(l)
  PROVE  RegInv'
<1>1. /\ videos \subseteq videos' /\ videos' \subseteq Live /\ now' \in 0..MaxNow
      /\ UNCHANGED <<inputs, gone, kv, nonce, anchored, txs, row, jobs, written, overlap>>
  BY RegistrationConstants DEF Tick, Uploaded, RegInv, RegTypeOK
<1>2. RegTypeOK'
  BY <1>1 DEF RegInv, RegTypeOK
<1>3. Grows
  BY <1>1 DEF Grows, Kept, Sponsored, Successful
<1>4. NoOvercharge' /\ OneAtATime' /\ \A t \in Successful' : txs'[t].cid \in anchored'
  BY <1>1 DEF RegInv, NoOvercharge, Sponsored, Successful, OneAtATime, Active
<1> QED
  BY <1>1, <1>2, <1>3, <1>4, Assembled

LEMMA RegInit_Inv == RegInit => RegInv
<1> SUFFICES ASSUME RegInit PROVE RegInv
  OBVIOUS
<1> USE DEF RegInit
<1>1. RegTypeOK
  <2>1. \A b \in BOOLEAN : [NoMeta EXCEPT !.recordingVideoUid = b] \in Meta
    BY DEF NoMeta, Meta
  <2>2. inputs \in [Live -> Meta] /\ written \in [Live -> Meta]
    <3>1. \A l \in Live : (l \in videos) \in BOOLEAN
      BY SMT
    <3>2. \A l \in Live : [NoMeta EXCEPT !.recordingVideoUid = l \in videos] \in Meta
      BY ONLY <2>1, <3>1, Zenon
    <3>3. inputs = [l \in Live |-> [NoMeta EXCEPT !.recordingVideoUid = l \in videos]]
      OBVIOUS
    <3>4. inputs \in [Live -> Meta]
      BY ONLY <3>2, <3>3, Zenon
    <3> QED
      BY <3>4
  <2>3. row \in [Row -> RowState]
    BY NoMetaType
  <2>4. txs \in Seq(Tx) /\ jobs \in Seq(Job)
    OBVIOUS
  <2>5. now \in 0..MaxNow
    BY RegistrationConstants
  <2> QED
    BY <2>2, <2>3, <2>4, <2>5 DEF RegTypeOK
<1>2. \A r \in Row : RowOK(row[r])
  BY DEF RowOK, ClosedRow
<1>3. DOMAIN jobs = {} /\ Successful = {} /\ Sponsored = {}
  BY DEF Successful, Sponsored
<1>4. \A l \in Live : TruthfulMeta(l, inputs[l])
  BY DEF TruthfulMeta, Anchored, NoMeta, Kept
<1>5. NoOvercharge
  BY <1>3, FS_EmptySet DEF NoOvercharge
<1>6. OneAtATime
  BY <1>3 DEF OneAtATime
<1> QED
  BY <1>1, <1>2, <1>3, <1>4, <1>5, <1>6 DEF RegInv

LEMMA RegNext_Inv == RegInv /\ [RegNext]_regVars => RegInv'
<1> SUFFICES ASSUME RegInv, [RegNext]_regVars PROVE RegInv'
  OBVIOUS
<1>1. CASE UNCHANGED regVars
  <2>1. RegTypeOK'
    BY <1>1 DEF regVars, RegInv, RegTypeOK
  <2>2. Grows
    BY <1>1 DEF regVars, Grows, Kept, Sponsored, Successful
  <2>3. NoOvercharge' /\ OneAtATime' /\ \A t \in Successful' : txs'[t].cid \in anchored'
    BY <1>1 DEF regVars, RegInv, NoOvercharge, Sponsored, Successful, OneAtATime, Active
  <2> QED
    BY <1>1, <2>1, <2>2, <2>3, Assembled DEF regVars
<1>2. CASE RegNext
  BY <1>2, Open_Inv, Submit_Inv, Starting_Inv, SelfPaid_Inv, Waiting_Inv, JobStep_Inv,
     registerContent_Inv, Outside_Inv DEF RegNext, RowStep
<1> QED
  BY <1>1, <1>2

LEMMA RegInvariant == RegSpec => []RegInv
BY RegInit_Inv, RegNext_Inv, PTL DEF RegSpec

\* For any number of lives, rows, tabs, requests and transactions, the handlers
\* keep every variable in its type.
THEOREM RegistrationTypes == RegSpec => []RegTypeOK
<1>1. RegInv => RegTypeOK
  BY DEF RegInv
<1> QED
  BY <1>1, RegInvariant, PTL

\* Whatever two tabs, timeouts and lost answers do: a manifest that the meta or a
\* row calls anchored is on chain, and a linked recording is there unless the
\* creator asked to delete its live (register/route.ts, register-relayed/route.ts,
\* link-recording/route.ts).
THEOREM MetaIsTruthful == RegSpec => []MetaTruthful
<1>1. RegInv => MetaTruthful
  <2> SUFFICES ASSUME RegInv PROVE MetaTruthful
    OBVIOUS
  <2>1. AnchoredIsOnChain
    <3>1. \A r \in Row : OnChainRow(row[r]) = "anchored" => row[r].kind = "success"
      BY DEF OnChainRow
    <3> QED
      BY <3>1 DEF RegInv, TruthfulMeta, RowOK, AnchoredIsOnChain
  <2>2. RecordingExists
    BY DEF RegInv, TruthfulMeta, Kept, RecordingExists
  <2> QED
    BY <2>1, <2>2 DEF MetaTruthful
<1> QED
  BY <1>1, RegInvariant, PTL

\* The relayer's counter is at most the number of sponsored registrations that
\* succeeded, however requests interleave between readCount and incrementCount
\* (register-relayed/route.ts).
THEOREM NobodyOvercharged == RegSpec => []NoOvercharge
<1>1. RegInv => NoOvercharge
  BY DEF RegInv
<1> QED
  BY <1>1, RegInvariant, PTL

\* Without overlapping requests no write of a key is lost to the read, merge and
\* put of updateLiveInput (stream-client.ts).
THEOREM WritesAreKept == RegSpec => []WritesKept
<1>1. RegInv => WritesKept
  BY DEF RegInv, OneAtATime, WritesKept
<1> QED
  BY <1>1, RegInvariant, PTL
=============================================================================
