------------------------- MODULE PlayerScreenProofs -------------------------
(***************************************************************************)
(* The player page for any candidate list, any number of calls and any     *)
(* order of answers, connection events, timers and clicks: its types, that *)
(* a failover loop holds one connection at a time and reports failure only *)
(* when every candidate was tried (AttemptsInTurn), and that it does not   *)
(* give up a stream that plays (HealthyStreamKept).                        *)
(***************************************************************************)
EXTENDS PlayerScreen, SumTheorems, TLAPS

\* The inside of playWhep: it has neither returned nor thrown.
Inside == {"locating", "opening", "posting", "answering"}
Flowing == {"connected", "disconnected"}

\* A call of playWhep has no connection events before it returns, and stop()
\* exists only then and runs once.
Sane(e) ==
  /\ e.stage \in Inside => e.conn = "new" /\ ~e.stopping
  /\ e.stopping => e.stage = "ready" /\ e.conn # "closed"
AllSane(ss) == \A s \in DOMAIN ss : Sane(ss[s])

\* The sessions of ss that handle k opened.
Own(ss, k) == {s \in DOMAIN ss : ss[s].owner = k}

\* The loop has tried h.i candidates, each with one session; only the last of
\* them may still be open.
Tried(ss, h, k) ==
  /\ Cardinality(Own(ss, k)) = h.i /\ h.i <= Len(h.cands)
  /\ h.cur = 0 \/ h.cur \in Own(ss, k)
  /\ \A s \in Own(ss, k) : s # h.cur => ~InUse(ss[s])

\* The signals of an attempt do not lag behind its connection.
Signals(ss, h) ==
  (h.cur # 0 /\ ~h.stopped) =>
    /\ ss[h.cur].conn \in Flowing => h.connected
    /\ h.broken /\ h.outcome # "timeout" => ss[h.cur].conn \in {"failed", "closed"}

\* The session a loop may stop is its current one, and still there; without one
\* the current session is closed or threw.
Held(ss, h) ==
  \/ /\ h.cur # 0 /\ h.active = h.cur
     /\ ss[h.cur].stage = "ready" /\ ss[h.cur].conn # "closed"
  \/ h.active = 0 /\ (h.cur # 0 => ~InUse(ss[h.cur]) /\ ss[h.cur].stage \notin Inside)

\* What the loop awaits, and where its current session is then.
Awaits(ss, h) ==
  /\ h.at = "playing" => h.active = 0 /\ h.cur # 0 /\ ss[h.cur].stage \in Inside
  /\ h.at # "playing" => Held(ss, h)
  /\ h.at = "outcome" => h.outcome = "none"
  /\ h.at = "live" => h.outcome = "connected"
  /\ h.at \in {"leaving", "returning"} => h.active # 0 /\ ss[h.cur].stopping
  /\ h.at = "done" => h.active = 0
  /\ h.says = "failed-all" => h.at = "done" /\ h.i = Len(h.cands)

HandleOK(ss, h, k) == Tried(ss, h, k) /\ Signals(ss, h) /\ Awaits(ss, h)

\* The refs of the page name calls that were made, and the single-URL one a call
\* of its own that returned.
Refs ==
  /\ scr.foRef <= Len(hd)
  /\ scr.whepRef = 0 \/ (/\ scr.whepRef \in DOMAIN sess
                         /\ sess[scr.whepRef].owner = 0
                         /\ sess[scr.whepRef].stage = "ready")

\* All calls and all loops.
CallsOK ==
  /\ sess \in Seq(Session) /\ hd \in Seq(Handle)
  /\ AllSane(sess) /\ \A s \in DOMAIN sess : sess[s].owner <= Len(hd)
  /\ \A k \in DOMAIN hd : HandleOK(sess, hd[k], k)

PlayerInv == PlayerTypeOK /\ CallsOK /\ Refs

-----------------------------------------------------------------------------
(* One entry of a sequence of sessions changes, or one is added. *)

\* Whatever happens in loop k leaves the sessions of others alone, and what it
\* adds is its own.
Others(ss, tt, k) ==
  /\ DOMAIN ss \subseteq DOMAIN tt
  /\ \A s \in DOMAIN ss : /\ tt[s].owner = ss[s].owner
                          /\ ss[s].owner # k => tt[s] = ss[s]
  /\ \A s \in DOMAIN tt \ DOMAIN ss : tt[s].owner = k

\* A call that returned stays returned.
Returned(ss, tt) ==
  \A s \in DOMAIN ss : ss[s].stage = "ready" => tt[s].stage = "ready"

LEMMA SessionFields ==
  ASSUME NEW e \in Session
  PROVE  /\ \A x \in {"opening", "posting", "answering", "ready", "threw"} :
              [e EXCEPT !.stage = x] \in Session
         /\ \A x \in {"new", "connected", "disconnected", "failed", "closed"} :
              [e EXCEPT !.conn = x] \in Session
         /\ [e EXCEPT !.stopping = TRUE] \in Session
         /\ Stop(e) \in Session
         /\ \A k \in Nat : Opened(k) \in Session
BY DEF Session, Stop, Opened

LEMMA OwnFinite ==
  ASSUME NEW ss \in Seq(Session), NEW k
  PROVE  IsFiniteSet(Own(ss, k)) /\ Cardinality(Own(ss, k)) \in Nat
<1>1. DOMAIN ss = 1..Len(ss) /\ Len(ss) \in Nat
  OBVIOUS
<1>2. IsFiniteSet(1..Len(ss))
  BY <1>1, FS_Interval
<1>3. Own(ss, k) \subseteq 1..Len(ss)
  BY <1>1 DEF Own
<1> QED
  BY <1>2, <1>3, FS_Subset, FS_CardinalityType

\* A handle whose sessions are untouched is untouched.
LEMMA HandleFrame ==
  ASSUME NEW ss \in Seq(Session), NEW tt \in Seq(Session), NEW k, NEW h \in Handle,
         HandleOK(ss, h, k), Own(tt, k) = Own(ss, k),
         \A s \in Own(ss, k) : tt[s] = ss[s]
  PROVE  HandleOK(tt, h, k)
<1>1. h.cur # 0 => h.cur \in Own(ss, k) /\ tt[h.cur] = ss[h.cur]
  BY DEF HandleOK, Tried
<1>2. Tried(tt, h, k)
  BY DEF HandleOK, Tried
<1>3. Signals(tt, h)
  BY <1>1 DEF HandleOK, Signals
<1>4. Held(ss, h) => Held(tt, h)
  BY <1>1 DEF Held
<1>5. Awaits(tt, h)
  <2>1. h.at \in {"leaving", "returning"} => h.cur # 0
    BY DEF HandleOK, Awaits, Held
  <2> QED
    BY <1>1, <1>4, <2>1 DEF HandleOK, Awaits
<1> QED
  BY <1>2, <1>3, <1>5 DEF HandleOK

\* Steps of loop k leave the other loops as they are.
LEMMA OthersFrame ==
  ASSUME NEW ss \in Seq(Session), NEW tt \in Seq(Session), NEW k, NEW j,
         Others(ss, tt, k), j # k
  PROVE  Own(tt, j) = Own(ss, j) /\ \A s \in Own(ss, j) : tt[s] = ss[s]
BY DEF Others, Own

LEMMA OthersTransitive ==
  ASSUME NEW ss, NEW tt, NEW uu, NEW k, Others(ss, tt, k), Others(tt, uu, k)
  PROVE  Others(ss, uu, k)
BY DEF Others

LEMMA ReplaceSession ==
  ASSUME NEW ss \in Seq(Session), NEW s \in DOMAIN ss, NEW e \in Session,
         e.owner = ss[s].owner
  PROVE  LET tt == [ss EXCEPT ![s] = e]
         IN /\ tt \in Seq(Session) /\ Len(tt) = Len(ss) /\ DOMAIN tt = DOMAIN ss
            /\ tt[s] = e /\ \A t \in DOMAIN ss \ {s} : tt[t] = ss[t]
            /\ \A j : Own(tt, j) = Own(ss, j)
            /\ Others(ss, tt, ss[s].owner)
            /\ (AllSane(ss) /\ Sane(e)) => AllSane(tt)
<1> DEFINE tt == [ss EXCEPT ![s] = e]
<1>1. /\ tt \in Seq(Session) /\ Len(tt) = Len(ss) /\ DOMAIN tt = DOMAIN ss
      /\ tt[s] = e /\ \A t \in DOMAIN ss \ {s} : tt[t] = ss[t]
  BY SeqUpdate
<1> HIDE DEF tt
<1>2. \A t \in DOMAIN ss : tt[t].owner = ss[t].owner
  BY <1>1
<1>3. \A j : Own(tt, j) = Own(ss, j)
  BY <1>1, <1>2 DEF Own
<1>4. Others(ss, tt, ss[s].owner)
  BY <1>1, <1>2 DEF Others
<1>5. (AllSane(ss) /\ Sane(e)) => AllSane(tt)
  BY <1>1 DEF AllSane
<1> QED
  BY <1>1, <1>3, <1>4, <1>5 DEF tt

LEMMA AddSession ==
  ASSUME NEW ss \in Seq(Session), NEW e \in Session
  PROVE  LET tt == Append(ss, e)
             n == Len(ss) + 1
         IN /\ tt \in Seq(Session) /\ Len(tt) = n /\ n \in Nat \ {0}
            /\ DOMAIN tt = (DOMAIN ss) \cup {n} /\ n \notin DOMAIN ss
            /\ tt[n] = e /\ \A t \in DOMAIN ss : tt[t] = ss[t]
            /\ Own(tt, e.owner) = Own(ss, e.owner) \cup {n}
            /\ Others(ss, tt, e.owner) /\ Returned(ss, tt)
            /\ (AllSane(ss) /\ Sane(e)) => AllSane(tt)
<1> DEFINE tt == Append(ss, e)
           n == Len(ss) + 1
<1>1. /\ tt \in Seq(Session) /\ Len(tt) = n
      /\ DOMAIN tt = (DOMAIN ss) \cup {n} /\ n \notin DOMAIN ss
      /\ tt[n] = e /\ \A t \in DOMAIN ss : tt[t] = ss[t]
  BY SeqAppend
<1>2. n \in Nat \ {0}
  OBVIOUS
<1> HIDE DEF tt, n
<1>3. Own(tt, e.owner) = Own(ss, e.owner) \cup {n}
  BY <1>1 DEF Own
<1>4. Others(ss, tt, e.owner)
  BY <1>1 DEF Others
<1>5. Returned(ss, tt)
  BY <1>1 DEF Returned
<1>6. (AllSane(ss) /\ Sane(e)) => AllSane(tt)
  BY <1>1 DEF AllSane
<1> QED
  BY <1>1, <1>2, <1>3, <1>4, <1>5, <1>6 DEF tt, n

-----------------------------------------------------------------------------
(* The operators of the loop. *)

\* What a step of loop k must achieve, from the sessions ss and the handle h it
\* starts with.
StepOK(ss, h, k, r) ==
  /\ r.ss \in Seq(Session) /\ r.h \in Handle /\ AllSane(r.ss)
  /\ Others(ss, r.ss, k) /\ Returned(ss, r.ss)
  /\ HandleOK(r.ss, r.h, k)
  /\ r.h.stopped = h.stopped
  /\ \A s \in DOMAIN ss : (ss[s].conn \in Flowing /\ r.ss[s].stopping)
                            => ss[s].stopping \/ h.stopped

\* Every session of the loop is over.
Spent(ss, h, k) ==
  /\ Tried(ss, h, k) /\ \A s \in Own(ss, k) : ~InUse(ss[s]) /\ ss[s].stage \notin Inside
  /\ Signals(ss, h) /\ h.says # "failed-all"

LEMMA HandleMoves ==
  ASSUME NEW h \in Handle
  PROVE  /\ \A x \in {"outcome", "live", "leaving", "returning", "done"} :
              /\ [h EXCEPT !.at = x] \in Handle
              /\ [h EXCEPT !.active = 0, !.at = x] \in Handle
         /\ [h EXCEPT !.active = 0] \in Handle
         /\ \A n \in Nat : [h EXCEPT !.active = n] \in Handle
         /\ [h EXCEPT !.at = "done", !.says = Emit(h, "failed-all")] \in Handle
         /\ Stopped(h) \in Handle
BY DEF Handle, Emit, Stopped

\* The handle that begins an attempt with session n.
Begun(h, n) == [h EXCEPT !.i = @ + 1, !.cur = n, !.at = "playing",
                         !.connected = FALSE, !.broken = FALSE,
                         !.outcome = "none", !.says = Emit(h, "connecting")]

LEMMA NextAttemptOpens ==
  ASSUME NEW h \in Handle, NEW n \in Nat, ~h.stopped
  PROVE  LET g == Begun(h, n) IN
         /\ g \in Handle
         /\ g.cands = h.cands /\ g.i = h.i + 1 /\ g.cur = n /\ g.active = h.active
         /\ g.at = "playing" /\ g.stopped = h.stopped /\ ~g.connected /\ ~g.broken
         /\ g.outcome = "none" /\ g.says = "connecting"
<1> DEFINE g == Begun(h, n)
<1>1. h.i \in Nat
  BY DEF Handle
<1>2. PICK j \in Nat : j = h.i + 1
  BY <1>1
<1>3. g = [h EXCEPT !.i = j, !.cur = n, !.at = "playing",
                    !.connected = FALSE, !.broken = FALSE,
                    !.outcome = "none", !.says = "connecting"]
  BY <1>2 DEF Emit, Begun
<1> HIDE DEF g
<1>4. g \in Handle
  BY <1>3 DEF Handle
<1>5. /\ g.cands = h.cands /\ g.i = h.i + 1 /\ g.cur = n /\ g.active = h.active
      /\ g.at = "playing" /\ g.stopped = h.stopped /\ ~g.connected /\ ~g.broken
      /\ g.outcome = "none" /\ g.says = "connecting"
  BY <1>2, <1>3, <1>4 DEF Handle
<1> QED
  BY <1>4, <1>5 DEF g

LEMMA NextAttemptOK ==
  ASSUME NEW ss \in Seq(Session), NEW h \in Handle, NEW k \in Nat \ {0},
         AllSane(ss), Spent(ss, h, k), h.active = 0
  PROVE  StepOK(ss, h, k, NextAttempt(ss, h, k))
<1> DEFINE r == NextAttempt(ss, h, k)
<1>1. CASE h.i < Len(h.cands) /\ ~h.stopped
  <2> DEFINE n == Len(ss) + 1
             g == Begun(h, n)
             tt == Append(ss, Opened(k))
  <2>1. r.ss = tt /\ r.h = g
    BY <1>1 DEF NextAttempt, Begun
  <2>2. Opened(k) \in Session /\ Opened(k).owner = k /\ Sane(Opened(k))
        /\ Opened(k).stage = "opening" /\ Opened(k).conn = "new" /\ ~Opened(k).stopping
    BY DEF Opened, Session, Sane, Inside
  <2>3. /\ tt \in Seq(Session) /\ n \in Nat \ {0}
        /\ DOMAIN tt = (DOMAIN ss) \cup {n} /\ n \notin DOMAIN ss
        /\ tt[n] = Opened(k) /\ \A t \in DOMAIN ss : tt[t] = ss[t]
        /\ Own(tt, k) = Own(ss, k) \cup {n}
        /\ Others(ss, tt, k) /\ Returned(ss, tt)
        /\ AllSane(tt)
    BY <2>2, AddSession
  <2>4. /\ g \in Handle
        /\ g.cands = h.cands /\ g.i = h.i + 1 /\ g.cur = n /\ g.active = 0
        /\ g.at = "playing" /\ g.stopped = h.stopped /\ ~g.connected /\ ~g.broken
        /\ g.outcome = "none" /\ g.says = "connecting"
    BY <1>1, <2>3, NextAttemptOpens
  <2> HIDE DEF g, tt, n
  <2>5. Cardinality(Own(tt, k)) = h.i + 1
    <3>1. n \notin Own(ss, k)
      BY <2>3 DEF Own
    <3>2. Cardinality(Own(ss, k) \cup {n}) = Cardinality(Own(ss, k)) + 1
      BY <3>1, OwnFinite, FS_AddElement
    <3> QED
      BY <2>3, <3>2 DEF Spent, Tried
  <2>6. Tried(tt, g, k)
    <3>1. h.i \in Nat /\ Len(h.cands) \in Nat
      BY DEF Handle
    <3>2. g.i <= Len(g.cands)
      BY <1>1, <2>4, <3>1
    <3>3. \A s \in Own(tt, k) : s # n => s \in Own(ss, k) /\ tt[s] = ss[s]
      BY <2>3 DEF Own
    <3>4. n \in Own(tt, k)
      BY <2>3
    <3> QED
      BY <2>4, <2>5, <3>2, <3>3, <3>4 DEF Tried, Spent
  <2>7. Signals(tt, g)
    BY <2>2, <2>3, <2>4 DEF Signals, Flowing
  <2>8. Awaits(tt, g)
    BY <2>2, <2>3, <2>4 DEF Awaits, Inside
  <2>9. \A s \in DOMAIN ss : tt[s].stopping => ss[s].stopping
    BY <2>3
  <2> QED
    BY <2>1, <2>3, <2>4, <2>6, <2>7, <2>8, <2>9 DEF StepOK, HandleOK
<1>2. CASE ~(h.i < Len(h.cands) /\ ~h.stopped)
  <2> DEFINE g == [h EXCEPT !.at = "done", !.says = Emit(h, "failed-all")]
  <2>1. r.ss = ss /\ r.h = g
    BY <1>2 DEF NextAttempt
  <2>2. g \in Handle
    BY HandleMoves
  <2>3. /\ g.cands = h.cands /\ g.i = h.i /\ g.cur = h.cur /\ g.active = 0
        /\ g.at = "done" /\ g.stopped = h.stopped /\ g.connected = h.connected
        /\ g.broken = h.broken /\ g.outcome = h.outcome
        /\ g.says = Emit(h, "failed-all")
    BY <2>2 DEF Handle
  <2> HIDE DEF g
  <2>4. Tried(ss, g, k)
    BY <2>3 DEF Spent, Tried
  <2>5. h.cur # 0 => ~InUse(ss[h.cur]) /\ ss[h.cur].stage \notin Inside
                     /\ ss[h.cur].conn \in {"new", "connected", "disconnected", "failed", "closed"}
    <3>1. h.cur # 0 => ss[h.cur] \in Session
      BY SeqElement DEF Spent, Tried, Own
    <3> QED
      BY <3>1 DEF Spent, Tried, Session
  <2>6. Signals(ss, g)
    BY <2>3 DEF Signals, Spent
  <2>7. g.says = "failed-all" => h.i = Len(h.cands)
    <3>1. h.i \in Nat /\ Len(h.cands) \in Nat /\ h.i <= Len(h.cands)
      BY DEF Handle, Spent, Tried
    <3>2. h.stopped => g.says # "failed-all"
      BY <2>3 DEF Emit, Spent
    <3> QED
      BY <1>2, <3>1, <3>2
  <2>8. Awaits(ss, g)
    BY <2>3, <2>5, <2>7 DEF Awaits, Held
  <2>9. Others(ss, ss, k) /\ Returned(ss, ss)
    BY DEF Others, Returned
  <2> QED
    BY <2>1, <2>2, <2>3, <2>4, <2>6, <2>8, <2>9 DEF StepOK, HandleOK
<1> QED
  BY <1>1, <1>2

LEMMA CleanedOK ==
  ASSUME NEW ss \in Seq(Session), NEW h \in Handle, NEW k \in Nat \ {0},
         AllSane(ss), Spent(ss, h, k), NEW then \in {"leaving", "returning"}
  PROVE  StepOK(ss, h, k, Cleaned(ss, h, k, then))
<1>1. CASE then = "leaving"
  <2> DEFINE g == [h EXCEPT !.active = 0]
  <2>1. g \in Handle
    BY HandleMoves
  <2>2. /\ g.cands = h.cands /\ g.i = h.i /\ g.cur = h.cur /\ g.active = 0
        /\ g.stopped = h.stopped /\ g.connected = h.connected
        /\ g.broken = h.broken /\ g.outcome = h.outcome /\ g.says = h.says
    BY <2>1 DEF Handle
  <2>3. Cleaned(ss, h, k, then) = NextAttempt(ss, g, k)
    BY <1>1 DEF Cleaned
  <2> HIDE DEF g
  <2>4. Spent(ss, g, k)
    BY <2>2 DEF Spent, Tried, Signals
  <2>5. StepOK(ss, g, k, NextAttempt(ss, g, k))
    BY <2>1, <2>2, <2>4, NextAttemptOK
  <2> QED
    BY <2>2, <2>3, <2>5 DEF StepOK
<1>2. CASE then = "returning"
  <2> DEFINE g == [h EXCEPT !.active = 0, !.at = "done"]
  <2>1. g \in Handle
    BY HandleMoves
  <2>2. /\ g.cands = h.cands /\ g.i = h.i /\ g.cur = h.cur /\ g.active = 0 /\ g.at = "done"
        /\ g.stopped = h.stopped /\ g.connected = h.connected
        /\ g.broken = h.broken /\ g.outcome = h.outcome /\ g.says = h.says
    BY <2>1 DEF Handle
  <2>3. Cleaned(ss, h, k, then).ss = ss /\ Cleaned(ss, h, k, then).h = g
    BY <1>2 DEF Cleaned
  <2> HIDE DEF g
  <2>4. Tried(ss, g, k) /\ Signals(ss, g)
    BY <2>2 DEF Spent, Tried, Signals
  <2>5. Awaits(ss, g)
    BY <2>2 DEF Awaits, Held, Spent, Tried
  <2>6. Others(ss, ss, k) /\ Returned(ss, ss)
    BY DEF Others, Returned
  <2> QED
    BY <2>1, <2>2, <2>3, <2>4, <2>5, <2>6 DEF StepOK, HandleOK
<1> QED
  BY <1>1, <1>2

\* What a loop that leaves an attempt finds: the attempt is over or still held,
\* and a stream that plays is held only by a loop that was told to stop.
Leaves(ss, h, k) ==
  /\ Tried(ss, h, k) /\ Signals(ss, h) /\ Held(ss, h) /\ h.says # "failed-all"
  /\ (h.active # 0 /\ ~h.stopped) => ss[h.active].conn \notin Flowing

LEMMA StoppedSession ==
  ASSUME NEW e \in Session, e.stage = "ready", e.conn # "closed"
  PROVE  /\ Stop(e) \in Session /\ Sane(Stop(e))
         /\ Stop(e).owner = e.owner /\ Stop(e).stage = "ready"
         /\ Stop(e).conn = e.conn /\ Stop(e).stopping
<1> DEFINE f == [e EXCEPT !.stopping = TRUE]
<1>1. Stop(e) = f
  BY DEF Stop
<1>2. f \in Session
  BY DEF Session
<1>3. f.owner = e.owner /\ f.stage = e.stage /\ f.conn = e.conn /\ f.stopping
  BY <1>2 DEF Session
<1> QED
  BY <1>1, <1>2, <1>3 DEF Sane, Inside

LEMMA cleanupActiveOK ==
  ASSUME NEW ss \in Seq(Session), NEW h \in Handle, NEW k \in Nat \ {0},
         AllSane(ss), Leaves(ss, h, k), NEW then \in {"leaving", "returning"}
  PROVE  StepOK(ss, h, k, cleanupActive(ss, h, k, then))
<1>1. CASE h.active = 0
  <2>1. Spent(ss, h, k)
    BY <1>1 DEF Leaves, Spent, Tried, Held, InUse, Open, Abandoned, Inside, AllSane, Sane, Own
  <2> QED
    BY <1>1, <2>1, CleanedOK DEF cleanupActive
<1>2. CASE h.active # 0
  <2> DEFINE n == h.active
             e == ss[n]
             f == Stop(e)
             tt == [ss EXCEPT ![n] = f]
             g == [h EXCEPT !.at = then]
             r == cleanupActive(ss, h, k, then)
  <2>1. r.ss = tt /\ r.h = g
    BY <1>2 DEF cleanupActive
  <2>2. /\ n = h.cur /\ n # 0 /\ n \in DOMAIN ss /\ e \in Session /\ e.owner = k
        /\ e.stage = "ready" /\ e.conn # "closed"
    BY <1>2, SeqElement DEF Leaves, Held, Tried, Own
  <2>3. g \in Handle
    BY HandleMoves
  <2>4. /\ g.cands = h.cands /\ g.i = h.i /\ g.cur = h.cur /\ g.active = h.active
        /\ g.at = then /\ g.stopped = h.stopped /\ g.connected = h.connected
        /\ g.broken = h.broken /\ g.outcome = h.outcome /\ g.says = h.says
    BY <2>3 DEF Handle
  <2>5. /\ f \in Session /\ Sane(f) /\ f.owner = e.owner /\ f.stage = "ready"
        /\ f.conn = e.conn /\ f.stopping
    BY <2>2, StoppedSession
  <2> HIDE DEF f, g
  <2>6. /\ tt \in Seq(Session) /\ DOMAIN tt = DOMAIN ss
        /\ tt[n] = f /\ \A t \in DOMAIN ss \ {n} : tt[t] = ss[t]
        /\ Own(tt, k) = Own(ss, k)
        /\ Others(ss, tt, k) /\ AllSane(tt)
    BY <2>2, <2>5, ReplaceSession
  <2> HIDE DEF tt, n, e
  <2>7. Returned(ss, tt)
    BY <2>5, <2>6 DEF Returned
  <2>8. Tried(tt, g, k)
    <3>1. \A s \in Own(ss, k) : s # n => tt[s] = ss[s]
      BY <2>6 DEF Own
    <3> QED
      BY <2>2, <2>4, <2>6, <3>1 DEF Leaves, Tried
  <2>9. e = ss[n] /\ n = h.active
    BY DEF e, n
  <2>10. Signals(tt, g)
    BY <2>2, <2>4, <2>5, <2>6, <2>9 DEF Leaves, Signals
  <2>11. Awaits(tt, g)
    BY <2>2, <2>4, <2>5, <2>6, <2>9 DEF Awaits, Held, Leaves
  <2>12. \A s \in DOMAIN ss : (ss[s].conn \in Flowing /\ tt[s].stopping)
                                => ss[s].stopping \/ h.stopped
    BY <1>2, <2>2, <2>6, <2>9 DEF Leaves
  <2> QED
    BY <2>1, <2>3, <2>4, <2>6, <2>7, <2>8, <2>10, <2>11, <2>12 DEF StepOK, HandleOK
<1> QED
  BY <1>1, <1>2

\* The loop goes on with an outcome: a stream that plays is not given up for it,
\* unless the loop was told to stop.
LEMMA DecideOK ==
  ASSUME NEW ss \in Seq(Session), NEW h \in Handle, NEW k \in Nat \ {0},
         AllSane(ss), Tried(ss, h, k), Signals(ss, h), Held(ss, h), h.says # "failed-all",
         (h.active # 0 /\ ~h.stopped /\ h.outcome \in {"broken", "timeout"})
            => ss[h.active].conn \notin Flowing
  PROVE  StepOK(ss, h, k, Decide(ss, h, k))
<1>1. ASSUME NEW x \in {"outcome", "live"},
             x = "outcome" => h.outcome = "none", x = "live" => h.outcome = "connected"
      PROVE  StepOK(ss, h, k, [ss |-> ss, h |-> [h EXCEPT !.at = x]])
  <2> DEFINE g == [h EXCEPT !.at = x]
  <2>1. g \in Handle
    BY HandleMoves
  <2>2. /\ g.cands = h.cands /\ g.i = h.i /\ g.cur = h.cur /\ g.active = h.active
        /\ g.at = x /\ g.stopped = h.stopped /\ g.connected = h.connected
        /\ g.broken = h.broken /\ g.outcome = h.outcome /\ g.says = h.says
    BY <2>1 DEF Handle
  <2> HIDE DEF g
  <2>3. Tried(ss, g, k) /\ Signals(ss, g) /\ Held(ss, g)
    BY <2>2 DEF Tried, Signals, Held
  <2>4. Awaits(ss, g)
    BY <1>1, <2>2, <2>3 DEF Awaits
  <2>5. Others(ss, ss, k) /\ Returned(ss, ss)
    BY DEF Others, Returned
  <2>6. StepOK(ss, h, k, [ss |-> ss, h |-> g])
    BY <2>1, <2>2, <2>3, <2>4, <2>5 DEF StepOK, HandleOK
  <2> QED
    BY <2>6 DEF g
<1>2. h.outcome \in {"none", "connected", "broken", "timeout"}
  BY DEF Handle
<1>3. CASE h.outcome = "none"
  BY <1>1, <1>3 DEF Decide
<1>4. CASE h.outcome # "none" /\ h.stopped
  <2>1. Leaves(ss, h, k)
    BY <1>4 DEF Leaves
  <2>2. Decide(ss, h, k) = cleanupActive(ss, h, k, "returning")
    BY <1>4 DEF Decide
  <2> QED
    BY <2>1, <2>2, cleanupActiveOK
<1>5. CASE ~h.stopped /\ h.outcome = "connected"
  BY <1>1, <1>5 DEF Decide
<1>6. CASE ~h.stopped /\ h.outcome \in {"broken", "timeout"}
  <2>1. Leaves(ss, h, k)
    BY <1>6 DEF Leaves
  <2>2. Decide(ss, h, k) = cleanupActive(ss, h, k, "leaving")
    BY <1>6 DEF Decide
  <2> QED
    BY <2>1, <2>2, cleanupActiveOK
<1> QED
  BY <1>2, <1>3, <1>4, <1>5, <1>6

-----------------------------------------------------------------------------
(* The steps of the network and the timers. *)

\* What every step must achieve.
Kept ==
  /\ DOMAIN sess \subseteq DOMAIN sess' /\ Len(hd) <= Len(hd')
  /\ \A s \in DOMAIN sess : sess'[s].owner = sess[s].owner
  /\ Returned(sess, sess')
Gentle ==
  \A s \in DOMAIN sess :
    (/\ sess[s].owner # 0 /\ sess[s].conn \in Flowing
     /\ ~sess[s].stopping /\ sess'[s].stopping) => hd'[sess[s].owner].stopped
StepKeeps == CallsOK' /\ Kept /\ Gentle

LEMMA CallsFacts ==
  ASSUME CallsOK
  PROVE  /\ sess \in Seq(Session) /\ Len(sess) \in Nat /\ DOMAIN sess = 1..Len(sess)
         /\ hd \in Seq(Handle) /\ Len(hd) \in Nat /\ DOMAIN hd = 1..Len(hd)
         /\ \A s \in DOMAIN sess : /\ sess[s] \in Session /\ sess[s].owner \in Nat
                                   /\ sess[s].owner # 0 => sess[s].owner \in DOMAIN hd
         /\ \A k \in DOMAIN hd : hd[k] \in Handle /\ k \in Nat \ {0}
<1>1. /\ sess \in Seq(Session) /\ Len(sess) \in Nat /\ DOMAIN sess = 1..Len(sess)
      /\ hd \in Seq(Handle) /\ Len(hd) \in Nat /\ DOMAIN hd = 1..Len(hd)
  BY DEF CallsOK
<1>2. \A s \in DOMAIN sess : sess[s] \in Session
  BY <1>1
<1>3. \A s \in DOMAIN sess : sess[s].owner \in Nat /\ sess[s].owner <= Len(hd)
  BY <1>2 DEF CallsOK, Session
<1>4. \A k \in DOMAIN hd : hd[k] \in Handle /\ k \in Nat \ {0}
  BY <1>1
<1> QED
  BY <1>1, <1>2, <1>3, <1>4

\* Only calls that no loop made are touched.
LEMMA DirectKeeps ==
  ASSUME CallsOK, NEW tt \in Seq(Session), AllSane(tt), Others(sess, tt, 0),
         Returned(sess, tt), sess' = tt, hd' = hd
  PROVE  StepKeeps
<1> USE CallsFacts
<1>1. \A s \in DOMAIN tt : tt[s].owner <= Len(hd)
  BY DEF Others, CallsOK
<1>2. ASSUME NEW k \in DOMAIN hd PROVE HandleOK(tt, hd[k], k)
  <2>1. k # 0 /\ hd[k] \in Handle /\ HandleOK(sess, hd[k], k)
    BY DEF CallsOK
  <2>2. Own(tt, k) = Own(sess, k) /\ \A s \in Own(sess, k) : tt[s] = sess[s]
    BY <2>1, OthersFrame
  <2> QED
    BY <2>1, <2>2, HandleFrame
<1>3. CallsOK'
  BY <1>1, <1>2 DEF CallsOK
<1>4. Kept
  BY DEF Kept, Others
<1>5. Gentle
  BY DEF Gentle, Others
<1> QED
  BY <1>3, <1>4, <1>5 DEF StepKeeps

\* Loop k steps, from sessions tt in which its current call moved on.
LEMMA LoopKeeps ==
  ASSUME CallsOK, NEW k \in DOMAIN hd, NEW tt \in Seq(Session),
         Others(sess, tt, k), Returned(sess, tt),
         \A s \in DOMAIN sess : (sess[s].conn \in Flowing /\ ~sess[s].stopping) => tt[s] = sess[s],
         NEW h, NEW r, StepOK(tt, h, k, r), Becomes(k, r)
  PROVE  StepKeeps
<1> USE CallsFacts
<1>1. /\ r.ss \in Seq(Session) /\ r.h \in Handle /\ AllSane(r.ss)
      /\ Others(tt, r.ss, k) /\ Returned(tt, r.ss) /\ HandleOK(r.ss, r.h, k)
      /\ r.h.stopped = h.stopped
  BY DEF StepOK
<1>2. /\ sess' = r.ss /\ hd' \in Seq(Handle) /\ Len(hd') = Len(hd)
      /\ DOMAIN hd' = DOMAIN hd
      /\ hd'[k] = r.h /\ \A j \in DOMAIN hd \ {k} : hd'[j] = hd[j]
  BY <1>1, SeqUpdate DEF Becomes
<1>3. Others(sess, r.ss, k)
  BY <1>1, OthersTransitive
<1>4. Returned(sess, r.ss)
  BY <1>1 DEF Returned, Others
<1>5. \A s \in DOMAIN r.ss : r.ss[s].owner <= Len(hd)
  BY SMTT(30), <1>3 DEF Others, CallsOK
<1>6. ASSUME NEW j \in DOMAIN hd PROVE HandleOK(r.ss, hd'[j], j)
  <2>1. CASE j = k
    BY <1>1, <1>2, <2>1
  <2>2. CASE j # k
    <3>1. hd[j] \in Handle /\ HandleOK(sess, hd[j], j) /\ hd'[j] = hd[j]
      BY <1>2, <2>2 DEF CallsOK
    <3>2. Own(r.ss, j) = Own(sess, j) /\ \A s \in Own(sess, j) : r.ss[s] = sess[s]
      BY <1>1, <1>3, <2>2, OthersFrame
    <3> QED
      BY <1>1, <3>1, <3>2, HandleFrame
  <2> QED
    BY <2>1, <2>2
<1>7. CallsOK'
  BY <1>1, <1>2, <1>5, <1>6 DEF CallsOK
<1>8. Kept
  BY <1>2, <1>3, <1>4 DEF Kept, Others
<1>9. Gentle
  <2> SUFFICES ASSUME NEW s \in DOMAIN sess, sess[s].owner # 0, sess[s].conn \in Flowing,
                      ~sess[s].stopping, r.ss[s].stopping
               PROVE  hd'[sess[s].owner].stopped
    BY <1>2 DEF Gentle
  <2>1. sess[s].owner = k
    BY <1>3 DEF Others
  <2>2. tt[s] = sess[s] /\ s \in DOMAIN tt
    BY DEF Others
  <2>3. h.stopped
    BY <2>2 DEF StepOK
  <2> QED
    BY <1>1, <1>2, <2>1, <2>3
<1> QED
  BY <1>7, <1>8, <1>9 DEF StepKeeps

\* An open call of a loop is its current one.
LEMMA CurrentCall ==
  ASSUME CallsOK, NEW s \in DOMAIN sess, sess[s].owner # 0, InUse(sess[s])
  PROVE  LET h == hd[sess[s].owner] IN
         /\ h.cur = s /\ s # 0 /\ s \in Own(sess, sess[s].owner)
         /\ sess[s].stage \in Inside => h.at = "playing" /\ h.active = 0
         /\ sess[s].stage \notin Inside => h.at \notin {"playing", "done"} /\ h.active = s
<1> DEFINE k == sess[s].owner
           h == hd[k]
<1>1. k \in DOMAIN hd /\ h \in Handle /\ HandleOK(sess, h, k) /\ s # 0
  BY CallsFacts DEF CallsOK
<1>2. s \in Own(sess, k)
  BY DEF Own
<1>3. h.cur = s
  BY <1>1, <1>2 DEF HandleOK, Tried
<1>4. h.at # "playing" => h.active = s /\ sess[s].stage = "ready" /\ h.at # "done"
  BY <1>1, <1>3 DEF HandleOK, Awaits, Held
<1>5. h.at = "playing" => h.active = 0 /\ sess[s].stage \in Inside
  BY <1>1, <1>3 DEF HandleOK, Awaits
<1> QED
  BY <1>1, <1>2, <1>3, <1>4, <1>5 DEF Inside

\* A call goes on inside playWhep.
LEMMA InsideKeeps ==
  ASSUME CallsOK, NEW s \in DOMAIN sess, NEW e \in Session,
         sess[s].stage \in Inside, e.stage \in Inside, e.owner = sess[s].owner,
         e.conn = sess[s].conn, e.stopping = sess[s].stopping,
         sess' = [sess EXCEPT ![s] = e], hd' = hd
  PROVE  StepKeeps
<1> DEFINE tt == [sess EXCEPT ![s] = e]
           k == sess[s].owner
<1>1. /\ sess[s] \in Session /\ Sane(sess[s]) /\ Sane(e)
      /\ sess[s].conn = "new" /\ InUse(sess[s]) /\ InUse(e)
  BY CallsFacts DEF CallsOK, AllSane, Sane, Inside, InUse, Open, Abandoned
<1>2. /\ tt \in Seq(Session) /\ DOMAIN tt = DOMAIN sess
      /\ tt[s] = e /\ (\A t \in DOMAIN sess \ {s} : tt[t] = sess[t])
      /\ (\A j : Own(tt, j) = Own(sess, j)) /\ Others(sess, tt, k) /\ AllSane(tt)
  BY ZenonT(60), <1>1, CallsFacts, ReplaceSession DEF CallsOK
<1> HIDE DEF tt
<1>3. Returned(sess, tt)
  BY <1>1, <1>2 DEF Returned, Inside
<1>4. CASE k = 0
  BY <1>2, <1>3, <1>4, DirectKeeps DEF tt
<1>5. CASE k # 0
  <2> DEFINE h == hd[k]
             r == [ss |-> tt, h |-> h]
  <2>1. /\ k \in DOMAIN hd /\ h \in Handle /\ HandleOK(sess, h, k)
        /\ h.cur = s /\ s # 0 /\ h.at = "playing" /\ h.active = 0
    BY <1>1, <1>5, CallsFacts, CurrentCall DEF CallsOK
  <2> HIDE DEF h, k
  <2>2. Tried(tt, h, k)
    BY <1>2, <2>1 DEF HandleOK, Tried, Own
  <2>3. Signals(tt, h)
    BY <1>1, <1>2, <2>1 DEF HandleOK, Signals, Flowing
  <2>4. Awaits(tt, h)
    BY <1>2, <2>1 DEF HandleOK, Awaits
  <2>5. StepOK(tt, h, k, r)
    BY <1>2, <2>1, <2>2, <2>3, <2>4 DEF StepOK, HandleOK, Others, Returned
  <2>6. Becomes(k, r)
    <3>1. hd \in Seq(Handle) /\ r.ss = tt /\ r.h = h
      BY CallsFacts
    <3>2. [hd EXCEPT ![k] = h] = hd
      BY <2>1, <3>1 DEF h
    <3> QED
      BY <3>1, <3>2 DEF Becomes, tt
  <2>7. \A t \in DOMAIN sess : (sess[t].conn \in Flowing /\ ~sess[t].stopping) => tt[t] = sess[t]
    BY <1>1, <1>2 DEF Flowing
  <2> QED
    BY <1>2, <1>3, <2>1, <2>5, <2>6, <2>7, LoopKeeps
<1> QED
  BY <1>4, <1>5

LEMMA RequestsKeep ==
  ASSUME CallsOK, NEW s \in DOMAIN sess,
         resolveLivepeerEndpoint(s) \/ Gathered(s) \/ PostAccepted(s)
  PROVE  StepKeeps
<1>1. sess[s] \in Session /\ sess \in Seq(Session)
  BY CallsFacts
<1>2. ASSUME NEW x \in {"opening", "posting"}, sess[s].stage \in Inside,
             sess' = [sess EXCEPT ![s].stage = x], hd' = hd
      PROVE  StepKeeps
  <2> DEFINE e == [sess[s] EXCEPT !.stage = x]
  <2>1. e \in Session
    BY <1>1, SessionFields
  <2>2. /\ e.stage = x /\ e.owner = sess[s].owner /\ e.conn = sess[s].conn
        /\ e.stopping = sess[s].stopping
    BY <1>1, <2>1 DEF Session
  <2>3. sess' = [sess EXCEPT ![s] = e]
    BY <1>2
  <2> HIDE DEF e
  <2> QED
    BY <1>2, <2>1, <2>2, <2>3, InsideKeeps DEF Inside
<1>3. ASSUME sess[s].stage = "posting", hd' = hd,
             sess' = [sess EXCEPT ![s].stage = "answering", ![s].resource = TRUE]
      PROVE  StepKeeps
  <2> DEFINE e == [sess[s] EXCEPT !.stage = "answering", !.resource = TRUE]
  <2>1. e \in Session
    BY <1>1 DEF Session
  <2>2. /\ e.stage = "answering" /\ e.owner = sess[s].owner /\ e.conn = sess[s].conn
        /\ e.stopping = sess[s].stopping
    BY <1>1, <2>1 DEF Session
  <2>3. sess' = [sess EXCEPT ![s] = e]
    BY <1>1, <1>3
  <2> HIDE DEF e
  <2> QED
    BY <1>3, <2>1, <2>2, <2>3, InsideKeeps DEF Inside
<1> QED
  BY <1>2, <1>3 DEF resolveLivepeerEndpoint, Gathered, PostAccepted, Inside

\* playWhep throws.
LEMMA ThrowsKeep ==
  ASSUME CallsOK, NEW s \in DOMAIN sess, sess[s].stage \in Inside, NEW e \in Session,
         e.stage = "threw", e.owner = sess[s].owner, e.conn \in {"new", "closed"},
         ~e.stopping, Throws(s, e)
  PROVE  StepKeeps
<1> DEFINE tt == [sess EXCEPT ![s] = e]
           k == sess[s].owner
<1>1. /\ sess[s] \in Session /\ Sane(sess[s]) /\ Sane(e)
      /\ sess[s].conn = "new" /\ InUse(sess[s]) /\ ~InUse(e)
  BY CallsFacts DEF CallsOK, AllSane, Sane, Inside, InUse, Open, Abandoned
<1>2. /\ tt \in Seq(Session) /\ DOMAIN tt = DOMAIN sess
      /\ tt[s] = e /\ (\A t \in DOMAIN sess \ {s} : tt[t] = sess[t])
      /\ (\A j : Own(tt, j) = Own(sess, j)) /\ Others(sess, tt, k) /\ AllSane(tt)
  BY <1>1, CallsFacts, ReplaceSession DEF CallsOK
<1> HIDE DEF tt
<1>3. Returned(sess, tt)
  BY <1>1, <1>2 DEF Returned, Inside
<1>4. CASE k = 0
  BY <1>2, <1>3, <1>4, DirectKeeps DEF tt, Throws
<1>5. CASE k # 0
  <2> DEFINE h == hd[k]
             r == cleanupActive(tt, h, k, "leaving")
  <2>1. /\ k \in DOMAIN hd /\ k \in Nat \ {0} /\ h \in Handle /\ HandleOK(sess, h, k)
        /\ h.cur = s /\ s # 0 /\ h.at = "playing" /\ h.active = 0
    BY <1>1, <1>5, CallsFacts, CurrentCall DEF CallsOK
  <2>2. Becomes(k, r)
    BY <1>5 DEF Throws, tt
  <2> HIDE DEF h, k
  <2>3. Tried(tt, h, k)
    BY <1>2, <2>1 DEF HandleOK, Tried, Own
  <2>4. Signals(tt, h)
    BY <1>1, <1>2, <2>1 DEF HandleOK, Signals, Flowing
  <2>5. Held(tt, h) /\ h.says # "failed-all"
    BY <1>1, <1>2, <2>1 DEF HandleOK, Awaits, Held, Inside
  <2>6. StepOK(tt, h, k, r)
    BY <1>2, <2>1, <2>3, <2>4, <2>5, cleanupActiveOK DEF Leaves
  <2>7. \A t \in DOMAIN sess : (sess[t].conn \in Flowing /\ ~sess[t].stopping) => tt[t] = sess[t]
    BY <1>1, <1>2 DEF Flowing
  <2> HIDE DEF r
  <2> QED
    BY <1>2, <1>3, <2>1, <2>2, <2>6, <2>7, LoopKeeps
<1> QED
  BY <1>4, <1>5

LEMMA FailuresKeep ==
  ASSUME CallsOK, NEW s \in DOMAIN sess, PostFailed(s) \/ AnswerRejected(s)
  PROVE  StepKeeps
<1>1. /\ sess[s] \in Session /\ sess[s].stage \in Inside
      /\ sess[s].conn = "new" /\ ~sess[s].stopping
  BY CallsFacts DEF PostFailed, AnswerRejected, Inside, CallsOK, AllSane, Sane
<1>2. ASSUME NEW e, e \in Session, e.stage = "threw", e.owner = sess[s].owner,
             e.conn \in {"new", "closed"}, ~e.stopping, Throws(s, e)
      PROVE  StepKeeps
  BY <1>1, <1>2, ThrowsKeep
<1>3. ASSUME Throws(s, [sess[s] EXCEPT !.stage = "threw", !.conn = "closed"])
      PROVE  StepKeeps
  <2> DEFINE e == [sess[s] EXCEPT !.stage = "threw", !.conn = "closed"]
  <2>1. e \in Session
    BY <1>1 DEF Session
  <2>2. /\ e.stage = "threw" /\ e.owner = sess[s].owner /\ e.conn = "closed"
        /\ e.stopping = sess[s].stopping
    BY <1>1, <2>1 DEF Session
  <2>3. Throws(s, e)
    BY <1>3
  <2> HIDE DEF e
  <2> QED
    BY <1>1, <1>2, <2>1, <2>2, <2>3
<1>4. ASSUME NEW made \in BOOLEAN,
             Throws(s, [sess[s] EXCEPT !.stage = "threw", !.resource = made])
      PROVE  StepKeeps
  <2> DEFINE e == [sess[s] EXCEPT !.stage = "threw", !.resource = made]
  <2>1. e \in Session
    BY <1>1 DEF Session
  <2>2. /\ e.stage = "threw" /\ e.owner = sess[s].owner /\ e.conn = sess[s].conn
        /\ e.stopping = sess[s].stopping
    BY <1>1, <2>1 DEF Session
  <2>3. Throws(s, e)
    BY <1>4
  <2> HIDE DEF e
  <2> QED
    BY <1>1, <1>2, <2>1, <2>2, <2>3
<1>5. ASSUME Throws(s, [sess[s] EXCEPT !.stage = "threw"])
      PROVE  StepKeeps
  <2> DEFINE e == [sess[s] EXCEPT !.stage = "threw"]
  <2>1. e \in Session
    BY <1>1 DEF Session
  <2>2. /\ e.stage = "threw" /\ e.owner = sess[s].owner /\ e.conn = sess[s].conn
        /\ e.stopping = sess[s].stopping
    BY <1>1, <2>1 DEF Session
  <2>3. Throws(s, e)
    BY <1>5
  <2> HIDE DEF e
  <2> QED
    BY <1>1, <1>2, <2>1, <2>2, <2>3
<1> QED
  BY <1>3, <1>4, <1>5 DEF PostFailed, AnswerRejected

\* playWhep returns.
LEMMA AnswerKeeps ==
  ASSUME CallsOK, NEW s \in DOMAIN sess, AnswerApplied(s)
  PROVE  StepKeeps /\ sess'[s].stage = "ready"
<1> DEFINE e == [sess[s] EXCEPT !.stage = "ready"]
           tt == [sess EXCEPT ![s] = e]
           k == sess[s].owner
<1>1. /\ sess[s] \in Session /\ sess[s].stage = "answering" /\ sess[s].stage \in Inside
      /\ sess[s].conn = "new" /\ InUse(sess[s]) /\ ~sess[s].stopping
  BY CallsFacts DEF AnswerApplied, CallsOK, AllSane, Sane, Inside, InUse, Open, Abandoned
<1>2. e \in Session
  BY <1>1 DEF Session
<1>3. /\ e.stage = "ready" /\ e.owner = sess[s].owner /\ e.conn = sess[s].conn
      /\ e.stopping = sess[s].stopping
  BY <1>1, <1>2 DEF Session
<1>4. [sess EXCEPT ![s].stage = "ready"] = tt
  OBVIOUS
<1> HIDE DEF e
<1>5. Sane(e)
  BY <1>1, <1>3 DEF Sane, Inside
<1>6. /\ tt \in Seq(Session) /\ DOMAIN tt = DOMAIN sess
      /\ tt[s] = e /\ (\A t \in DOMAIN sess \ {s} : tt[t] = sess[t])
      /\ (\A j : Own(tt, j) = Own(sess, j)) /\ Others(sess, tt, k) /\ AllSane(tt)
  BY <1>2, <1>3, <1>5, CallsFacts, ReplaceSession DEF CallsOK
<1> HIDE DEF tt
<1>7. Returned(sess, tt)
  BY <1>3, <1>6 DEF Returned
<1>8. CASE k = 0
  <2>1. sess' = tt /\ hd' = hd
    BY <1>4, <1>8 DEF AnswerApplied
  <2> QED
    BY <1>3, <1>6, <1>7, <1>8, <2>1, DirectKeeps
<1>9. CASE k # 0
  <2> DEFINE h == hd[k]
             g == [h EXCEPT !.active = s]
             r == Decide(tt, g, k)
  <2>1. /\ k \in DOMAIN hd /\ k \in Nat \ {0} /\ h \in Handle /\ HandleOK(sess, h, k)
        /\ h.cur = s /\ s # 0 /\ s \in Nat /\ h.at = "playing" /\ h.active = 0
    BY <1>1, <1>9, CallsFacts, CurrentCall DEF CallsOK
  <2>2. Becomes(k, r)
    BY <1>4, <1>9 DEF AnswerApplied
  <2> HIDE DEF h, k
  <2>3. g \in Handle
    BY <2>1, HandleMoves
  <2>4. /\ g.cands = h.cands /\ g.i = h.i /\ g.cur = h.cur /\ g.active = s /\ g.at = h.at
        /\ g.stopped = h.stopped /\ g.connected = h.connected
        /\ g.broken = h.broken /\ g.outcome = h.outcome /\ g.says = h.says
    BY <2>1, <2>3 DEF Handle
  <2> HIDE DEF g
  <2>5. Tried(tt, g, k)
    BY <1>6, <2>1, <2>4 DEF HandleOK, Tried, Own
  <2>6. Signals(tt, g)
    BY <1>1, <1>3, <1>6, <2>1, <2>4 DEF HandleOK, Signals, Flowing
  <2>7. Held(tt, g) /\ g.says # "failed-all" /\ tt[g.active].conn \notin Flowing
    BY <1>1, <1>3, <1>6, <2>1, <2>4 DEF HandleOK, Awaits, Held, Flowing
  <2>8. StepOK(tt, g, k, r)
    BY <1>6, <2>1, <2>3, <2>5, <2>6, <2>7, DecideOK
  <2>9. \A t \in DOMAIN sess : (sess[t].conn \in Flowing /\ ~sess[t].stopping) => tt[t] = sess[t]
    BY <1>1, <1>6 DEF Flowing
  <2> HIDE DEF r
  <2>10. StepKeeps
    BY <1>6, <1>7, <2>1, <2>2, <2>8, <2>9, LoopKeeps
  <2>11. sess'[s].stage = "ready"
    BY <1>3, <1>6, <2>2, <2>8 DEF Becomes, StepOK, Returned
  <2> QED
    BY <2>10, <2>11
<1> QED
  BY <1>8, <1>9

\* connectionState changes.
LEMMA ConnectionKeeps ==
  ASSUME CallsOK, NEW s \in DOMAIN sess, NEW c \in {"connected", "disconnected", "failed"},
         ConnectionState(s, c)
  PROVE  StepKeeps
<1> DEFINE e == [sess[s] EXCEPT !.conn = c]
           tt == [sess EXCEPT ![s] = e]
           k == sess[s].owner
<1>1. /\ sess[s] \in Session /\ sess[s].stage = "ready" /\ c \in ConnMoves[sess[s].conn]
  BY CallsFacts DEF ConnectionState
<1>2. /\ sess[s].conn \in {"new", "connected", "disconnected"} /\ InUse(sess[s])
      /\ c = "disconnected" => sess[s].conn = "connected"
  BY <1>1 DEF Session, ConnMoves, InUse, Open, Abandoned
<1>3. e \in Session
  BY <1>1 DEF Session
<1>4. /\ e.stage = "ready" /\ e.owner = sess[s].owner /\ e.conn = c
      /\ e.stopping = sess[s].stopping
  BY <1>1, <1>3 DEF Session
<1>5. sess' = tt
  BY DEF ConnectionState
<1> HIDE DEF e
<1>6. Sane(e)
  BY <1>4 DEF Sane, Inside
<1>7. /\ tt \in Seq(Session) /\ DOMAIN tt = DOMAIN sess
      /\ tt[s] = e /\ (\A t \in DOMAIN sess \ {s} : tt[t] = sess[t])
      /\ (\A j : Own(tt, j) = Own(sess, j)) /\ Others(sess, tt, k) /\ AllSane(tt)
  BY <1>3, <1>4, <1>6, CallsFacts, ReplaceSession DEF CallsOK
<1> HIDE DEF tt
<1>8. Returned(sess, tt)
  BY <1>4, <1>7 DEF Returned
<1>9. CASE k = 0
  <2>1. hd' = hd
    BY <1>9 DEF ConnectionState
  <2> QED
    BY <1>5, <1>7, <1>8, <1>9, <2>1, DirectKeeps
<1>10. CASE k # 0
  <2> DEFINE h == hd[k]
             g == onConnectionStateChange(h, c)
             r == [ss |-> tt, h |-> g]
  <2>1. /\ k \in DOMAIN hd /\ k \in Nat \ {0} /\ h \in Handle /\ HandleOK(sess, h, k)
        /\ h.cur = s /\ s # 0 /\ h.at \notin {"playing", "done"} /\ h.active = s
    <3>1. sess[s].stage \notin Inside
      BY <1>1 DEF Inside
    <3> QED
      BY <1>2, <1>10, <3>1, CallsFacts, CurrentCall DEF CallsOK
  <2>2. hd' = [hd EXCEPT ![k] = g]
    BY <1>10 DEF ConnectionState
  <2> HIDE DEF h, k
  <2>3. g \in Handle
    BY <2>1 DEF onConnectionStateChange, Handle
  <2>4. /\ g.cands = h.cands /\ g.i = h.i /\ g.cur = s /\ g.active = s /\ g.at = h.at
        /\ g.stopped = h.stopped /\ g.outcome = h.outcome
        /\ ~h.stopped => /\ g.connected = (h.connected \/ c = "connected")
                         /\ g.broken = (h.broken \/ c = "failed")
        /\ g.says \in {h.says, "connected"}
    BY <2>1, <2>3 DEF onConnectionStateChange, Handle
  <2> HIDE DEF g
  <2>5. Tried(tt, g, k)
    BY <1>7, <2>1, <2>4 DEF HandleOK, Tried, Own
  <2>6. Signals(tt, g)
    BY <1>2, <1>4, <1>7, <2>1, <2>4 DEF HandleOK, Signals, Flowing
  <2>7. Awaits(tt, g)
    <3>1. Held(tt, g)
      BY <1>4, <1>7, <2>1, <2>4 DEF Held
    <3>2. h.says # "failed-all"
      BY <2>1 DEF HandleOK, Awaits
    <3> QED
      BY <1>4, <1>7, <2>1, <2>4, <3>1, <3>2 DEF HandleOK, Awaits
  <2>8. StepOK(sess, g, k, r)
    <3>1. \A t \in DOMAIN sess : tt[t].stopping => sess[t].stopping
      BY <1>4, <1>7
    <3> QED
      BY <1>7, <1>8, <2>3, <2>5, <2>6, <2>7, <3>1 DEF StepOK, HandleOK
  <2>9. Becomes(k, r)
    BY <1>5, <2>2 DEF Becomes
  <2>10. Others(sess, sess, k) /\ Returned(sess, sess) /\ sess \in Seq(Session)
    BY CallsFacts DEF Others, Returned
  <2> HIDE DEF r
  <2> QED
    BY <2>1, <2>8, <2>9, <2>10, LoopKeeps
<1> QED
  BY <1>9, <1>10

\* The DELETE of stop() is over.
LEMMA DeletedKeeps ==
  ASSUME CallsOK, NEW s \in DOMAIN sess, Deleted(s)
  PROVE  StepKeeps
<1>1. /\ sess \in Seq(Session) /\ sess[s] \in Session /\ sess[s].stopping
      /\ sess[s].stage = "ready" /\ InUse(sess[s])
  BY CallsFacts DEF Deleted, CallsOK, AllSane, Sane, InUse, Open, Abandoned
<1>2. PICK left \in {FALSE, sess[s].resource} :
        LET ss == [sess EXCEPT ![s].stopping = FALSE, ![s].conn = "closed",
                               ![s].resource = left]
            k == sess[s].owner
        IN IF k = 0 \/ hd[k].active # s THEN sess' = ss /\ UNCHANGED hd
           ELSE IF hd[k].at \in {"leaving", "returning"}
           THEN Becomes(k, Cleaned(ss, hd[k], k, hd[k].at))
           ELSE Becomes(k, [ss |-> ss, h |-> [hd[k] EXCEPT !.active = 0]])
  BY DEF Deleted
<1> DEFINE e == [sess[s] EXCEPT !.stopping = FALSE, !.conn = "closed", !.resource = left]
           tt == [sess EXCEPT ![s] = e]
           k == sess[s].owner
           h == hd[k]
<1>3. e \in Session
  BY <1>1 DEF Session
<1>4. e.stage = "ready" /\ e.owner = sess[s].owner /\ e.conn = "closed" /\ ~e.stopping
  BY <1>1, <1>3 DEF Session
<1>5. [sess EXCEPT ![s].stopping = FALSE, ![s].conn = "closed", ![s].resource = left] = tt
  BY <1>1
<1>6. IF k = 0 \/ h.active # s THEN sess' = tt /\ hd' = hd
      ELSE IF h.at \in {"leaving", "returning"}
      THEN Becomes(k, Cleaned(tt, h, k, h.at))
      ELSE Becomes(k, [ss |-> tt, h |-> [h EXCEPT !.active = 0]])
  BY <1>2, <1>5
<1> HIDE DEF e
<1>7. Sane(e) /\ ~InUse(e)
  BY <1>4 DEF Sane, Inside, InUse, Open, Abandoned
<1>8. /\ tt \in Seq(Session) /\ DOMAIN tt = DOMAIN sess
      /\ tt[s] = e /\ (\A t \in DOMAIN sess \ {s} : tt[t] = sess[t])
      /\ (\A j : Own(tt, j) = Own(sess, j)) /\ Others(sess, tt, k) /\ AllSane(tt)
  BY <1>3, <1>4, <1>7, CallsFacts, ReplaceSession DEF CallsOK
<1> HIDE DEF tt
<1>9. Returned(sess, tt)
  BY <1>4, <1>8 DEF Returned
<1>10. CASE k = 0
  BY <1>6, <1>8, <1>9, <1>10, DirectKeeps
<1>11. CASE k # 0
  <2>1. /\ k \in DOMAIN hd /\ k \in Nat \ {0} /\ h \in Handle /\ HandleOK(sess, h, k)
        /\ h.cur = s /\ s # 0 /\ h.at \notin {"playing", "done"} /\ h.active = s
    <3>1. sess[s].stage \notin Inside
      BY <1>1 DEF Inside
    <3> QED
      BY <1>1, <1>11, <3>1, CallsFacts, CurrentCall DEF CallsOK
  <2> HIDE DEF h, k
  <2>2. \A t \in DOMAIN sess : (sess[t].conn \in Flowing /\ ~sess[t].stopping) => tt[t] = sess[t]
    BY <1>1, <1>8
  <2>3. Tried(tt, h, k)
    BY <1>8, <2>1 DEF HandleOK, Tried, Own
  <2>4. Signals(tt, h) /\ h.says # "failed-all"
    BY <1>4, <1>8, <2>1 DEF HandleOK, Signals, Awaits, Flowing
  <2>5. CASE h.at \in {"leaving", "returning"}
    <3>1. Spent(tt, h, k)
      <4>1. \A t \in Own(tt, k) : ~InUse(tt[t])
        BY <1>7, <1>8, <2>1, <2>3 DEF Tried
      <4>2. \A t \in Own(tt, k) : tt[t].stage \notin Inside
        BY <1>8, <4>1 DEF AllSane, Sane, Own, InUse, Open, Abandoned, Inside
      <4> QED
        BY <2>3, <2>4, <4>1, <4>2 DEF Spent
    <3>2. StepOK(tt, h, k, Cleaned(tt, h, k, h.at))
      BY <1>8, <2>1, <2>5, <3>1, CleanedOK
    <3>3. Becomes(k, Cleaned(tt, h, k, h.at))
      BY <1>6, <1>11, <2>1, <2>5
    <3> QED
      BY <1>8, <1>9, <2>1, <2>2, <3>2, <3>3, LoopKeeps
  <2>6. CASE h.at \notin {"leaving", "returning"}
    <3> DEFINE g == [h EXCEPT !.active = 0]
               r == [ss |-> tt, h |-> g]
    <3>1. g \in Handle
      BY <2>1, HandleMoves
    <3>2. /\ g.cands = h.cands /\ g.i = h.i /\ g.cur = h.cur /\ g.active = 0 /\ g.at = h.at
          /\ g.stopped = h.stopped /\ g.connected = h.connected
          /\ g.broken = h.broken /\ g.outcome = h.outcome /\ g.says = h.says
      BY <2>1, <3>1 DEF Handle
    <3>3. Becomes(k, r)
      BY <1>6, <1>11, <2>1, <2>6
    <3> HIDE DEF g
    <3>4. Tried(tt, g, k) /\ Signals(tt, g)
      BY <2>3, <2>4, <3>2 DEF Tried, Signals
    <3>5. Awaits(tt, g)
      BY <1>4, <1>7, <1>8, <2>1, <2>6, <3>2 DEF HandleOK, Awaits, Held, Inside
    <3>6. StepOK(tt, g, k, r)
      BY <1>8, <3>1, <3>4, <3>5 DEF StepOK, HandleOK, Others, Returned
    <3> HIDE DEF r
    <3> QED
      BY <1>8, <1>9, <2>1, <2>2, <3>3, <3>6, LoopKeeps
  <2> QED
    BY <2>5, <2>6
<1> QED
  BY <1>10, <1>11

\* The outcome of an attempt is known.
LEMMA SettleKeeps ==
  ASSUME CallsOK, NEW k \in DOMAIN hd, Waiting(hd[k]), NEW g \in Handle,
         g.cands = hd[k].cands, g.i = hd[k].i, g.cur = hd[k].cur, g.active = hd[k].active,
         g.at = hd[k].at, g.stopped = hd[k].stopped, g.connected = hd[k].connected,
         g.says = hd[k].says, g.outcome # "none",
         g.outcome # "timeout" => g.broken = hd[k].broken,
         g.outcome \in {"broken", "timeout"} => g.stopped \/ ~g.connected,
         Settle(k, g)
  PROVE  StepKeeps
<1> DEFINE h == hd[k]
<1>1. h \in Handle /\ HandleOK(sess, h, k) /\ k \in Nat \ {0} /\ sess \in Seq(Session)
      /\ AllSane(sess) /\ Others(sess, sess, k) /\ Returned(sess, sess)
  BY CallsFacts DEF CallsOK, Others, Returned
<1>2. h.at \in {"playing", "outcome"} /\ h.outcome = "none"
  BY DEF Waiting
<1> HIDE DEF h
<1>3. Tried(sess, g, k)
  BY <1>1 DEF HandleOK, Tried, h
<1>4. Signals(sess, g)
  BY <1>1, <1>2 DEF HandleOK, Signals, h
<1>5. CASE g.at = "outcome"
  <2>1. Held(sess, g) /\ g.says # "failed-all"
    BY <1>1, <1>5 DEF HandleOK, Awaits, Held, h
  <2>2. (g.active # 0 /\ ~g.stopped /\ g.outcome \in {"broken", "timeout"})
           => sess[g.active].conn \notin Flowing
    BY <1>4, <2>1 DEF Held, Signals
  <2>3. StepOK(sess, g, k, Decide(sess, g, k))
    BY <1>1, <1>3, <1>4, <2>1, <2>2, DecideOK
  <2>4. Becomes(k, Decide(sess, g, k))
    BY <1>5 DEF Settle
  <2> QED
    BY <1>1, <2>3, <2>4, LoopKeeps
<1>6. CASE g.at # "outcome"
  <2> DEFINE r == [ss |-> sess, h |-> g]
  <2>1. Awaits(sess, g)
    BY <1>1, <1>2, <1>6 DEF HandleOK, Awaits, h
  <2>2. StepOK(sess, g, k, r)
    BY <1>1, <1>3, <1>4, <2>1 DEF StepOK, HandleOK
  <2>3. Becomes(k, r)
    BY <1>6 DEF Settle
  <2> HIDE DEF r
  <2> QED
    BY <1>1, <2>2, <2>3, LoopKeeps
<1> QED
  BY <1>5, <1>6

LEMMA TimersKeep ==
  ASSUME CallsOK, NEW k \in DOMAIN hd, ConnectTimeout(k) \/ Poll(k) \/ waitUntilBroken(k)
  PROVE  StepKeeps
<1> DEFINE h == hd[k]
<1>1. h \in Handle /\ HandleOK(sess, h, k) /\ k \in Nat \ {0} /\ sess \in Seq(Session)
      /\ AllSane(sess) /\ Others(sess, sess, k) /\ Returned(sess, sess)
  BY CallsFacts DEF CallsOK, Others, Returned
<1>2. CASE ConnectTimeout(k)
  <2> DEFINE g == [h EXCEPT !.broken = TRUE, !.outcome = "timeout"]
  <2>1. g \in Handle
    BY <1>1 DEF Handle
  <2>2. /\ g.cands = h.cands /\ g.i = h.i /\ g.cur = h.cur /\ g.active = h.active
        /\ g.at = h.at /\ g.stopped = h.stopped /\ g.connected = h.connected
        /\ g.says = h.says /\ g.outcome = "timeout"
    BY <1>1, <2>1 DEF Handle
  <2>3. Waiting(h) /\ ~h.connected /\ Settle(k, g)
    BY <1>2 DEF ConnectTimeout
  <2> HIDE DEF g
  <2> QED
    BY <2>1, <2>2, <2>3, SettleKeeps
<1>3. CASE Poll(k)
  <2> DEFINE o == IF ~h.stopped /\ h.connected THEN "connected" ELSE "broken"
             g == [h EXCEPT !.outcome = o]
  <2>1. g \in Handle
    BY <1>1 DEF Handle
  <2>2. /\ g.cands = h.cands /\ g.i = h.i /\ g.cur = h.cur /\ g.active = h.active
        /\ g.at = h.at /\ g.stopped = h.stopped /\ g.connected = h.connected
        /\ g.says = h.says /\ g.outcome = o /\ g.broken = h.broken
    BY <1>1, <2>1 DEF Handle
  <2>3. Waiting(h) /\ Settle(k, g)
    BY <1>3 DEF Poll
  <2>4. h.stopped \in BOOLEAN /\ h.connected \in BOOLEAN
    BY <1>1 DEF Handle
  <2> HIDE DEF g
  <2> QED
    BY <2>1, <2>2, <2>3, <2>4, SettleKeeps
<1>4. CASE waitUntilBroken(k)
  <2>1. /\ h.at = "live" /\ Held(sess, h) /\ h.says # "failed-all"
        /\ h.outcome = "connected" /\ (h.stopped \/ h.broken)
    BY <1>1, <1>4 DEF waitUntilBroken, HandleOK, Awaits
  <2>2. CASE h.stopped
    <3>1. Becomes(k, cleanupActive(sess, h, k, "returning"))
      BY <1>4, <2>2 DEF waitUntilBroken
    <3>2. Leaves(sess, h, k)
      BY <1>1, <2>1, <2>2 DEF HandleOK, Leaves
    <3>3. StepOK(sess, h, k, cleanupActive(sess, h, k, "returning"))
      BY <1>1, <3>2, cleanupActiveOK
    <3> QED
      BY <1>1, <3>1, <3>3, LoopKeeps
  <2>3. CASE ~h.stopped
    <3> DEFINE g == [h EXCEPT !.says = "failing-over"]
               r == cleanupActive(sess, g, k, "leaving")
    <3>1. Becomes(k, r)
      BY <1>4, <2>3 DEF waitUntilBroken
    <3>2. g \in Handle
      BY <1>1 DEF Handle
    <3>3. /\ g.cands = h.cands /\ g.i = h.i /\ g.cur = h.cur /\ g.active = h.active
          /\ g.at = h.at /\ g.stopped = h.stopped /\ g.connected = h.connected
          /\ g.says = "failing-over" /\ g.outcome = h.outcome /\ g.broken = h.broken
      BY <1>1, <3>2 DEF Handle
    <3> HIDE DEF g
    <3>4. Tried(sess, g, k) /\ Signals(sess, g) /\ Held(sess, g)
      BY <1>1, <2>1, <3>3 DEF HandleOK, Tried, Signals, Held
    <3>5. h.active # 0 => sess[h.active].conn \notin Flowing
      BY <1>1, <2>1, <2>3 DEF HandleOK, Signals, Held, Flowing
    <3>6. Leaves(sess, g, k)
      BY <3>3, <3>4, <3>5 DEF Leaves
    <3>7. StepOK(sess, g, k, r)
      BY <1>1, <3>2, <3>6, cleanupActiveOK
    <3> HIDE DEF r
    <3> QED
      BY <1>1, <3>1, <3>7, LoopKeeps
  <2> QED
    BY <2>2, <2>3
<1> QED
  BY <1>2, <1>3, <1>4

-----------------------------------------------------------------------------
(* The calls of the page. *)

\* handle.stop()
LEMMA StopHandleKeeps ==
  ASSUME CallsOK, NEW k \in DOMAIN hd, StopHandle(k)
  PROVE  StepKeeps
<1> DEFINE h == hd[k]
           g == Stopped(h)
           n == h.active
           tt == IF n = 0 THEN sess ELSE [sess EXCEPT ![n] = Stop(sess[n])]
           r == [ss |-> tt, h |-> g]
<1>1. h \in Handle /\ HandleOK(sess, h, k) /\ k \in Nat \ {0} /\ sess \in Seq(Session)
      /\ AllSane(sess) /\ Others(sess, sess, k) /\ Returned(sess, sess)
  BY CallsFacts DEF CallsOK, Others, Returned
<1>2. g \in Handle
  BY <1>1 DEF Handle, Stopped
<1>3. /\ g.cands = h.cands /\ g.i = h.i /\ g.cur = h.cur /\ g.active = h.active
      /\ g.at = h.at /\ g.stopped /\ g.connected = h.connected
      /\ g.says = h.says /\ g.outcome = h.outcome /\ g.broken = h.broken
  BY <1>1, <1>2 DEF Handle, Stopped
<1>4. Becomes(k, r)
  BY DEF StopHandle, Becomes
<1> HIDE DEF g, h, tt
<1>5. CASE n = 0
  <2>1. tt = sess
    BY <1>5 DEF tt
  <2>2. Tried(sess, g, k) /\ Signals(sess, g) /\ Awaits(sess, g)
    BY <1>1, <1>3, <1>5 DEF HandleOK, Tried, Signals, Awaits, Held
  <2>3. StepOK(sess, g, k, r)
    BY <1>1, <1>2, <2>1, <2>2 DEF StepOK, HandleOK
  <2> HIDE DEF r
  <2> QED
    BY <1>1, <1>4, <2>3, LoopKeeps
<1>6. CASE n # 0
  <2> DEFINE e == sess[n]
             f == Stop(e)
  <2>1. /\ n = h.cur /\ n \in DOMAIN sess /\ n \in Own(sess, k) /\ e \in Session
        /\ e.owner = k /\ e.stage = "ready" /\ e.conn # "closed" /\ h.at # "playing"
    BY <1>1, <1>6, SeqElement DEF HandleOK, Awaits, Held, Tried, Own
  <2>2. /\ f \in Session /\ Sane(f) /\ f.owner = e.owner /\ f.stage = "ready"
        /\ f.conn = e.conn /\ f.stopping
    BY <2>1, StoppedSession
  <2>3. tt = [sess EXCEPT ![n] = f]
    BY <1>6 DEF tt
  <2> HIDE DEF f
  <2>4. /\ tt \in Seq(Session) /\ DOMAIN tt = DOMAIN sess
        /\ tt[n] = f /\ (\A t \in DOMAIN sess \ {n} : tt[t] = sess[t])
        /\ Own(tt, k) = Own(sess, k)
        /\ Others(sess, tt, k) /\ AllSane(tt)
    <3> DEFINE uu == [sess EXCEPT ![n] = f]
    <3>1. /\ uu \in Seq(Session) /\ DOMAIN uu = DOMAIN sess
          /\ uu[n] = f /\ (\A t \in DOMAIN sess \ {n} : uu[t] = sess[t])
          /\ Own(uu, k) = Own(sess, k)
          /\ Others(sess, uu, k) /\ AllSane(uu)
      BY <1>1, <2>1, <2>2, ReplaceSession
    <3>2. tt = uu
      BY <2>3
    <3> HIDE DEF uu
    <3> QED
      BY <3>1, <3>2
  <2> HIDE DEF n
  <2>5. n = h.active
    BY DEF n
  <2>6. Tried(tt, g, k)
    BY <1>1, <1>3, <2>1, <2>4 DEF HandleOK, Tried, Own
  <2>7. Signals(tt, g)
    BY <1>3 DEF Signals
  <2>8. Awaits(tt, g)
    BY <1>1, <1>3, <1>6, <2>1, <2>2, <2>4, <2>5 DEF HandleOK, Awaits, Held
  <2>9. Returned(sess, tt)
    BY <2>2, <2>4 DEF Returned
  <2>10. StepOK(sess, g, k, r)
    BY <1>2, <1>3, <2>4, <2>6, <2>7, <2>8, <2>9 DEF StepOK, HandleOK
  <2> HIDE DEF r
  <2> QED
    BY <1>1, <1>4, <2>10, LoopKeeps
<1> QED
  BY <1>5, <1>6

\* playWhepWithFailover
LEMMA NewHandleKeeps ==
  ASSUME CallsOK, NEW cands \in Seq(Provider), NewHandle(cands)
  PROVE  StepKeeps /\ Len(hd') = Len(hd) + 1
<1> DEFINE k == Len(hd) + 1
           idle == [cands |-> cands, i |-> 0, cur |-> 0, active |-> 0, at |-> "done",
                    stopped |-> FALSE, connected |-> FALSE, broken |-> FALSE,
                    outcome |-> "none", says |-> "idle"]
           r == NextAttempt(sess, idle, k)
<1> USE CallsFacts
<1>1. idle \in Handle
  BY DEF Handle
<1>2. k \in Nat \ {0} /\ sess \in Seq(Session) /\ AllSane(sess)
  BY DEF CallsOK
<1>3. Own(sess, k) = {}
  <2>1. \A s \in DOMAIN sess : sess[s].owner \in Nat /\ sess[s].owner <= Len(hd)
    BY DEF CallsOK
  <2> QED
    BY <2>1 DEF Own
<1>4. sess' = r.ss /\ hd' = Append(hd, r.h)
  BY DEF NewHandle
<1>5. /\ idle.cands = cands /\ idle.i = 0 /\ idle.cur = 0 /\ idle.active = 0
      /\ ~idle.stopped /\ ~idle.broken /\ idle.says = "idle"
  OBVIOUS
<1> HIDE DEF idle, k
<1>6. Spent(sess, idle, k)
  <2>1. Cardinality({}) = 0 /\ Len(cands) >= 0
    BY FS_EmptySet
  <2> QED
    BY <1>3, <1>5, <2>1 DEF Spent, Tried, Signals
<1>7. StepOK(sess, idle, k, r)
  BY <1>1, <1>2, <1>5, <1>6, NextAttemptOK
<1> HIDE DEF r
<1>8. /\ r.ss \in Seq(Session) /\ r.h \in Handle /\ AllSane(r.ss)
      /\ Others(sess, r.ss, k) /\ Returned(sess, r.ss) /\ HandleOK(r.ss, r.h, k)
      /\ \A s \in DOMAIN sess : (sess[s].conn \in Flowing /\ r.ss[s].stopping)
                                  => sess[s].stopping
  BY <1>5, <1>7 DEF StepOK
<1>9. /\ hd' \in Seq(Handle) /\ Len(hd') = Len(hd) + 1 /\ DOMAIN hd' = (DOMAIN hd) \cup {k}
      /\ hd'[k] = r.h /\ k \notin DOMAIN hd /\ \A j \in DOMAIN hd : hd'[j] = hd[j]
  BY <1>4, <1>8, SeqAppend DEF k
<1>10. ASSUME NEW j \in DOMAIN hd PROVE HandleOK(r.ss, hd[j], j)
  <2>1. j # k /\ HandleOK(sess, hd[j], j) /\ hd[j] \in Handle
    BY <1>9 DEF CallsOK
  <2>2. Own(r.ss, j) = Own(sess, j) /\ \A s \in Own(sess, j) : r.ss[s] = sess[s]
    BY <1>2, <1>8, <2>1, OthersFrame
  <2> QED
    BY <1>2, <1>8, <2>1, <2>2, HandleFrame
<1>11. \A s \in DOMAIN r.ss : r.ss[s].owner <= Len(hd')
  <2>1. \A s \in DOMAIN sess : sess[s].owner \in Nat /\ sess[s].owner <= Len(hd)
    BY DEF CallsOK
  <2>2. k = Len(hd') /\ Len(hd) \in Nat /\ Len(hd') = Len(hd) + 1
    BY <1>9 DEF k
  <2>3. \A s \in DOMAIN r.ss : r.ss[s].owner = k
                                  \/ (r.ss[s].owner \in Nat /\ r.ss[s].owner <= Len(hd))
    BY <1>8, <2>1 DEF Others
  <2> QED
    BY <2>2, <2>3
<1>12. CallsOK'
  BY <1>4, <1>8, <1>9, <1>10, <1>11 DEF CallsOK
<1>13. Kept
  BY <1>4, <1>8, <1>9 DEF Kept, Others
<1>14. Gentle
  BY <1>4, <1>8 DEF Gentle
<1> QED
  BY <1>9, <1>12, <1>13, <1>14 DEF StepKeeps

\* The page stops the session of a single URL, or calls playWhep itself.
LEMMA StopDirect ==
  ASSUME CallsOK, Refs, scr.whepRef # 0
  PROVE  LET tt == [sess EXCEPT ![scr.whepRef] = Stop(sess[scr.whepRef])]
         IN tt \in Seq(Session) /\ AllSane(tt) /\ Others(sess, tt, 0) /\ Returned(sess, tt)
<1> DEFINE n == scr.whepRef
           e == sess[n]
           f == Stop(e)
           tt == [sess EXCEPT ![n] = f]
<1>1. n \in DOMAIN sess /\ e \in Session /\ e.owner = 0 /\ e.stage = "ready"
      /\ Sane(e) /\ sess \in Seq(Session) /\ AllSane(sess)
  BY CallsFacts DEF Refs, CallsOK, AllSane
<1>2. f \in Session /\ Sane(f) /\ f.owner = e.owner /\ f.stage = "ready"
  <2>1. CASE e.conn = "closed"
    BY <1>1, <2>1 DEF Stop
  <2>2. CASE e.conn # "closed"
    BY <1>1, <2>2, StoppedSession
  <2> QED
    BY <2>1, <2>2
<1> HIDE DEF f
<1>3. /\ tt \in Seq(Session) /\ DOMAIN tt = DOMAIN sess
      /\ tt[n] = f /\ (\A t \in DOMAIN sess \ {n} : tt[t] = sess[t])
      /\ Others(sess, tt, 0) /\ AllSane(tt)
  BY <1>1, <1>2, ReplaceSession
<1> HIDE DEF tt
<1>4. Returned(sess, tt)
  BY <1>2, <1>3 DEF Returned
<1> QED
  BY <1>3, <1>4 DEF tt, f

LEMMA LocatedSession ==
  Located \in Session /\ Located.owner = 0 /\ Located.stage = "locating" /\ Sane(Located)
<1> DEFINE e == [Opened(0) EXCEPT !.stage = "locating"]
<1>1. Opened(0) \in Session /\ Opened(0).owner = 0 /\ Opened(0).conn = "new"
      /\ ~Opened(0).stopping
  BY DEF Opened, Session
<1>2. e \in Session
  BY <1>1 DEF Session
<1>3. e.owner = 0 /\ e.stage = "locating" /\ e.conn = "new" /\ ~e.stopping
  BY <1>1, <1>2 DEF Session
<1>4. Located = e
  BY DEF Located
<1> HIDE DEF e
<1> QED
  BY <1>2, <1>3, <1>4 DEF Sane, Inside

LEMMA DirectCallKeeps ==
  ASSUME CallsOK, NEW tt \in Seq(Session), AllSane(tt), Others(sess, tt, 0),
         Returned(sess, tt), sess' = Append(tt, Located), hd' = hd
  PROVE  StepKeeps
<1> DEFINE uu == Append(tt, Located)
<1>1. uu \in Seq(Session) /\ Others(tt, uu, 0) /\ Returned(tt, uu) /\ AllSane(uu)
  BY LocatedSession, AddSession
<1> HIDE DEF uu
<1>2. Others(sess, uu, 0)
  BY <1>1, OthersTransitive
<1>3. Returned(sess, uu)
  BY <1>1 DEF Returned, Others
<1>4. sess' = uu
  BY DEF uu
<1> QED
  BY <1>1, <1>2, <1>3, <1>4, DirectKeeps

\* The cleanup of the live effect.
LEMMA StopLiveKeeps ==
  ASSUME CallsOK, Refs, scr.foRef \in Nat, StopLive
  PROVE  StepKeeps
<1> DEFINE drives == effectiveWhepUrl \/ hasFailover
<1>1. CASE ~drives \/ scr.foRef = 0
  <2>1. hd' = hd /\ sess' = IF drives
                            THEN IF scr.whepRef = 0 THEN sess
                                 ELSE [sess EXCEPT ![scr.whepRef] = Stop(sess[scr.whepRef])]
                            ELSE sess
    BY <1>1 DEF StopLive
  <2>2. sess \in Seq(Session) /\ AllSane(sess) /\ Others(sess, sess, 0) /\ Returned(sess, sess)
    BY DEF CallsOK, Others, Returned
  <2>3. CASE sess' = sess
    BY <2>1, <2>2, <2>3, DirectKeeps
  <2>4. CASE sess' # sess
    BY <2>1, <2>4, StopDirect, DirectKeeps
  <2> QED
    BY <2>3, <2>4
<1>2. CASE ~(~drives \/ scr.foRef = 0)
  <2>1. scr.foRef \in DOMAIN hd
    BY <1>2, CallsFacts DEF Refs
  <2>2. StopHandle(scr.foRef)
    BY <1>2 DEF StopLive
  <2> QED
    BY <2>1, <2>2, StopHandleKeeps
<1> QED
  BY <1>1, <1>2

-----------------------------------------------------------------------------
(* The page. *)

\* A render keeps the refs.
SameRefs(c, d) == d \in Screen /\ d.foRef = c.foRef /\ d.whepRef = c.whepRef

LEMMA RenderedOK ==
  ASSUME NEW c \in Screen
  PROVE  SameRefs(c, Rendered(c)) /\ Rendered(c).calls = c.calls
<1>1. 0 \in 0..MaxTicks
  BY PlayerAssumption
<1>2. [c EXCEPT !.ticks = 0] \in Screen
  BY <1>1 DEF Screen
<1>3. SameRefs(c, [c EXCEPT !.ticks = 0]) /\ [c EXCEPT !.ticks = 0].calls = c.calls
  BY <1>2 DEF SameRefs, Screen
<1> QED
  BY <1>3 DEF Rendered, SameRefs

LEMMA VodEffectOK ==
  ASSUME NEW c \in Screen
  PROVE  SameRefs(c, VodEffect(c))
<1> DEFINE d == [c EXCEPT !.video = <<"vod", 0>>, !.vod = "loading"]
<1>1. d \in Screen
  BY DEF Screen
<1>2. SameRefs(c, d)
  BY <1>1 DEF SameRefs, Screen
<1> QED
  BY <1>2 DEF VodEffect, SameRefs

LEMMA NoLiveOK ==
  ASSUME NEW c \in Screen
  PROVE  /\ NoLive(c) \in Screen
         /\ NoLive(c).foRef \in {0, c.foRef} /\ NoLive(c).whepRef \in {0, c.whepRef}
<1> DEFINE d == [c EXCEPT !.whepRef = 0, !.foRef = 0]
<1>1. d \in Screen
  BY DEF Screen
<1>2. d.foRef = 0 /\ d.whepRef = 0
  BY <1>1 DEF Screen
<1> QED
  BY <1>1, <1>2 DEF NoLive

LEMMA LiveShown ==
  ASSUME NEW c \in Screen, NEW x \in {"connecting", "playing", "ended", "error"}
  PROVE  SameRefs(c, [c EXCEPT !.live = x])
<1>1. [c EXCEPT !.live = x] \in Screen
  BY DEF Screen
<1> QED
  BY <1>1 DEF SameRefs, Screen

LEMMA HeardFromOK ==
  ASSUME scr \in Screen, CallsOK', NEW k, k = 0 \/ k \in DOMAIN hd', HeardFrom(k)
  PROVE  SameRefs(scr, scr')
<1>1. SameRefs(scr, OnState(scr, k))
  <2> DEFINE x == CASE hd'[k].says = "connected"  -> "playing"
                    [] hd'[k].says = "failed-all" -> "error"
                    [] OTHER                      -> "connecting"
  <2>1. x \in {"connecting", "playing", "ended", "error"}
    OBVIOUS
  <2>2. OnState(scr, k) \in {scr, [scr EXCEPT !.live = x]}
    BY DEF OnState
  <2> HIDE DEF x
  <2>3. SameRefs(scr, [scr EXCEPT !.live = x])
    BY <2>1, LiveShown
  <2> QED
    BY <2>2, <2>3 DEF SameRefs
<1>2. ASSUME NEW c \in Screen, k # 0 PROVE SameRefs(c, OnStream(c, k))
  <2>1. hd'[k] \in Handle /\ hd'[k].active \in Nat
    <3>1. hd' \in Seq(Handle) /\ k \in DOMAIN hd'
      BY <1>2 DEF CallsOK
    <3>2. hd'[k] \in Handle
      BY <3>1, SeqElement
    <3> QED
      BY <3>2 DEF Handle
  <2> DEFINE d == [c EXCEPT !.video = <<"whep", hd'[k].active>>]
  <2>2. d \in Screen
    BY <2>1 DEF Screen
  <2>3. SameRefs(c, d)
    BY <2>2 DEF SameRefs, Screen
  <2>4. OnStream(c, k) \in {c, d}
    BY DEF OnStream
  <2> HIDE DEF d
  <2> QED
    BY <2>3, <2>4 DEF SameRefs
<1>3. CASE scr' = scr
  BY <1>3 DEF SameRefs
<1>4. CASE scr' # scr
  <2>1. k # 0 /\ scr' = Rendered(OnStream(OnState(scr, k), k))
    BY <1>4 DEF HeardFrom
  <2> QED
    BY <1>1, <1>2, <2>1, RenderedOK DEF SameRefs
<1> QED
  BY <1>3, <1>4

\* The refs name what they named before, or what the step made.
LEMMA RefsKept ==
  ASSUME CallsOK, scr \in Screen, Refs, CallsOK', Kept, scr' \in Screen,
         scr'.foRef <= Len(hd'), scr'.whepRef \in {0, scr.whepRef}
  PROVE  Refs'
BY CallsFacts DEF Refs, Kept, Returned

LEMMA SameRefsKept ==
  ASSUME CallsOK, scr \in Screen, Refs, CallsOK', Kept, SameRefs(scr, scr')
  PROVE  Refs'
<1>1. scr.foRef \in Nat /\ Len(hd) \in Nat /\ Len(hd') \in Nat
  BY CallsFacts DEF Screen, CallsOK
<1>2. scr'.foRef <= Len(hd')
  BY <1>1 DEF Kept, SameRefs, Refs
<1> QED
  BY <1>2, RefsKept DEF SameRefs

LEMMA StutterKeeps ==
  ASSUME CallsOK, sess' = sess, hd' = hd
  PROVE  StepKeeps
BY DirectKeeps DEF CallsOK, Others, Returned

\* What a step of the page must achieve, and when the steps that leave the calls
\* alone achieve it.
PageKeeps == StepKeeps /\ PlayerInv'
Typed == page \in Pages /\ scr \in Screen /\ hls \in HlsEffect /\ mesh \in MeshNode /\ srv \in Server

LEMMA PageFacts ==
  ASSUME PlayerInv
  PROVE  /\ CallsOK /\ Refs /\ Typed /\ page \in Page
         /\ scr.foRef \in Nat /\ scr.calls \in 0..MaxCalls /\ scr.ticks \in 0..MaxTicks
         /\ scr.asked \in 0..MaxTicks /\ MaxCalls \in Nat \ {0} /\ MaxTicks \in Nat \ {0}
         /\ page.cands \in Seq(Provider)
         /\ page.kind \in {"cloudflare", "mesh", "livepeer"}
<1>1. CallsOK /\ Refs /\ Typed
  BY DEF PlayerInv, PlayerTypeOK, Typed
<1>2. page \in Page /\ MaxCalls \in Nat \ {0} /\ MaxTicks \in Nat \ {0}
  BY <1>1, PlayerAssumption DEF Typed
<1>3. page.cands \in Seq(Provider) /\ page.kind \in {"cloudflare", "mesh", "livepeer"}
  BY <1>2 DEF Page
<1>4. /\ scr.foRef \in Nat /\ scr.calls \in 0..MaxCalls /\ scr.ticks \in 0..MaxTicks
      /\ scr.asked \in 0..MaxTicks
  BY <1>1 DEF Typed, Screen
<1> QED
  BY <1>1, <1>2, <1>3, <1>4

LEMMA PageKeepsTyped ==
  ASSUME StepKeeps, Typed', Refs'
  PROVE  PageKeeps
BY DEF PageKeeps, StepKeeps, PlayerInv, PlayerTypeOK, Typed, CallsOK

LEMMA ShowKeeps ==
  ASSUME PlayerInv, StepKeeps, Typed', SameRefs(scr, scr')
  PROVE  PageKeeps
<1>1. CallsOK /\ Refs /\ scr \in Screen
  BY PageFacts DEF Typed
<1>2. CallsOK' /\ Kept
  BY DEF StepKeeps
<1>3. Refs'
  BY <1>1, <1>2, SameRefsKept
<1> QED
  BY <1>3, PageKeepsTyped

LEMMA NetworkKeeps ==
  ASSUME PlayerInv, NEW s \in DOMAIN sess, SessionStep(s) \/ ConnectionStep(s)
  PROVE  PageKeeps
<1> DEFINE k == sess[s].owner
<1>1. /\ CallsOK /\ Refs /\ Typed /\ scr \in Screen /\ s \in Nat /\ s # 0
      /\ k = 0 \/ k \in DOMAIN hd
  BY PageFacts, CallsFacts DEF Typed
<1>2. UNCHANGED <<page, hls, mesh, srv>>
  BY DEF SessionStep, ConnectionStep
<1>3. ASSUME StepKeeps, SameRefs(scr, scr') PROVE PageKeeps
  BY <1>1, <1>2, <1>3, ShowKeeps DEF Typed, SameRefs
<1>4. ASSUME StepKeeps, HeardFrom(k) PROVE PageKeeps
  <2>1. CallsOK' /\ (k = 0 \/ k \in DOMAIN hd')
    <3>1. CallsOK' /\ Len(hd) <= Len(hd') /\ hd' \in Seq(Handle)
      BY <1>4 DEF StepKeeps, Kept, CallsOK
    <3>2. DOMAIN hd' = 1..Len(hd') /\ Len(hd') \in Nat /\ DOMAIN hd = 1..Len(hd) /\ Len(hd) \in Nat
      BY <1>1, <3>1, CallsFacts
    <3> QED
      BY <1>1, <3>1, <3>2
  <2>2. SameRefs(scr, scr')
    BY <1>1, <1>4, <2>1, HeardFromOK
  <2> QED
    BY <1>3, <1>4, <2>2
<1>5. ASSUME resolveLivepeerEndpoint(s) \/ Gathered(s) \/ PostAccepted(s), scr' = scr
      PROVE  PageKeeps
  BY <1>1, <1>3, <1>5, RequestsKeep DEF SameRefs
<1>6. ASSUME PostFailed(s) \/ AnswerRejected(s),
             IF k # 0 THEN HeardFrom(k)
             ELSE scr' = IF scr.mounted THEN Rendered([scr EXCEPT !.live = "error"]) ELSE scr
      PROVE  PageKeeps
  <2>1. StepKeeps
    BY <1>1, <1>6, FailuresKeep
  <2>2. CASE k = 0
    <3>1. SameRefs(scr, Rendered([scr EXCEPT !.live = "error"]))
      BY <1>1, LiveShown, RenderedOK DEF SameRefs
    <3> QED
      BY <1>1, <1>3, <1>6, <2>1, <2>2, <3>1 DEF SameRefs
  <2> QED
    BY <1>4, <1>6, <2>1, <2>2
<1>7. ASSUME AnswerApplied(s), IF k # 0 THEN HeardFrom(k) ELSE DirectReady(s)
      PROVE  PageKeeps
  <2>1. StepKeeps /\ sess'[s].stage = "ready"
    BY <1>1, <1>7, AnswerKeeps
  <2>2. CASE k = 0
    <3> DEFINE d == [scr EXCEPT !.whepRef = s, !.video = IF scr.mounted THEN <<"whep", s>> ELSE @]
    <3>1. scr' = d
      BY <1>7, <2>2 DEF DirectReady
    <3>2. d \in Screen
      BY <1>1 DEF Screen
    <3>3. d.whepRef = s /\ d.foRef = scr.foRef
      BY <1>1, <3>2 DEF Screen
    <3> HIDE DEF d
    <3>4. CallsOK' /\ Kept
      BY <2>1 DEF StepKeeps
    <3>5. s \in DOMAIN sess' /\ sess'[s].owner = 0
      BY <2>2, <3>4 DEF Kept
    <3>6. d.foRef <= Len(hd')
      <4>1. Len(hd) \in Nat /\ Len(hd') \in Nat /\ scr.foRef \in Nat
        BY <1>1, <3>4, CallsFacts, PageFacts DEF CallsOK
      <4> QED
        BY <1>1, <3>3, <3>4, <4>1 DEF Refs, Kept
    <3>7. Refs'
      BY <2>1, <3>1, <3>3, <3>5, <3>6 DEF Refs
    <3>8. Typed'
      BY <1>1, <1>2, <3>1, <3>2 DEF Typed
    <3> QED
      BY <2>1, <3>7, <3>8, PageKeepsTyped
  <2> QED
    BY <1>4, <1>7, <2>1, <2>2
<1>8. ASSUME Deleted(s), HeardFrom(k) PROVE PageKeeps
  BY <1>1, <1>4, <1>8, DeletedKeeps
<1>9. ASSUME NEW c \in {"connected", "disconnected", "failed"}, ConnectionState(s, c),
             IF k # 0 THEN HeardFrom(k) ELSE DirectState(s, c)
      PROVE  PageKeeps
  <2>1. StepKeeps
    BY <1>1, <1>9, ConnectionKeeps
  <2>2. CASE k = 0
    <3> DEFINE x == CASE c = "connected" -> "playing" [] c = "disconnected" -> "ended"
                      [] OTHER -> "error"
    <3>1. scr' = IF ~scr.mounted THEN scr ELSE Rendered([scr EXCEPT !.live = x])
      BY <1>9, <2>2 DEF DirectState
    <3>2. x \in {"connecting", "playing", "ended", "error"}
      OBVIOUS
    <3> HIDE DEF x
    <3> DEFINE d == [scr EXCEPT !.live = x]
    <3>3. SameRefs(scr, Rendered(d))
      <4>1. SameRefs(scr, d)
        BY <1>1, <3>2, LiveShown
      <4> HIDE DEF d
      <4> QED
        BY <4>1, RenderedOK DEF SameRefs
    <3> QED
      BY <1>1, <1>3, <2>1, <3>1, <3>3 DEF SameRefs
  <2> QED
    BY <1>4, <1>9, <2>1, <2>2
<1>10. CASE SessionStep(s)
  BY <1>5, <1>6, <1>7, <1>8, <1>10 DEF SessionStep
<1>11. CASE ConnectionStep(s)
  BY <1>9, <1>11 DEF ConnectionStep
<1> QED
  BY <1>10, <1>11

LEMMA TimerKeeps ==
  ASSUME PlayerInv, NEW k \in DOMAIN hd, TimerStep(k)
  PROVE  PageKeeps
<1>1. /\ CallsOK /\ Refs /\ Typed /\ scr \in Screen
  BY PageFacts DEF Typed
<1>2. UNCHANGED <<page, hls, mesh, srv>> /\ HeardFrom(k)
  BY DEF TimerStep
<1>3. StepKeeps
  BY <1>1, TimersKeep DEF TimerStep
<1>4. CallsOK' /\ k \in DOMAIN hd'
  <2>1. CallsOK' /\ Len(hd) <= Len(hd') /\ hd' \in Seq(Handle)
    BY <1>3 DEF StepKeeps, Kept, CallsOK
  <2>2. DOMAIN hd' = 1..Len(hd') /\ Len(hd') \in Nat /\ DOMAIN hd = 1..Len(hd) /\ Len(hd) \in Nat
    BY <1>1, <2>1, CallsFacts
  <2> QED
    BY <2>1, <2>2
<1>5. SameRefs(scr, scr')
  BY <1>1, <1>2, <1>4, HeardFromOK
<1> QED
  BY <1>1, <1>2, <1>3, <1>5, ShowKeeps DEF Typed, SameRefs

\* startLive, from any state c of the page with the refs of scr.
LEMMA startLiveKeeps ==
  ASSUME PlayerInv, NEW c \in Screen, SameRefs(scr, c), c.calls < MaxCalls, startLive(c)
  PROVE  StepKeeps /\ scr' \in Screen /\ Refs'
<1> DEFINE n == c.calls + 1
           k == Len(hd) + 1
<1>1. /\ CallsOK /\ Refs /\ scr \in Screen /\ page.cands \in Seq(Provider)
      /\ sess \in Seq(Session) /\ AllSane(sess) /\ Others(sess, sess, 0) /\ Returned(sess, sess)
      /\ Len(hd) \in Nat /\ scr.foRef \in Nat
  BY PageFacts, CallsFacts DEF Typed, CallsOK, Others, Returned
<1>2. n \in 0..MaxCalls /\ k \in Nat
  <2>1. c.calls \in 0..MaxCalls
    BY DEF Screen
  <2> QED
    BY <1>1, <2>1, PlayerAssumption
<1>3. CASE page.cands # <<>>
  <2> DEFINE d == [c EXCEPT !.live = "connecting", !.calls = n, !.foRef = k]
  <2>1. scr' = Rendered(d) /\ NewHandle(page.cands)
    BY <1>3 DEF startLive
  <2> HIDE DEF n, k
  <2>2. d \in Screen
    BY <1>2 DEF Screen
  <2>3. d.foRef = k /\ d.whepRef = c.whepRef
    BY <2>2 DEF Screen
  <2> HIDE DEF d
  <2>4. StepKeeps /\ Len(hd') = Len(hd) + 1
    BY <1>1, <2>1, NewHandleKeeps
  <2>5. scr' \in Screen /\ scr'.foRef = k /\ scr'.whepRef = scr.whepRef
    BY <2>1, <2>2, <2>3, RenderedOK DEF SameRefs
  <2>6. scr'.foRef <= Len(hd')
    BY <1>1, <2>4, <2>5 DEF k
  <2> QED
    BY <1>1, <2>4, <2>5, <2>6, RefsKept DEF StepKeeps
<1>4. CASE page.cands = <<>> /\ effectiveWhepUrl
  <2> DEFINE d == [c EXCEPT !.live = "connecting", !.calls = n]
  <2>1. scr' = Rendered(d) /\ sess' = Append(sess, Located) /\ hd' = hd
    BY <1>4 DEF startLive
  <2> HIDE DEF n
  <2>2. d \in Screen
    BY <1>2 DEF Screen
  <2>3. d.foRef = c.foRef /\ d.whepRef = c.whepRef
    BY <2>2 DEF Screen
  <2> HIDE DEF d
  <2>4. StepKeeps
    BY <1>1, <2>1, DirectCallKeeps
  <2>5. SameRefs(scr, scr')
    BY <2>1, <2>2, <2>3, RenderedOK DEF SameRefs
  <2> QED
    BY <1>1, <2>4, <2>5, SameRefsKept DEF StepKeeps, SameRefs
<1>5. CASE page.cands = <<>> /\ ~effectiveWhepUrl
  <2> DEFINE d == [c EXCEPT !.calls = n]
  <2>1. scr' = Rendered(d) /\ sess' = sess /\ hd' = hd
    BY <1>5 DEF startLive, whepVars
  <2> HIDE DEF n
  <2>2. d \in Screen
    BY <1>2 DEF Screen
  <2>3. d.foRef = c.foRef /\ d.whepRef = c.whepRef
    BY <2>2 DEF Screen
  <2> HIDE DEF d
  <2>4. StepKeeps
    BY <1>1, <2>1, StutterKeeps
  <2>5. SameRefs(scr, scr')
    BY <2>1, <2>2, <2>3, RenderedOK DEF SameRefs
  <2> QED
    BY <1>1, <2>4, <2>5, SameRefsKept DEF StepKeeps, SameRefs
<1> QED
  BY <1>3, <1>4, <1>5

LEMMA MountKeeps ==
  ASSUME PlayerInv, Mount
  PROVE  PageKeeps
<1> DEFINE first == [scr EXCEPT !.mounted = TRUE]
           plays == HlsPath # "none"
<1>1. /\ CallsOK /\ Refs /\ Typed /\ scr \in Screen /\ scr.calls = 0
      /\ hls \in HlsEffect /\ mesh \in MeshNode
      /\ page' = page /\ srv' = srv /\ 1 \in 0..MaxCalls
  BY PageFacts DEF Typed, Mount
<1>2. first \in Screen
  BY <1>1 DEF Screen
<1>3. SameRefs(scr, first) /\ first.calls = 0
  BY <1>1, <1>2 DEF SameRefs, Screen
<1>4. IF scr.mode = "vod"
      THEN /\ scr' = Rendered(VodEffect([first EXCEPT !.calls = 1]))
           /\ UNCHANGED <<sess, hd, hls, mesh>>
      ELSE /\ IF effectiveWhepUrl
              THEN startLive(first) /\ UNCHANGED hls
              ELSE /\ scr' = Rendered([first EXCEPT !.calls = 1,
                                !.live = IF plays THEN "connecting" ELSE @,
                                !.video = IF plays THEN <<"hls", 0>> ELSE @])
                   /\ hls' = [hls EXCEPT !.at = HlsPath]
                   /\ UNCHANGED whepVars
           /\ mesh' = IF meshEnabled THEN [mesh EXCEPT !.node = "importing"] ELSE mesh
  BY DEF Mount
<1> HIDE DEF first
<1>5. (IF meshEnabled THEN [mesh EXCEPT !.node = "importing"] ELSE mesh) \in MeshNode
  BY <1>1 DEF MeshNode
<1>6. CASE scr.mode = "vod"
  <2> DEFINE d == [first EXCEPT !.calls = 1]
  <2>1. d \in Screen
    BY <1>1, <1>2 DEF Screen
  <2>2. SameRefs(first, d)
    BY <1>2, <2>1 DEF SameRefs, Screen
  <2>3. scr' = Rendered(VodEffect(d)) /\ UNCHANGED <<sess, hd, hls, mesh>>
    BY <1>4, <1>6
  <2> HIDE DEF d
  <2>4. SameRefs(scr, scr')
    BY <1>3, <2>1, <2>2, <2>3, VodEffectOK, RenderedOK DEF SameRefs
  <2>5. StepKeeps
    BY <1>1, <2>3, StutterKeeps
  <2>6. Typed'
    BY <1>1, <2>3, <2>4 DEF Typed, SameRefs
  <2> QED
    BY <2>4, <2>5, <2>6, ShowKeeps
<1>7. CASE scr.mode # "vod" /\ effectiveWhepUrl
  <2>1. startLive(first) /\ hls' = hls /\ mesh' \in MeshNode
    BY <1>4, <1>5, <1>7
  <2>2. first.calls < MaxCalls
    BY <1>3, PlayerAssumption
  <2>3. StepKeeps /\ scr' \in Screen /\ Refs'
    BY <1>2, <1>3, <2>1, <2>2, startLiveKeeps
  <2> QED
    BY <1>1, <2>1, <2>3, PageKeepsTyped DEF Typed
<1>8. CASE scr.mode # "vod" /\ ~effectiveWhepUrl
  <2> DEFINE x == IF plays THEN "connecting" ELSE first.live
             v == IF plays THEN <<"hls", 0>> ELSE first.video
             d == [first EXCEPT !.calls = 1, !.live = x, !.video = v]
  <2>1. d \in Screen
    <3>1. x \in {"idle", "connecting", "playing", "ended", "error"}
      BY <1>2 DEF Screen
    <3>2. v \in {"none", "hls", "vod", "whep"} \X Nat
      <4>1. first.video \in {"none", "hls", "vod", "whep"} \X Nat
        BY <1>2 DEF Screen
      <4> QED
        BY <4>1
    <3> HIDE DEF x, v
    <3> QED
      BY ZenonT(60), <1>1, <1>2, <3>1, <3>2 DEF Screen
  <2>2. SameRefs(first, d)
    BY <1>2, <2>1 DEF SameRefs, Screen
  <2>3. /\ scr' = Rendered(d) /\ hls' = [hls EXCEPT !.at = HlsPath]
        /\ sess' = sess /\ hd' = hd /\ mesh' \in MeshNode
    BY <1>4, <1>5, <1>8 DEF whepVars
  <2> HIDE DEF d
  <2>4. SameRefs(scr, scr')
    BY <1>3, <2>1, <2>2, <2>3, RenderedOK DEF SameRefs
  <2>5. StepKeeps
    BY <1>1, <2>3, StutterKeeps
  <2>6. HlsPath \in {"none", "importing", "attached", "native"}
    BY DEF HlsPath
  <2>7. hls' \in HlsEffect
    BY <1>1, <2>3, <2>6 DEF HlsEffect
  <2>8. Typed'
    BY <1>1, <2>3, <2>4, <2>7 DEF Typed, SameRefs
  <2> QED
    BY <2>4, <2>5, <2>8, ShowKeeps
<1> QED
  BY <1>6, <1>7, <1>8

\* The effects of a live page are cleaned up.
LEMMA CleanupKeeps ==
  ASSUME PlayerInv, StopLive, StopHls, StopMesh, page' = page, srv' = srv,
         scr' \in Screen, scr'.foRef \in {0, scr.foRef}, scr'.whepRef \in {0, scr.whepRef}
  PROVE  PageKeeps
<1>1. CallsOK /\ Refs /\ Typed /\ scr \in Screen /\ scr.foRef \in Nat
      /\ hls \in HlsEffect /\ mesh \in MeshNode /\ Len(hd) \in Nat
  BY PageFacts, CallsFacts DEF Typed
<1>2. StepKeeps
  BY <1>1, StopLiveKeeps
<1>3. CallsOK' /\ Kept /\ Len(hd') \in Nat
  BY <1>2 DEF StepKeeps, CallsOK
<1>4. scr'.foRef <= Len(hd')
  BY <1>1, <1>3 DEF Kept, Refs
<1>5. Refs'
  BY <1>1, <1>3, <1>4, RefsKept
<1>6. hls' \in HlsEffect
  BY <1>1 DEF StopHls, HlsEffect
<1>7. mesh' \in MeshNode
  BY <1>1 DEF StopMesh, MeshNode
<1> QED
  BY <1>1, <1>2, <1>5, <1>6, <1>7, PageKeepsTyped DEF Typed

LEMMA ViewerKeeps ==
  ASSUME PlayerInv, Unmount \/ RetryLive \/ SwitchToReplay \/ Unmute \/ AutoplayBlocked
  PROVE  PageKeeps
<1>1. CallsOK /\ Refs /\ Typed /\ scr \in Screen
  BY PageFacts DEF Typed
<1>2. CASE Unmount
  <2> DEFINE d == [scr EXCEPT !.mounted = FALSE, !.video = Nothing]
  <2>1. d \in Screen
    BY <1>1 DEF Screen, Nothing
  <2>2. SameRefs(scr, d)
    BY <1>1, <2>1 DEF SameRefs, Screen
  <2>3. scr' = NoLive(d) /\ StopLive /\ StopHls /\ StopMesh /\ page' = page /\ srv' = srv
    BY <1>2 DEF Unmount
  <2> HIDE DEF d
  <2> QED
    BY <2>1, <2>2, <2>3, NoLiveOK, CleanupKeeps DEF SameRefs
<1>3. CASE RetryLive
  <2>1. startLive(scr) /\ scr.calls < MaxCalls /\ UNCHANGED <<page, hls, mesh, srv>>
    BY <1>3 DEF RetryLive
  <2>2. SameRefs(scr, scr)
    BY <1>1 DEF SameRefs
  <2>3. StepKeeps /\ scr' \in Screen /\ Refs'
    BY <1>1, <2>1, <2>2, startLiveKeeps
  <2> QED
    BY <1>1, <2>1, <2>3, PageKeepsTyped DEF Typed
<1>4. CASE SwitchToReplay
  <2> DEFINE c == NoLive(scr)
             d == [c EXCEPT !.mode = "vod"]
  <2>1. c \in Screen /\ c.foRef \in {0, scr.foRef} /\ c.whepRef \in {0, scr.whepRef}
    BY <1>1, NoLiveOK
  <2>2. /\ scr' = Rendered(VodEffect(d)) /\ StopLive /\ StopHls /\ StopMesh
        /\ page' = page /\ srv' = srv
    BY <1>4 DEF SwitchToReplay, SetVod
  <2> HIDE DEF c
  <2>3. d \in Screen
    BY <2>1 DEF Screen
  <2>4. SameRefs(c, d)
    BY <2>1, <2>3 DEF SameRefs, Screen
  <2> HIDE DEF d
  <2>5. SameRefs(c, scr')
    BY <2>2, <2>3, <2>4, VodEffectOK, RenderedOK DEF SameRefs
  <2> QED
    BY <2>1, <2>2, <2>5, CleanupKeeps DEF SameRefs
<1>5. CASE Unmute \/ AutoplayBlocked
  <2>1. PICK b \in BOOLEAN : scr' = [scr EXCEPT !.blocked = b]
    BY <1>5 DEF Unmute, AutoplayBlocked
  <2>2. UNCHANGED <<sess, hd, page, hls, mesh, srv>>
    BY <1>5 DEF Unmute, AutoplayBlocked
  <2>3. scr' \in Screen
    BY <1>1, <2>1 DEF Screen
  <2>4. SameRefs(scr, scr')
    BY <1>1, <2>1, <2>3 DEF SameRefs, Screen
  <2>5. StepKeeps
    BY <1>1, <2>2, StutterKeeps
  <2> QED
    BY <1>1, <2>2, <2>4, <2>5, ShowKeeps DEF Typed, SameRefs
<1> QED
  BY <1>2, <1>3, <1>4, <1>5

LEMMA HlsAndMeshKeep ==
  ASSUME PlayerInv, HlsImported \/ HlsReady \/ HlsError \/ ChunkRelayed \/ MeshStep
  PROVE  PageKeeps
<1>1. CallsOK /\ Refs /\ Typed /\ scr \in Screen /\ hls \in HlsEffect /\ mesh \in MeshNode
  BY PageFacts DEF Typed
<1>2. sess' = sess /\ hd' = hd /\ page' = page /\ srv' = srv
  BY DEF HlsImported, HlsReady, HlsError, ChunkRelayed, MeshStep
<1>3. StepKeeps
  BY <1>1, <1>2, StutterKeeps
<1>4. ASSUME NEW x \in {"connecting", "playing", "ended", "error"}
      PROVE  SameRefs(scr, Rendered([scr EXCEPT !.live = x]))
  <2> DEFINE d == [scr EXCEPT !.live = x]
  <2>1. SameRefs(scr, d)
    BY <1>1, LiveShown
  <2> HIDE DEF d
  <2>2. SameRefs(scr, Rendered(d))
    BY <2>1, RenderedOK DEF SameRefs
  <2> QED
    BY <2>2 DEF d
<1>5. SameRefs(scr, scr')
  <2>1. scr' = scr \/ \E x \in {"connecting", "playing", "ended", "error"} :
                        scr' = Rendered([scr EXCEPT !.live = x])
    BY DEF HlsImported, HlsReady, HlsError, ChunkRelayed, MeshStep
  <2>2. CASE scr' = scr
    BY <1>1, <2>2 DEF SameRefs
  <2> QED
    BY <1>4, <2>1, <2>2
<1>6. hls' \in HlsEffect
  <2>1. ASSUME hls' = [hls EXCEPT !.idx = @ + 1] PROVE hls' \in HlsEffect
    <3>1. PICK j \in Nat : j = hls.idx + 1
      BY <1>1 DEF HlsEffect
    <3>2. hls' = [hls EXCEPT !.idx = j]
      BY <2>1, <3>1
    <3> QED
      BY <1>1, <3>2 DEF HlsEffect
  <2>2. ASSUME NEW x \in {"destroyed", "attached"}, hls' = [hls EXCEPT !.at = x]
        PROVE  hls' \in HlsEffect
    BY <1>1, <2>2 DEF HlsEffect
  <2>3. ASSUME hls' = [hls EXCEPT !.relay = TRUE] PROVE hls' \in HlsEffect
    BY <1>1, <2>3 DEF HlsEffect
  <2>4. CASE hls' = hls
    BY <1>1, <2>4
  <2>5. \/ hls' = hls \/ hls' = [hls EXCEPT !.idx = @ + 1] \/ hls' = [hls EXCEPT !.relay = TRUE]
        \/ \E x \in {"destroyed", "attached"} : hls' = [hls EXCEPT !.at = x]
    BY DEF HlsImported, HlsReady, HlsError, ChunkRelayed, MeshStep
  <2> QED
    BY <2>1, <2>2, <2>3, <2>4, <2>5
<1>7. mesh' \in MeshNode
  <2>1. mesh' = mesh \/ \E x \in {"stopped", "starting", "stopping", "running"} :
                          mesh' = [mesh EXCEPT !.node = x]
    BY DEF HlsImported, HlsReady, HlsError, ChunkRelayed, MeshStep, importMesh, initMesh, meshStopped
  <2> QED
    BY <1>1, <2>1 DEF MeshNode
<1> QED
  BY <1>1, <1>2, <1>3, <1>5, <1>6, <1>7, ShowKeeps DEF Typed, SameRefs

LEMMA ReplayKeeps ==
  ASSUME PlayerInv, PollTick \/ VodStep \/ ServerStep
  PROVE  PageKeeps
<1>1. /\ CallsOK /\ Refs /\ Typed /\ scr \in Screen /\ srv \in Server
      /\ scr.ticks \in 0..MaxTicks /\ scr.asked \in 0..MaxTicks /\ MaxTicks \in Nat
  BY PageFacts DEF Typed
<1>2. sess' = sess /\ hd' = hd /\ UNCHANGED <<page, hls, mesh>>
  BY DEF PollTick, VodStep, ServerStep
<1>3. StepKeeps
  BY <1>1, <1>2, StutterKeeps
<1>4. CASE PollTick
  <2> DEFINE t == scr.ticks + 1
             a == IF scr.ticks + 1 < MaxTicks /\ scr.asked < MaxTicks
                  THEN scr.asked + 1 ELSE scr.asked
  <2>1. scr' = [scr EXCEPT !.ticks = t, !.asked = a] /\ srv' = srv /\ scr.ticks < MaxTicks
    BY <1>4 DEF PollTick
  <2>2. t \in 0..MaxTicks /\ a \in 0..MaxTicks
    BY <1>1, <2>1
  <2> HIDE DEF t, a
  <2>3. scr' \in Screen
    BY <1>1, <2>1, <2>2 DEF Screen
  <2>4. SameRefs(scr, scr')
    BY <1>1, <2>1, <2>3 DEF SameRefs, Screen
  <2> QED
    BY <1>1, <1>2, <1>3, <2>1, <2>4, ShowKeeps DEF Typed, SameRefs
<1>5. CASE VodStep
  <2>1. PICK v \in {"playing", "error"} : scr' = [scr EXCEPT !.vod = v]
    BY <1>5 DEF VodStep
  <2>2. srv' = srv
    BY <1>5 DEF VodStep
  <2>3. scr' \in Screen
    BY <1>1, <2>1 DEF Screen
  <2>4. SameRefs(scr, scr')
    BY <1>1, <2>1, <2>3 DEF SameRefs, Screen
  <2> QED
    BY <1>1, <1>2, <1>3, <2>2, <2>4, ShowKeeps DEF Typed, SameRefs
<1>6. CASE ServerStep
  <2>1. scr' = scr /\ srv' \in Server
    BY <1>1, <1>6 DEF ServerStep, Server
  <2>2. SameRefs(scr, scr')
    BY <1>1, <2>1 DEF SameRefs
  <2> QED
    BY <1>1, <1>2, <1>3, <2>1, <2>2, ShowKeeps DEF Typed
<1> QED
  BY <1>4, <1>5, <1>6

LEMMA PropsTyped ==
  ASSUME page \in Page, NEW v \in Server
  PROVE  RenderedProps(v).hlsUrl \in BOOLEAN /\ RenderedProps(v).processing \in BOOLEAN
<1>1. page.kind \in {"cloudflare", "mesh", "livepeer"}
  BY DEF Page
<1>2. RenderedProps(v) \in {LivePage(v), NoRecording}
  BY <1>1 DEF RenderedProps, LivepeerPage, MeshLivePage
<1>3. NoRecording.hlsUrl = FALSE /\ NoRecording.processing = FALSE
  BY DEF NoRecording
<1>4. LivePage(v).hlsUrl \in BOOLEAN /\ LivePage(v).processing \in BOOLEAN
  BY <1>3 DEF LivePage
<1> QED
  BY <1>2, <1>3, <1>4

LEMMA RefreshedKeeps ==
  ASSUME PlayerInv, Refreshed
  PROVE  PageKeeps
<1> DEFINE p == RenderedProps(srv)
           a == scr.asked - 1
           c == [scr EXCEPT !.asked = a, !.hlsUrl = p.hlsUrl, !.processing = p.processing]
<1>1. /\ CallsOK /\ Refs /\ Typed /\ scr \in Screen
      /\ scr.asked \in 0..MaxTicks /\ MaxTicks \in Nat /\ scr.asked > 0
      /\ p.hlsUrl \in BOOLEAN /\ p.processing \in BOOLEAN
      /\ scr.calls \in 0..MaxCalls /\ MaxCalls \in Nat
      /\ sess \in Seq(Session) /\ AllSane(sess) /\ Others(sess, sess, 0) /\ Returned(sess, sess)
  BY PageFacts, PropsTyped DEF Typed, Refreshed, CallsOK, Others, Returned
<1>2. a \in 0..MaxTicks
  BY <1>1
<1>3. /\ UNCHANGED <<page, hls, mesh, srv>>
      /\ IF page.kind # "mesh"
         THEN /\ scr' = Rendered(IF p.hlsUrl = scr.hlsUrl THEN c ELSE VodEffect(c))
              /\ UNCHANGED whepVars
         ELSE /\ scr.calls < MaxCalls
              /\ sess' = Append(IF scr.whepRef = 0 THEN sess
                                ELSE [sess EXCEPT ![scr.whepRef] = Stop(@)],
                                Located)
              /\ scr' = Rendered([c EXCEPT !.whepRef = 0, !.live = "connecting",
                                           !.calls = @ + 1])
              /\ UNCHANGED hd
  BY DEF Refreshed
<1> HIDE DEF a, p
<1>4. c \in Screen
  BY <1>1, <1>2 DEF Screen
<1>5. SameRefs(scr, c) /\ c.calls = scr.calls
  BY <1>1, <1>4 DEF SameRefs, Screen
<1> HIDE DEF c
<1>6. CASE page.kind # "mesh"
  <2>1. StepKeeps
    BY <1>1, <1>3, <1>6, StutterKeeps DEF whepVars
  <2>2. SameRefs(scr, scr')
    BY <1>3, <1>4, <1>5, <1>6, VodEffectOK, RenderedOK DEF SameRefs
  <2> QED
    BY <1>1, <1>3, <2>1, <2>2, ShowKeeps DEF Typed, SameRefs
<1>7. CASE page.kind = "mesh"
  <2> DEFINE n == c.calls + 1
             d == [c EXCEPT !.whepRef = 0, !.live = "connecting", !.calls = n]
             tt == IF scr.whepRef = 0 THEN sess
                   ELSE [sess EXCEPT ![scr.whepRef] = Stop(sess[scr.whepRef])]
  <2>1. scr.calls < MaxCalls /\ sess' = Append(tt, Located) /\ scr' = Rendered(d) /\ hd' = hd
    BY <1>3, <1>7
  <2>2. n \in 0..MaxCalls
    BY <1>1, <1>5, <2>1
  <2> HIDE DEF n
  <2>3. d \in Screen
    BY <1>4, <2>2 DEF Screen
  <2>4. d.foRef = c.foRef /\ d.whepRef = 0
    BY <1>4, <2>3 DEF Screen
  <2> HIDE DEF d
  <2>5. scr' \in Screen /\ scr'.foRef = scr.foRef /\ scr'.whepRef = 0
    BY <1>5, <2>1, <2>3, <2>4, RenderedOK DEF SameRefs
  <2>6. tt \in Seq(Session) /\ AllSane(tt) /\ Others(sess, tt, 0) /\ Returned(sess, tt)
    BY <1>1, StopDirect
  <2> HIDE DEF tt
  <2>7. StepKeeps
    BY <1>1, <2>1, <2>6, DirectCallKeeps
  <2>8. Refs'
    <3>1. CallsOK' /\ Kept
      BY <2>7 DEF StepKeeps
    <3>2. scr'.foRef <= Len(hd')
      BY <1>1, <2>1, <2>5 DEF Refs
    <3> QED
      BY <1>1, <2>5, <3>1, <3>2, RefsKept
  <2> QED
    BY <1>1, <1>3, <2>5, <2>7, <2>8, PageKeepsTyped DEF Typed
<1> QED
  BY <1>6, <1>7

-----------------------------------------------------------------------------
(* The theorems. *)

LEMMA PlayerStarts ==
  ASSUME PlayerInit
  PROVE  PlayerInv
<1>1. sess = <<>> /\ hd = <<>> /\ page \in Pages
  BY Zenon DEF PlayerInit
<1>2. srv \in Server /\ page \in Page
  BY <1>1, PlayerAssumption DEF PlayerInit
<1>3. hls \in HlsEffect
  <2>1. hls = [at |-> "none", cancelled |-> FALSE, idx |-> 0, relay |-> FALSE]
    BY Zenon DEF PlayerInit
  <2> QED
    BY <2>1 DEF HlsEffect
<1>4. mesh \in MeshNode
  <2>1. mesh = [node |-> "none", cancelled |-> FALSE]
    BY Zenon DEF PlayerInit
  <2> QED
    BY <2>1 DEF MeshNode
<1>5. scr \in Screen /\ scr.foRef = 0 /\ scr.whepRef = 0
  <2> DEFINE m == IF page.kind # "cloudflare" \/ srv.onAir THEN "live" ELSE "vod"
             u == RenderedProps(srv).hlsUrl
             w == RenderedProps(srv).processing
  <2>1. scr = [mounted |-> FALSE, mode |-> m,
               live |-> "idle", vod |-> "idle", video |-> Nothing, whepRef |-> 0,
               foRef |-> 0, hlsUrl |-> u, processing |-> w, ticks |-> 0,
               asked |-> 0, blocked |-> FALSE, calls |-> 0]
    BY Zenon DEF PlayerInit
  <2>2. m \in {"live", "vod"} /\ u \in BOOLEAN /\ w \in BOOLEAN
    BY <1>2, PropsTyped
  <2>3. 0 \in 0..MaxTicks /\ 0 \in 0..MaxCalls /\ Nothing \in {"none", "hls", "vod", "whep"} \X Nat
    BY PlayerAssumption DEF Nothing
  <2> HIDE DEF m, u, w
  <2> QED
    BY <2>1, <2>2, <2>3 DEF Screen
<1>6. CallsOK
  BY <1>1 DEF CallsOK, AllSane
<1>7. Refs
  BY <1>1, <1>5 DEF Refs
<1> QED
  BY <1>1, <1>2, <1>3, <1>4, <1>5, <1>6, <1>7 DEF PlayerInv, PlayerTypeOK, CallsOK

LEMMA PlayerStep ==
  ASSUME PlayerInv, [PlayerNext]_playerVars
  PROVE  PageKeeps
<1>1. CASE UNCHANGED playerVars
  <2>1. CallsOK /\ Typed /\ scr \in Screen
    BY PageFacts DEF Typed
  <2>2. StepKeeps
    BY <1>1, <2>1, StutterKeeps DEF playerVars
  <2>3. SameRefs(scr, scr') /\ Typed'
    BY <1>1, <2>1 DEF playerVars, Typed, SameRefs
  <2> QED
    BY <2>2, <2>3, ShowKeeps
<1>2. CASE PlayerNext
  BY <1>2, MountKeeps, ViewerKeeps, HlsAndMeshKeep, ReplayKeeps, RefreshedKeeps,
     NetworkKeeps, TimerKeeps DEF PlayerNext, Sessions, Handles
<1> QED
  BY <1>1, <1>2

LEMMA PlayerInvariant == PlayerSpec => []PlayerInv
<1>1. PlayerInit => PlayerInv
  BY PlayerStarts
<1>2. PlayerInv /\ [PlayerNext]_playerVars => PlayerInv'
  BY PlayerStep DEF PageKeeps
<1> QED
  BY <1>1, <1>2, PTL DEF PlayerSpec

\* The page, its effects and all calls and loops keep their types: no ref of the
\* page names a call that was not made, and the page polls for a recording at
\* most MaxTicks times (player-screen.tsx).
THEOREM PlayerTypes == PlayerSpec => []PlayerTypeOK
<1>1. PlayerInv => PlayerTypeOK
  BY DEF PlayerInv
<1> QED
  BY <1>1, PlayerInvariant, PTL

\* playWhepWithFailover holds one connection at a time, whatever order answers,
\* connection events, timers and stop() come in, and says "failed-all" only when
\* every candidate was tried and none of their connections is left.
THEOREM AttemptsTakeTurns == PlayerSpec => []AttemptsInTurn
<1>1. PlayerInv => AttemptsInTurn
  <2> SUFFICES ASSUME PlayerInv, NEW k \in DOMAIN hd
               PROVE  /\ Cardinality({s \in OwnedBy(k) : InUse(sess[s])}) <= 1
                      /\ hd[k].says = "failed-all" =>
                           /\ Cardinality(OwnedBy(k)) = Len(hd[k].cands)
                           /\ \A s \in OwnedBy(k) : ~InUse(sess[s])
    BY DEF AttemptsInTurn, Handles
  <2> DEFINE h == hd[k]
             open == {s \in OwnedBy(k) : InUse(sess[s])}
  <2>1. OwnedBy(k) = Own(sess, k)
    BY DEF OwnedBy, Own, Sessions
  <2>2. HandleOK(sess, h, k)
    BY DEF PlayerInv, CallsOK
  <2>3. open \subseteq {h.cur}
    BY <2>1, <2>2 DEF HandleOK, Tried
  <2>4. Cardinality(open) <= 1
    <3>1. IsFiniteSet({h.cur}) /\ Cardinality({h.cur}) = 1
      BY FS_Singleton
    <3>2. Cardinality(open) <= Cardinality({h.cur})
      BY <2>3, <3>1, FS_Subset
    <3> QED
      BY <3>1, <3>2
  <2>5. ASSUME h.says = "failed-all"
        PROVE  /\ Cardinality(OwnedBy(k)) = Len(h.cands)
               /\ \A s \in OwnedBy(k) : ~InUse(sess[s])
    <3>1. h.at = "done" /\ h.i = Len(h.cands) /\ h.active = 0 /\ Held(sess, h)
      BY <2>2, <2>5 DEF HandleOK, Awaits
    <3>2. \A s \in Own(sess, k) : s # 0
      BY CallsFacts DEF PlayerInv, Own
    <3>3. \A s \in Own(sess, k) : ~InUse(sess[s])
      BY <2>2, <3>1, <3>2 DEF HandleOK, Tried, Held
    <3> QED
      BY <2>1, <2>2, <3>1, <3>3 DEF HandleOK, Tried
  <2> QED
    BY <2>4, <2>5
<1> QED
  BY <1>1, PlayerInvariant, PTL

\* No step of the loop, of a timer or of the page gives up a stream that plays,
\* except stop() or an attempt that had run into its connect timeout.
THEOREM PlayingStreamsKept == PlayerSpec => HealthyStreamKept
<1>1. PlayerInv /\ [PlayerNext]_playerVars =>
        [\A s \in Sessions :
           /\ sess[s].owner # 0
           /\ sess[s].conn \in {"connected", "disconnected"}
           /\ ~sess[s].stopping /\ sess'[s].stopping
           => \/ hd'[sess[s].owner].stopped
              \/ hd[sess[s].owner].outcome = "timeout"]_whepVars
  BY PlayerStep DEF PageKeeps, StepKeeps, Gentle, Flowing, Sessions
<1> QED
  BY <1>1, PlayerInvariant, PTL DEF PlayerSpec, HealthyStreamKept
=============================================================================
