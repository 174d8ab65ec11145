---------------------------- MODULE WhepFailover ----------------------------
(***************************************************************************)
(* The viewer's WebRTC playback: playWhep (lib/webrtc/whep.ts), which      *)
(* opens one peer connection, and playWhepWithFailover (whep-failover.ts), *)
(* whose loop walks a list of providers.  JavaScript runs to completion    *)
(* between two awaits, so one action is what happens between them: a       *)
(* network answer, a connection event or a timer, with everything the      *)
(* awaiting loop then does.                                                *)
(*                                                                         *)
(* A session is one call of playWhep.  Its owner is the handle (loop) that *)
(* made the call, or 0 when the player called playWhep itself.  The two    *)
(* awaits of an offer (createOffer, ICE gathering with its 2 s limit)      *)
(* always end and are one stage.                                           *)
(***************************************************************************)
EXTENDS Integers, Sequences, FiniteSets

CONSTANT Provider          \* providers a candidate list may name

VARIABLES
  sess,                    \* the calls of playWhep so far, in order
  hd                       \* the handles of playWhepWithFailover so far

whepVars == <<sess, hd>>

Session == [owner: Nat,
            stage: {"locating", "opening", "posting", "answering", "ready", "threw"},
            conn: {"new", "connected", "disconnected", "failed", "closed"},
            stopping: BOOLEAN,      \* stop() waits for its DELETE
            resource: BOOLEAN]      \* the server keeps a WHEP resource

\* cur is the attempt the loop is in, active the session it may stop;
\* connected, broken and outcome are the signals of the current attempt
Handle == [cands: Seq(Provider), i: Nat, cur: Nat, active: Nat,
           at: {"playing", "outcome", "live", "leaving", "returning", "done"},
           stopped: BOOLEAN, connected: BOOLEAN, broken: BOOLEAN,
           outcome: {"none", "connected", "broken", "timeout"},
           says: {"idle", "connecting", "connected", "failing-over",
                  "failed-all"}]

Opened(k) == [owner |-> k, stage |-> "opening", conn |-> "new",
              stopping |-> FALSE, resource |-> FALSE]

\* WhepSession.stop: DELETE the resource, then close the connection
Stop(s) == IF s.conn = "closed" THEN s ELSE [s EXCEPT !.stopping = TRUE]

Sessions == DOMAIN sess
Handles == DOMAIN hd
OwnedBy(k) == {s \in Sessions : sess[s].owner = k}
\* the peer connection was not closed; in use: somebody has it, too.  playWhep closes
\* the connection only when the server refuses the offer: any other error leaves it
\* open, and nobody can close it any more
Open(s) == s.conn # "closed"
Abandoned(s) == s.stage = "threw" /\ Open(s)
InUse(s) == Open(s) /\ ~Abandoned(s)

\* emit(): nothing is reported after stop()
Emit(h, state) == IF h.stopped THEN h.says ELSE state

-----------------------------------------------------------------------------
(* The loop.  Each operator takes the sessions and a handle k, and returns  *)
(* both as they are when the loop reaches its next await.                   *)

NextAttempt(ss, h, k) ==
  IF h.i < Len(h.cands) /\ ~h.stopped
  THEN [ss |-> Append(ss, Opened(k)),
        h |-> [h EXCEPT !.i = @ + 1, !.cur = Len(ss) + 1, !.at = "playing",
                        !.connected = FALSE, !.broken = FALSE,
                        !.outcome = "none", !.says = Emit(h, "connecting")]]
  ELSE [ss |-> ss,
        h |-> [h EXCEPT !.at = "done", !.says = Emit(h, "failed-all")]]

\* what follows the await of cleanupActive
Cleaned(ss, h, k, then) ==
  IF then = "leaving" THEN NextAttempt(ss, [h EXCEPT !.active = 0], k)
                      ELSE [ss |-> ss, h |-> [h EXCEPT !.active = 0, !.at = "done"]]

\* mutant: the next attempt begins without stopping the active session
cleanupActiveForgetting(ss, h, k, then) == Cleaned(ss, h, k, then)

cleanupActive(ss, h, k, then) ==
  IF h.active = 0
  THEN Cleaned(ss, h, k, then)
  ELSE [ss |-> [ss EXCEPT ![h.active] = Stop(@)], h |-> [h EXCEPT !.at = then]]

\* `const outcome = await waitPromise` and what is done with it
Decide(ss, h, k) ==
  CASE h.outcome = "none"      -> [ss |-> ss, h |-> [h EXCEPT !.at = "outcome"]]
    [] h.stopped /\ h.outcome # "none" -> cleanupActive(ss, h, k, "returning")
    [] ~h.stopped /\ h.outcome = "connected"
                               -> [ss |-> ss, h |-> [h EXCEPT !.at = "live"]]
    [] OTHER                   -> cleanupActive(ss, h, k, "leaving")

\* the handle k and the sessions become what the operators above return
Becomes(k, r) == sess' = r.ss /\ hd' = [hd EXCEPT ![k] = r.h]

-----------------------------------------------------------------------------
(* Calls *)

\* playWhepWithFailover(cands): the loop runs up to its first await
NewHandle(cands) ==
  LET idle == [cands |-> cands, i |-> 0, cur |-> 0, active |-> 0, at |-> "done",
               stopped |-> FALSE, connected |-> FALSE, broken |-> FALSE,
               outcome |-> "none", says |-> "idle"]
      r == NextAttempt(sess, idle, Len(hd) + 1)
  IN /\ sess' = r.ss
     /\ hd' = Append(hd, r.h)

\* mutant: stop() does not tell the loop
StoppedUnnoticed(h) == h

\* handle.stop()
Stopped(h) == [h EXCEPT !.stopped = TRUE]
StopHandle(k) ==
  /\ hd' = [hd EXCEPT ![k] = Stopped(@)]
  /\ sess' = IF hd[k].active = 0 THEN sess
             ELSE [sess EXCEPT ![hd[k].active] = Stop(@)]

-----------------------------------------------------------------------------
(* Answers of the network to session s *)

Gathered(s) ==
  /\ sess[s].stage = "opening"
  /\ sess' = [sess EXCEPT ![s].stage = "posting"]
  /\ UNCHANGED hd

PostAccepted(s) ==
  /\ sess[s].stage = "posting"
  /\ sess' = [sess EXCEPT ![s].stage = "answering", ![s].resource = TRUE]
  /\ UNCHANGED hd

\* mutant: an error of playWhep is swallowed and the loop waits on
ThrowsSilently(s, session) == sess' = [sess EXCEPT ![s] = session] /\ UNCHANGED hd

\* playWhep throws; the loop goes on to the next candidate
Throws(s, session) ==
  LET ss == [sess EXCEPT ![s] = session] IN
  IF session.owner = 0
  THEN sess' = ss /\ UNCHANGED hd
  ELSE Becomes(session.owner,
               cleanupActive(ss, hd[session.owner], session.owner, "leaving"))

\* an HTTP error closes the connection; a network error leaves it open, and
\* the server may have made the resource
PostFailed(s) ==
  /\ sess[s].stage = "posting"
  /\ \/ Throws(s, [sess[s] EXCEPT !.stage = "threw", !.conn = "closed"])
     \/ \E made \in BOOLEAN :
          Throws(s, [sess[s] EXCEPT !.stage = "threw", !.resource = made])

\* setRemoteDescription rejects the answer
AnswerRejected(s) ==
  /\ sess[s].stage = "answering"
  /\ Throws(s, [sess[s] EXCEPT !.stage = "threw"])

\* playWhep returns a session; the loop makes it the active one, hands out
\* its stream and waits for the attempt's outcome
AnswerApplied(s) ==
  /\ sess[s].stage = "answering"
  /\ LET ss == [sess EXCEPT ![s].stage = "ready"]
         k == sess[s].owner
     IN IF k = 0 THEN sess' = ss /\ UNCHANGED hd
                 ELSE Becomes(k, Decide(ss, [hd[k] EXCEPT !.active = s], k))

\* connectionState of an open connection changes; closing it is no event
ConnMoves == [new |-> {"connected", "failed"}, connected |-> {"disconnected"},
              disconnected |-> {"connected", "failed"}, failed |-> {},
              closed |-> {}]

\* mutant: a transient disconnect counts as broken
onConnectionStateChangeImpatient(h, c) ==
  IF h.stopped THEN h
  ELSE [h EXCEPT
          !.says = IF c = "connected" /\ ~h.connected THEN "connected" ELSE @,
          !.connected = @ \/ c = "connected",
          !.broken = @ \/ c \in {"failed", "disconnected"}]

onConnectionStateChange(h, c) ==
  IF h.stopped THEN h
  ELSE [h EXCEPT
          !.says = IF c = "connected" /\ ~h.connected THEN "connected" ELSE @,
          !.connected = @ \/ c = "connected",
          !.broken = @ \/ c = "failed"]

ConnectionState(s, c) ==
  /\ sess[s].stage = "ready"
  /\ c \in ConnMoves[sess[s].conn]
  /\ sess' = [sess EXCEPT ![s].conn = c]
  /\ hd' = IF sess[s].owner = 0 THEN hd
           ELSE [hd EXCEPT ![sess[s].owner] = onConnectionStateChange(@, c)]

\* the DELETE of stop() is answered or fails; the connection is closed and
\* whoever awaited it goes on
Deleted(s) ==
  /\ sess[s].stopping
  /\ \E left \in {FALSE, sess[s].resource} :
       LET ss == [sess EXCEPT ![s].stopping = FALSE, ![s].conn = "closed",
                              ![s].resource = left]
           k == sess[s].owner
       IN IF k = 0 \/ hd[k].active # s THEN sess' = ss /\ UNCHANGED hd
          ELSE IF hd[k].at \in {"leaving", "returning"}
          THEN Becomes(k, Cleaned(ss, hd[k], k, hd[k].at))
          ELSE Becomes(k, [ss |-> ss, h |-> [hd[k] EXCEPT !.active = 0]])

-----------------------------------------------------------------------------
(* Timers of handle k *)

Waiting(h) == h.at \in {"playing", "outcome"} /\ h.outcome = "none"

\* the loop goes on when it awaits the outcome, and learns of it later when it
\* is still inside playWhep
Settle(k, h) == IF h.at = "outcome" THEN Becomes(k, Decide(sess, h, k))
                                    ELSE Becomes(k, [ss |-> sess, h |-> h])

\* connectTimeoutMs after the attempt began
ConnectTimeout(k) ==
  /\ Waiting(hd[k]) /\ ~hd[k].connected
  /\ Settle(k, [hd[k] EXCEPT !.broken = TRUE, !.outcome = "timeout"])

\* the 50 ms poll that resolves waitPromise
Poll(k) ==
  /\ Waiting(hd[k])
  /\ hd[k].stopped \/ hd[k].connected \/ hd[k].broken
  /\ Settle(k, [hd[k] EXCEPT
                  !.outcome = IF ~hd[k].stopped /\ hd[k].connected
                              THEN "connected" ELSE "broken"])

\* the 500 ms poll of waitUntilBrokenOrSilent
waitUntilBroken(k) ==
  /\ hd[k].at = "live"
  /\ hd[k].stopped \/ hd[k].broken
  /\ Becomes(k, IF hd[k].stopped
                THEN cleanupActive(sess, hd[k], k, "returning")
                ELSE cleanupActive(sess, [hd[k] EXCEPT !.says = "failing-over"],
                                   k, "leaving"))

-----------------------------------------------------------------------------
(* Properties *)

\* A loop tears one attempt down before it opens the next, so a viewer never
\* pulls the same stream twice (cleanupActive before every `continue`); and
\* "nenhum dos N provedores" is reported only when every candidate was tried and
\* none of their connections is in use any more.  A connection that playWhep left
\* open when it threw (whep.ts:175-189) is not in use: nobody holds it.
AttemptsInTurn ==
  \A k \in Handles :
    /\ Cardinality({s \in OwnedBy(k) : InUse(sess[s])}) <= 1
    /\ hd[k].says = "failed-all" =>
         /\ Cardinality(OwnedBy(k)) = Len(hd[k].cands)
         /\ \A s \in OwnedBy(k) : ~InUse(sess[s])

\* A stream that plays is given up only by stop() or when its attempt had run
\* into the connect timeout before: a transient `disconnected` must not cost
\* the viewer a provider.
HealthyStreamKept ==
  [][\A s \in Sessions :
       /\ sess[s].owner # 0
       /\ sess[s].conn \in {"connected", "disconnected"}
       /\ ~sess[s].stopping /\ sess'[s].stopping
       => \/ hd'[sess[s].owner].stopped
          \/ hd[sess[s].owner].outcome = "timeout"]_whepVars
=============================================================================
