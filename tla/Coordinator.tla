---------------------------- MODULE Coordinator ----------------------------
(***************************************************************************)
(* services/coordinator: epoch.Driver ticks, reads the receipt window      *)
(* [lastSince, now), settle.Settler turns it into a submitSettlement       *)
(* transaction, broadcasts it and waits for it to be mined.  The driver is *)
(* one goroutine; what interleaves with it are the receipts that arrive,   *)
(* the chain that mines, the RPC calls that fail, and restarts: lastSince  *)
(* lives in memory only and starts again at Config.InitialSince.           *)
(*                                                                         *)
(* The chain appears as the coordinator sees it: pending transactions of   *)
(* its account, mined in nonce order, with an outcome each.                *)
(***************************************************************************)
EXTENDS ProofOfRelay

CONSTANTS
  Registered,    \* providers the AddressResolver has a mapping for
  InitialSince,  \* Config.InitialSince
  MaxFailures,   \* bound: failed RPC calls, timeouts, dropped or reverted txs
  MaxRestarts    \* bound: restarts of the coordinator

\* The configuration may name any int64, also one below zero or in the future.
ASSUME CursorAssumption == InitialSince \in Int

VARIABLES
  phase,         \* where TickOnce is: "idle", "built", "signed", "waiting"
  lastSince,     \* Driver.lastSince
  job,           \* SettleOnce's locals: window, receipts and nonce
  mempool,       \* pending transactions of the coordinator's account
  mined,         \* mined transactions in nonce order, with their outcome
  failures, restarts,
  disturbed      \* history: an attempt given up while its transaction may live, or a restart

driverVars == <<phase, lastSince, job>>
chainVars == <<mempool, mined>>
historyVars == <<failures, restarts, disturbed>>
coordVars == <<porVars, driverVars, chainVars, historyVars>>

NoJob == [since |-> 0, until |-> 0, receipts |-> {}, nonce |-> 0]

CoordInit ==
  /\ PorInit
  /\ phase = "idle"
  /\ lastSince = InitialSince
  /\ job = NoJob
  /\ mempool = {}
  /\ mined = <<>>
  /\ failures = 0
  /\ restarts = 0
  /\ disturbed = FALSE

\* The on-chain settlements: mined transactions that did not revert.
Settled == {i \in DOMAIN mined : mined[i].ok}

----------------------------------------------------------------------------
(***************************************************************************)
(* The environment of the driver: receipts and time.                       *)
(***************************************************************************)
CoordClock ==
  /\ ClockAdvances
  /\ UNCHANGED <<driverVars, chainVars, historyVars>>

CoordIssue(v, p, size) ==
  /\ Issue(v, p, size)
  /\ UNCHANGED <<driverVars, chainVars, historyVars>>

CoordAckLost(r) ==
  /\ failures < MaxFailures
  /\ AckLost(r)
  /\ failures' = failures + 1
  /\ UNCHANGED <<driverVars, chainVars, restarts, disturbed>>

CoordAck(r) ==
  /\ Ack(r)
  /\ UNCHANGED <<driverVars, chainVars, historyVars>>

----------------------------------------------------------------------------
(***************************************************************************)
(* TickOnce and SettleOnce                                                 *)
(***************************************************************************)

\* A variant of a tick that advances the cursor on ErrNoReceipts too.
TickAdvancingWhenQuiet ==
  /\ phase = "idle"
  /\ IF Window(lastSince, now) = {}
     THEN lastSince' = now /\ UNCHANGED <<phase, job>>
     ELSE /\ phase' = "built"
          /\ job' = [since |-> lastSince, until |-> now,
                     receipts |-> Window(lastSince, now), nonce |-> 0]
          /\ UNCHANGED lastSince
  /\ UNCHANGED <<porVars, chainVars, historyVars>>

\* The start of a tick: read the window and build the settlement.  An empty
\* window is ErrNoReceipts: the tick is skipped and nothing changes.  A provider
\* the resolver does not know fails the whole attempt, again changing nothing.
Tick ==
  /\ phase = "idle"
  /\ Window(lastSince, now) # {}
  /\ NoDuplicates(Window(lastSince, now))
  /\ \A r \in Window(lastSince, now) : r.provider \in Registered
  /\ phase' = "built"
  /\ job' = [since |-> lastSince, until |-> now,
             receipts |-> Window(lastSince, now), nonce |-> 0]
  /\ UNCHANGED <<lastSince, porVars, chainVars, historyVars>>

\* A variant that asks for the latest instead of the pending nonce.
LatestNonce == Len(mined) + 1

\* chain.Client.NonceAt asks for the PENDING nonce: the first one neither mined
\* nor waiting in the mempool.
PendingNonce ==
  CHOOSE n \in Len(mined) + 1 .. Len(mined) + 1 + Cardinality(mempool) :
    /\ \A tx \in mempool : tx.nonce # n
    /\ \A m \in Len(mined) + 1 .. n - 1 : \E tx \in mempool : tx.nonce = m

\* A variant of signing that never fetches the nonce.
SignWithoutNonce ==
  /\ phase = "built"
  /\ phase' = "signed"
  /\ UNCHANGED <<job, lastSince, porVars, chainVars, historyVars>>

\* Fetch nonce and fees, sign.
Sign ==
  /\ phase = "built"
  /\ job' = [job EXCEPT !.nonce = PendingNonce]
  /\ phase' = "signed"
  /\ UNCHANGED <<lastSince, porVars, chainVars, historyVars>>

\* SendTransaction: the node accepts the transaction into its mempool.
Send ==
  /\ phase = "signed"
  /\ mempool' = mempool \cup {job}
  /\ phase' = "waiting"
  /\ UNCHANGED <<lastSince, job, porVars, mined, historyVars>>

\* The tick ends with an error: back to waiting for the ticker, cursor untouched.
Abandon ==
  /\ failures < MaxFailures
  /\ failures' = failures + 1
  /\ phase' = "idle"
  /\ job' = NoJob
  /\ UNCHANGED <<lastSince, porVars, restarts>>

\* Any RPC before the broadcast fails.
RpcFails ==
  /\ phase \in {"built", "signed"}
  /\ Abandon
  /\ UNCHANGED <<chainVars, disturbed>>

\* SendTransaction returns an error although the node took the transaction.
SendUnconfirmed ==
  /\ phase = "signed"
  /\ Abandon
  /\ mempool' = mempool \cup {job}
  /\ disturbed' = TRUE
  /\ UNCHANGED mined

\* WaitMined returns an error: it timed out on a transaction that is still
\* pending, or polling failed, which may happen even after it was mined.
WaitFails ==
  /\ phase = "waiting"
  /\ Abandon
  /\ disturbed' = TRUE
  /\ UNCHANGED chainVars

\* The timeout on a transaction that cannot be mined as things stand: it was
\* dropped, or one with a lower nonce was and left a gap.
Minable(nonce) ==
  \A m \in Len(mined) + 1 .. nonce : \E tx \in mempool : tx.nonce = m

WaitTimesOut ==
  /\ phase = "waiting"
  /\ job.nonce > Len(mined)
  /\ ~ Minable(job.nonce)
  /\ phase' = "idle"
  /\ job' = NoJob
  /\ disturbed' = (disturbed \/ job \in mempool)
  /\ UNCHANGED <<lastSince, porVars, chainVars, failures, restarts>>

\* A variant of a successful tick that leaves the cursor where it was.
WaitSucceedsKeepingCursor ==
  /\ phase = "waiting"
  /\ job.nonce \in Settled
  /\ phase' = "idle"
  /\ job' = NoJob
  /\ UNCHANGED <<lastSince, porVars, chainVars, historyVars>>

\* WaitMined finds the receipt and its status is 1: the cursor advances.
WaitSucceeds ==
  /\ phase = "waiting"
  /\ job.nonce \in Settled
  /\ lastSince' = job.until
  /\ phase' = "idle"
  /\ job' = NoJob
  /\ UNCHANGED <<porVars, chainVars, historyVars>>

\* A variant that moves the cursor when the transaction reverted as well.
WaitRevertedAdvancing ==
  /\ phase = "waiting"
  /\ job.nonce \in DOMAIN mined \ Settled
  /\ lastSince' = job.until
  /\ phase' = "idle"
  /\ job' = NoJob
  /\ UNCHANGED <<porVars, chainVars, historyVars>>

\* WaitMined finds the receipt and its status is 0: an error, cursor untouched.
WaitReverted ==
  /\ phase = "waiting"
  /\ job.nonce \in DOMAIN mined \ Settled
  /\ phase' = "idle"
  /\ job' = NoJob
  /\ UNCHANGED <<lastSince, porVars, chainVars, historyVars>>

\* The process dies and is started again from its configuration.
Restart ==
  /\ restarts < MaxRestarts
  /\ restarts' = restarts + 1
  /\ phase' = "idle"
  /\ job' = NoJob
  /\ lastSince' = InitialSince
  /\ disturbed' = TRUE
  /\ UNCHANGED <<porVars, chainVars, failures>>

----------------------------------------------------------------------------
(***************************************************************************)
(* The chain (external): transactions of one account are mined in nonce    *)
(* order; one may revert, and one may be dropped from the mempool.         *)
(***************************************************************************)
Mine(tx, ok) ==
  /\ tx \in mempool
  /\ tx.nonce = Len(mined) + 1
  /\ ok \/ failures < MaxFailures
  /\ failures' = IF ok THEN failures ELSE failures + 1
  /\ mempool' = mempool \ {tx}
  /\ mined' = Append(mined, [since |-> tx.since, until |-> tx.until,
                             receipts |-> tx.receipts, ok |-> ok])
  /\ UNCHANGED <<porVars, driverVars, restarts, disturbed>>

Drop(tx) ==
  /\ tx \in mempool
  /\ failures < MaxFailures
  /\ failures' = failures + 1
  /\ mempool' = mempool \ {tx}
  /\ UNCHANGED <<porVars, driverVars, mined, restarts, disturbed>>

----------------------------------------------------------------------------
Driver ==
  \/ Tick \/ Sign \/ Send
  \/ WaitSucceeds \/ WaitReverted \/ WaitTimesOut

Faults ==
  \/ RpcFails \/ SendUnconfirmed \/ WaitFails \/ Restart

Receipts ==
  \/ CoordClock
  \/ \E v \in Viewer, p \in Provider, size \in Size : CoordIssue(v, p, size)
  \/ \E r \in inflight : CoordAck(r) \/ CoordAckLost(r)

Chain ==
  \E tx \in mempool : Mine(tx, TRUE) \/ Mine(tx, FALSE) \/ Drop(tx)

CoordNext == Driver \/ Faults \/ Receipts \/ Chain

(***************************************************************************)
(* Fairness.  Time passes and the ticker fires (Driver.Run); the driver's  *)
(* goroutine runs on whenever the call it is in can return; the chain      *)
(* eventually mines a transaction it can mine.  Faults are bounded by      *)
(* MaxFailures and MaxRestarts and are never forced to happen.             *)
(***************************************************************************)
CoordFairness ==
  /\ WF_coordVars(CoordClock)
  /\ WF_coordVars(Tick)
  /\ WF_coordVars(Sign)
  /\ WF_coordVars(Send)
  /\ WF_coordVars(WaitSucceeds \/ WaitReverted \/ WaitTimesOut)
  /\ WF_coordVars(\E tx \in mempool : Mine(tx, TRUE))

CoordSpec == CoordInit /\ [][CoordNext]_coordVars /\ CoordFairness

----------------------------------------------------------------------------
(***************************************************************************)
(* Properties                                                              *)
(***************************************************************************)
Job == [since : Int, until : Nat, receipts : SUBSET Receipt, nonce : Nat]

\* Every record the driver and the chain keep is well formed, and a transaction
\* being waited for has left the driver with a real nonce.
CoordTypeOK ==
  /\ now \in 1..MaxTime
  /\ nonces \in [Viewer -> 0..MaxReceipts]
  /\ inflight \subseteq Receipt
  /\ store \subseteq Receipt
  /\ phase \in {"idle", "built", "signed", "waiting"}
  /\ lastSince \in {InitialSince} \cup 1..now
  /\ job \in Job
  /\ phase \in {"signed", "waiting"} => job.nonce > 0
  /\ mempool \subseteq Job
  /\ mined \in Seq([since : Int, until : Nat, receipts : SUBSET Receipt, ok : BOOLEAN])

\* settler.go: "Nonce is fetched from the chain (not tracked locally) so
\* coordinator restarts never produce a stale-nonce tx".  No two live
\* transactions of the account share a nonce and none reuses a mined one.
NoStaleNonce ==
  /\ \A tx \in mempool : tx.nonce > Len(mined)
  /\ \A tx1, tx2 \in mempool : tx1.nonce = tx2.nonce => tx1 = tx2
  /\ \A tx \in mempool : phase = "signed" => tx.nonce # job.nonce

\* driver.go: the cursor is "advanced to the `until` value only when a
\* settlement succeeded": every second it has passed lies in the window of a
\* settlement that is on chain.
CursorOnlyPassesSettledTime ==
  \A t \in InitialSince .. lastSince - 1 :
    \E i \in Settled : mined[i].since <= t /\ t < mined[i].until

\* No receipt is paid in two settlements.
SettledAtMostOnce ==
  \A i, j \in Settled : i # j => mined[i].receipts \cap mined[j].receipts = {}

\* It is not, as long as no attempt is given up while its transaction may still
\* be mined and the coordinator is not restarted: consecutive windows meet but
\* do not overlap.
SettledOnceUndisturbed == ~ disturbed => SettledAtMostOnce

IsCovered(r) == \E i \in Settled : mined[i].since <= r.ts /\ r.ts < mined[i].until

IsSettled(r) == \E i \in Settled : r \in mined[i].receipts

\* Every second for which a receipt is stored is eventually in the window of a
\* settlement on chain, whatever calls fail and however often the coordinator
\* restarts (within the bounds).
EveryReceiptCovered ==
  \A r \in Receipt : (r \in store /\ r.ts >= InitialSince) ~> IsCovered(r)

\* What one provider does cannot keep the others from being paid: a receipt of a
\* registered provider is eventually covered, whoever else served in its window.
RegisteredNotBlocked ==
  \A r \in Receipt :
    (r \in store /\ r.ts >= InitialSince /\ r.provider \in Registered) ~> IsCovered(r)

\* Every stored receipt is eventually part of a settlement, or was replaced in
\* the store by another one with its key.
EveryReceiptSettled ==
  \A r \in Receipt :
    (r \in store /\ r.ts >= InitialSince) ~> (IsSettled(r) \/ r \notin store)

\* Whatever fails, times out or restarts on the way, an attempt neither reuses a
\* nonce (client.go:71) nor moves the cursor over time that is not settled
\* (driver.go:102).
AttemptsSound == CoordTypeOK /\ NoStaleNonce /\ CursorOnlyPassesSettledTime
============================================================================
