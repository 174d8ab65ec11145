---------------------------- MODULE ProofOfRelay ----------------------------
(***************************************************************************)
(* services/provider-node/por: the receipts a provider accumulates as      *)
(* evidence of bytes served.  A viewer builds and signs a receipt          *)
(* (Issuer.Issue) and POSTs it to the provider's /ack, which co-signs it   *)
(* and puts it into the receipt store (AckServer.handle); BuildSettlement  *)
(* aggregates a set of stored receipts into the payload of one settlement. *)
(*                                                                         *)
(* Signatures are not modelled: every receipt here was signed by the       *)
(* viewer it names, is addressed to the provider that handles it, and is   *)
(* co-signed in the step that stores it.                                   *)
(***************************************************************************)
EXTENDS Integers, Sequences, FiniteSets, Functions

CONSTANTS
  Provider,      \* provider PeerIDs
  Viewer,        \* viewer PeerIDs
  PeerOrder,     \* the providers in the order sort.Strings gives their PeerIDs
  Size,          \* segment sizes
  MaxTime,       \* bound: the wall clock
  MaxReceipts    \* bound: receipts a viewer issues

ASSUME ClockAssumption == MaxTime \in Nat \ {0} /\ MaxReceipts \in Nat

\* PeerIDs are distinct strings, and the order of strings is total.
ASSUME PeerAssumption ==
  /\ PeerOrder \in Seq(Provider)
  /\ \A p \in Provider : \E i \in DOMAIN PeerOrder : PeerOrder[i] = p
  /\ \A i, j \in DOMAIN PeerOrder : PeerOrder[i] = PeerOrder[j] => i = j
  /\ Size \subseteq Nat

VARIABLES
  now,           \* wall clock, in seconds
  nonces,        \* per viewer: the last value of its NonceSource
  inflight,      \* receipts POSTed to /ack and not handled yet
  store          \* the receipt store

porVars == <<now, nonces, inflight, store>>

Receipt ==
  [provider : Provider, viewer : Viewer, size : Size,
   ts : 0..MaxTime, nonce : 0..MaxReceipts]

\* receiptKey: the viewer is not part of it.
ReceiptKey(r) == <<r.provider, r.ts, r.nonce>>

PorInit ==
  /\ now = 1
  /\ nonces = [v \in Viewer |-> 0]
  /\ inflight = {}
  /\ store = {}

----------------------------------------------------------------------------
\* Time passes.
ClockAdvances ==
  /\ now < MaxTime
  /\ now' = now + 1
  /\ UNCHANGED <<nonces, inflight, store>>

\* Issuer.Issue up to the POST: timestamp and nonce are the viewer's own.
Issue(v, p, size) ==
  /\ nonces[v] < MaxReceipts
  /\ now < MaxTime
  /\ nonces' = [nonces EXCEPT ![v] = @ + 1]
  /\ inflight' = inflight \cup
       {[provider |-> p, viewer |-> v, size |-> size, ts |-> now, nonce |-> nonces'[v]]}
  /\ UNCHANGED <<now, store>>

\* The request never arrives; Issue returns an error and nobody retries.
AckLost(r) ==
  /\ r \in inflight
  /\ inflight' = inflight \ {r}
  /\ UNCHANGED <<now, nonces, store>>

\* AckServer.handle: co-sign and Put, which replaces a receipt with the same key.
Ack(r) ==
  /\ r \in inflight
  /\ inflight' = inflight \ {r}
  /\ store' = {s \in store : ReceiptKey(s) # ReceiptKey(r)} \cup {r}
  /\ UNCHANGED <<now, nonces>>

----------------------------------------------------------------------------
\* A variant of the window that includes its upper end.
WindowClosed(since, until) ==
  {r \in store : (since > 0 => r.ts >= since) /\ (until > 0 => r.ts <= until)}

\* receipts.Reader.WindowForAllProviders: [since, until), 0 disables a side.
Window(since, until) ==
  {r \in store : (since > 0 => r.ts >= since) /\ (until > 0 => r.ts < until)}

\* BuildSettlement: the providers that occur, in PeerID order, and for each
\* the bytes of its receipts.
ServedBy(receipts, p) ==
  LET own == {r \in receipts : r.provider = p}
  IN  SumFunctionOnSet([r \in own |-> r.size], own)

\* The n-th element of a set of integers in increasing order.
Nth(S, n) == CHOOSE i \in S : Cardinality({j \in S : j < i}) = n - 1

\* The places in PeerOrder of the providers that occur.
Places(receipts) ==
  {i \in DOMAIN PeerOrder : \E r \in receipts : r.provider = PeerOrder[i]}

SettlementProviders(receipts) ==
  [n \in 1..Cardinality(Places(receipts)) |-> PeerOrder[Nth(Places(receipts), n)]]

PerProviderBytes(receipts) ==
  [i \in DOMAIN SettlementProviders(receipts) |->
     ServedBy(receipts, SettlementProviders(receipts)[i])]

\* BuildSettlement's own precondition: no two receipts with the same key.
NoDuplicates(receipts) ==
  \A r, s \in receipts : ReceiptKey(r) = ReceiptKey(s) => r = s
=============================================================================
