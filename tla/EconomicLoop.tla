---------------------------- MODULE EconomicLoop ----------------------------
(***************************************************************************)
(* The path from bytes served to rewards: receipts (ProofOfRelay), the     *)
(* coordinator that settles them (Coordinator) and the contract that       *)
(* allocates and pays (PersistencePool), put together.  Where Coordinator  *)
(* lets the chain choose a transaction's outcome, here the outcome is what *)
(* submitSettlement does with the arguments the settler encoded.           *)
(***************************************************************************)
EXTENDS Coordinator, PersistencePool

CONSTANTS
  Resolve,         \* AddressResolver: PeerID -> address, on registered providers
  TotalRewards     \* Config.TotalRewards, the same for every settlement

ASSUME ResolverAssumption ==
  /\ Resolve \in [Registered -> Address]
  /\ Registered \subseteq Provider
  /\ TotalRewards \in Nat \ {0}

loopVars == <<coordVars, vars>>

LoopInit == CoordInit /\ Init

----------------------------------------------------------------------------
\* A variant that encodes the providers in reverse, the bytes as they come.
ResolvedInReverse(receipts) ==
  LET peers == SettlementProviders(receipts)
  IN  [i \in DOMAIN peers |-> Resolve[peers[Len(peers) + 1 - i]]]

\* SettleOnce, the resolution of PeerIDs: por's order is preserved.
Resolved(receipts) ==
  LET peers == SettlementProviders(receipts)
  IN  [i \in DOMAIN peers |-> Resolve[peers[i]]]

\* The coordinator's account sends the transaction; its Merkle root stands for
\* the receipts and is not told apart here.
Executes(tx) ==
  \E merkleRoot \in Root :
    SubmitSettlement(InitialCoordinator, merkleRoot, Resolved(tx.receipts),
                     PerProviderBytes(tx.receipts), TotalRewards)

\* The transaction is mined and runs to its end.
MineSettled(tx) == Mine(tx, TRUE) /\ Executes(tx)

\* The transaction is mined and reverts: the pool cannot cover it, or it runs
\* out of Config.GasLimit.
MineReverted(tx) == Mine(tx, FALSE) /\ UNCHANGED vars

\* Creators fund the pool, providers claim.
Fund(sender, manifestCid, amount) ==
  Deposit(sender, manifestCid, amount) /\ UNCHANGED coordVars

Pull(sender, id) == Claim(sender, id) /\ UNCHANGED coordVars

OffChain == (Driver \/ Faults \/ Receipts) /\ UNCHANGED vars

Evict(tx) == Drop(tx) /\ UNCHANGED vars

LoopNext ==
  \/ OffChain
  \/ \E tx \in mempool : MineSettled(tx) \/ MineReverted(tx) \/ Evict(tx)
  \/ \E sender \in Address, manifestCid \in Cid, amount \in Amount :
       Fund(sender, manifestCid, amount)
  \/ \E sender \in Address, id \in DOMAIN allocations : Pull(sender, id)

LoopSpec == LoopInit /\ [][LoopNext]_loopVars

----------------------------------------------------------------------------
(***************************************************************************)
(* Properties                                                              *)
(***************************************************************************)

\* The successful transactions, in the order in which the pool numbered them.
SettledTxs == [n \in 1..Cardinality(Settled) |-> mined[Nth(Settled, n)]]

\* The bytes the operator behind an address served, by a set of receipts.
BytesFor(receipts, a) ==
  LET own == {r \in receipts : r.provider \in Registered /\ Resolve[r.provider] = a}
  IN  Sum([r \in own |-> r.size], own)

AllBytes(receipts) == Sum([r \in receipts |-> r.size], receipts)

\* "allocates totalRewards proportionally to bytesServed[]", end to end: in
\* every settlement each address is allocated its share of TotalRewards by the
\* receipts that name its providers.
PaidByReceipts ==
  /\ Len(SettledTxs) = Len(allocations)
  /\ \A id \in DOMAIN allocations : \A a \in Address :
       allocations[id][a] =
         Share(TotalRewards, BytesFor(SettledTxs[id].receipts, a),
               AllBytes(SettledTxs[id].receipts))

\* As long as no attempt was given up with its transaction alive and nothing
\* was restarted, the contract's per-address byte counter is exactly the sum of
\* the distinct receipts that were settled: nothing is counted twice or lost on
\* the way from the receipt store through SettleOnce to the chain.
BytesCountedOnce ==
  ~ disturbed =>
    \A a \in Address :
      cumulativeBytesServed[a] =
        BytesFor(UNION {mined[i].receipts : i \in Settled}, a)

\* From the viewers' receipts to the chain: rewards are shared by the receipts of
\* a settlement, and the byte counters add each receipt once (settler.go:123-190,
\* PersistencePool.sol:207-214).
ReceiptsPaidAndCounted == PaidByReceipts /\ BytesCountedOnce
=============================================================================
