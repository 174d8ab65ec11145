-------------------------- MODULE PersistencePool --------------------------
(***************************************************************************)
(* packages/contracts/src/PersistencePool.sol: the contract that holds     *)
(* creator deposits and pays Provider Nodes for the bytes they relayed.    *)
(*                                                                         *)
(* A transaction is atomic on chain, so every external function is one     *)
(* action; a call that reverts changes nothing and is a disabled action.   *)
(* Mappings whose keys are settlement ids are sequences (an id beyond the  *)
(* end reads as the default 0/false, which makes `claim` revert).          *)
(***************************************************************************)
EXTENDS Integers, Sequences, FiniteSets, Functions, Erc20

CONSTANTS
  Address,             \* accounts other than the pool and address(0)
  ZeroAddress,         \* address(0)
  Pool,                \* address(this)
  Cid,                 \* manifest CIDs deposits are tagged with
  Root,                \* Merkle roots a settlement may commit to
  InitialCoordinator,  \* the constructor's _coordinator
  InitialBalance,      \* token balances when the pool is deployed
  Amount,              \* amounts callers pass
  ByteCount,           \* entries of bytesServed[]
  MaxProviders,        \* bound: length of the calldata arrays
  MaxSettlements,      \* bound: number of settlements
  MaxUint              \* 2^256 - 1: arithmetic beyond it reverts

Account == Address \cup {Pool}

ASSUME AddressAssumption ==
  /\ IsFiniteSet(Address)
  /\ IsFiniteSet(Cid)
  /\ ZeroAddress \notin Address
  /\ Pool \notin Address
  /\ InitialCoordinator \in Address

ASSUME AmountAssumption ==
  /\ Amount \subseteq Nat
  /\ ByteCount \subseteq Nat
  /\ MaxProviders \in Nat
  /\ MaxSettlements \in Nat
  /\ MaxUint \in Nat
  /\ InitialBalance \in [Account -> Nat]
  /\ InitialBalance[Pool] = 0

VARIABLES
  balance,               \* rewardToken.balanceOf
  coordinator,           \* the coordinator role
  settlements,           \* _settlements, and settlementCount as its length
  allocations,           \* _allocations[id][provider]
  claimed,               \* _claimed[id], as the set of providers that claimed
  cumulativeBytesServed,
  cumulativeRewardsPaid,
  depositsByCid,
  received               \* history: tokens that ever entered the pool

vars == <<balance, coordinator, settlements, allocations, claimed,
          cumulativeBytesServed, cumulativeRewardsPaid, depositsByCid, received>>

books == <<coordinator, settlements, allocations, claimed,
           cumulativeBytesServed, cumulativeRewardsPaid>>

Sum(f, S) == SumFunctionOnSet(f, S)

Arrays(S) == UNION {[1..n -> S] : n \in 0..MaxProviders}

Fits(n) == n <= MaxUint

Settlement ==
  [merkleRoot : Root, totalRewards : Nat, totalBytes : Nat, providerCount : Nat]

----------------------------------------------------------------------------
Init ==
  /\ balance = InitialBalance
  /\ coordinator = InitialCoordinator
  /\ settlements = <<>>
  /\ allocations = <<>>
  /\ claimed = <<>>
  /\ cumulativeBytesServed = [p \in Address |-> 0]
  /\ cumulativeRewardsPaid = [p \in Address |-> 0]
  /\ depositsByCid = [c \in Cid |-> 0]
  /\ received = 0

----------------------------------------------------------------------------
\* deposit(manifestCid, amount): the tag is for audit only, funds are pooled.
Deposit(sender, manifestCid, amount) ==
  /\ amount # 0
  /\ CanPay(balance, sender, amount)
  /\ Fits(depositsByCid[manifestCid] + amount)
  /\ balance' = Moved(balance, sender, Pool, amount)
  /\ depositsByCid' = [depositsByCid EXCEPT ![manifestCid] = @ + amount]
  /\ received' = received + amount
  /\ UNCHANGED books

\* A plain ERC-20 transfer to the pool, which is how BoostRouter.boost funds
\* it: the pool's own code does not run and nothing is tagged.
TransferIn(sender, amount) ==
  /\ amount # 0
  /\ CanPay(balance, sender, amount)
  /\ balance' = Moved(balance, sender, Pool, amount)
  /\ received' = received + amount
  /\ UNCHANGED <<books, depositsByCid>>

----------------------------------------------------------------------------
TotalBytes(bytesServed) == Sum(bytesServed, DOMAIN bytesServed)

\* The rounding of one provider's share: integer division, dust stays behind.
ShareRoundedUp(totalRewards, bytes, totalBytes) ==
  (totalRewards * bytes + totalBytes - 1) \div totalBytes

Share(totalRewards, bytes, totalBytes) ==
  (totalRewards * bytes) \div totalBytes

Positions(providers, p) == {i \in DOMAIN providers : providers[i] = p}

\* The loop ASSIGNS allocations[id][provider]: when an address occurs twice
\* its last occurrence is what remains.
LastPosition(providers, p) ==
  CHOOSE i \in Positions(providers, p) : \A j \in Positions(providers, p) : j <= i

Allocated(providers, bytesServed, totalRewards) ==
  [p \in Address |->
     IF Positions(providers, p) = {} THEN 0
     ELSE Share(totalRewards, bytesServed[LastPosition(providers, p)],
                TotalBytes(bytesServed))]

\* ... whereas cumulativeBytesServed ADDS every occurrence.
BytesOf(providers, bytesServed, p) == Sum(bytesServed, Positions(providers, p))

\* A variant of submitSettlement that forgets to increment settlementCount once
\* a first settlement exists, so the next one is written over it.
SubmitSettlementReusingId(sender, merkleRoot, providers, bytesServed, totalRewards) ==
  LET record == [merkleRoot |-> merkleRoot, totalRewards |-> totalRewards,
                 totalBytes |-> TotalBytes(bytesServed), providerCount |-> Len(providers)]
  IN
  /\ sender = coordinator
  /\ providers # <<>>
  /\ Len(providers) = Len(bytesServed)
  /\ totalRewards # 0
  /\ balance[Pool] >= totalRewards
  /\ \A i \in DOMAIN providers : providers[i] # ZeroAddress
  /\ TotalBytes(bytesServed) # 0
  /\ settlements' = <<record>>
  /\ allocations' = <<Allocated(providers, bytesServed, totalRewards)>>
  /\ claimed' = IF claimed = <<>> THEN <<{}>> ELSE claimed
  /\ UNCHANGED <<balance, coordinator, depositsByCid, received,
                 cumulativeBytesServed, cumulativeRewardsPaid>>

\* submitSettlement.  Note what the balance check is about: the pool's whole
\* balance, not the part of it that earlier settlements have left unallocated.
SubmitSettlement(sender, merkleRoot, providers, bytesServed, totalRewards) ==
  /\ sender = coordinator
  /\ providers # <<>>
  /\ Len(providers) = Len(bytesServed)
  /\ totalRewards # 0
  /\ balance[Pool] >= totalRewards
  /\ \A i \in DOMAIN providers : providers[i] # ZeroAddress
  /\ Fits(TotalBytes(bytesServed))
  /\ TotalBytes(bytesServed) # 0
  /\ Len(settlements) < MaxSettlements
  /\ \A i \in DOMAIN bytesServed : Fits(totalRewards * bytesServed[i])
  /\ \A p \in Address :
       Fits(cumulativeBytesServed[p] + BytesOf(providers, bytesServed, p))
  /\ settlements' = Append(settlements,
       [merkleRoot |-> merkleRoot, totalRewards |-> totalRewards,
        totalBytes |-> TotalBytes(bytesServed), providerCount |-> Len(providers)])
  /\ allocations' = Append(allocations, Allocated(providers, bytesServed, totalRewards))
  /\ claimed' = Append(claimed, {})
  /\ cumulativeBytesServed' =
       [p \in Address |-> cumulativeBytesServed[p] + BytesOf(providers, bytesServed, p)]
  /\ UNCHANGED <<balance, coordinator, cumulativeRewardsPaid, depositsByCid, received>>

----------------------------------------------------------------------------
\* A variant of claim without the _claimed flag.
ClaimAgain(sender, id) ==
  LET amount == allocations[id][sender] IN
  /\ amount # 0
  /\ CanPay(balance, Pool, amount)
  /\ cumulativeRewardsPaid' = [cumulativeRewardsPaid EXCEPT ![sender] = @ + amount]
  /\ Fits(cumulativeRewardsPaid[sender] + amount)
  /\ balance' = Moved(balance, Pool, sender, amount)
  /\ UNCHANGED <<coordinator, settlements, allocations, claimed,
                 cumulativeBytesServed, depositsByCid, received>>

\* A variant of claim that pays without adding to cumulativeRewardsPaid.
ClaimUnbooked(sender, id) ==
  LET amount == allocations[id][sender] IN
  /\ amount # 0
  /\ sender \notin claimed[id]
  /\ CanPay(balance, Pool, amount)
  /\ claimed' = [claimed EXCEPT ![id] = @ \cup {sender}]
  /\ balance' = Moved(balance, Pool, sender, amount)
  /\ UNCHANGED <<coordinator, settlements, allocations, cumulativeRewardsPaid,
                 cumulativeBytesServed, depositsByCid, received>>

\* claim(settlementId): pull the caller's allocation, once.
Claim(sender, id) ==
  LET amount == allocations[id][sender] IN
  /\ amount # 0
  /\ sender \notin claimed[id]
  /\ Fits(cumulativeRewardsPaid[sender] + amount)
  /\ CanPay(balance, Pool, amount)
  /\ claimed' = [claimed EXCEPT ![id] = @ \cup {sender}]
  /\ cumulativeRewardsPaid' = [cumulativeRewardsPaid EXCEPT ![sender] = @ + amount]
  /\ balance' = Moved(balance, Pool, sender, amount)
  /\ UNCHANGED <<coordinator, settlements, allocations,
                 cumulativeBytesServed, depositsByCid, received>>

\* A variant of setCoordinator without the zero-address check.
SetCoordinatorUnchecked(sender, newCoordinator) ==
  /\ sender = coordinator
  /\ coordinator' = newCoordinator
  /\ UNCHANGED <<balance, settlements, allocations, claimed, cumulativeBytesServed,
                 cumulativeRewardsPaid, depositsByCid, received>>

\* setCoordinator(newCoordinator)
SetCoordinator(sender, newCoordinator) ==
  /\ sender = coordinator
  /\ newCoordinator # ZeroAddress
  /\ coordinator' = newCoordinator
  /\ UNCHANGED <<balance, settlements, allocations, claimed, cumulativeBytesServed,
                 cumulativeRewardsPaid, depositsByCid, received>>

----------------------------------------------------------------------------
Next ==
  \E sender \in Address :
    \/ \E manifestCid \in Cid, amount \in Amount : Deposit(sender, manifestCid, amount)
    \/ \E amount \in Amount : TransferIn(sender, amount)
    \/ \E merkleRoot \in Root, providers \in Arrays(Address \cup {ZeroAddress}),
          bytesServed \in Arrays(ByteCount), totalRewards \in Amount :
         SubmitSettlement(sender, merkleRoot, providers, bytesServed, totalRewards)
    \/ \E id \in DOMAIN allocations : Claim(sender, id)
    \/ \E newCoordinator \in Address \cup {ZeroAddress} :
         SetCoordinator(sender, newCoordinator)

Spec == Init /\ [][Next]_vars

----------------------------------------------------------------------------
(***************************************************************************)
(* Properties                                                              *)
(***************************************************************************)

\* The three id-indexed mappings stay in step, the coordinator role is never
\* burned to address(0), and every quantity the contract stores is a natural.
TypeOK ==
  /\ balance \in [Account -> Nat]
  /\ coordinator \in Address
  /\ settlements \in Seq(Settlement)
  /\ allocations \in Seq([Address -> Nat])
  /\ claimed \in Seq(SUBSET Address)
  /\ Len(allocations) = Len(settlements)
  /\ Len(claimed) = Len(settlements)
  /\ cumulativeBytesServed \in [Address -> Nat]
  /\ cumulativeRewardsPaid \in [Address -> Nat]
  /\ depositsByCid \in [Cid -> Nat]
  /\ received \in Nat

\* What provider p may still pull from settlement id.
Unclaimed(id) ==
  [p \in Address |-> IF p \in claimed[id] THEN 0 ELSE allocations[id][p]]

\* Everything the pool still owes.
Outstanding ==
  Sum([id \in DOMAIN allocations |-> Sum(Unclaimed(id), Address)], DOMAIN allocations)

\* Everything it ever promised.
Committed ==
  Sum([id \in DOMAIN settlements |-> settlements[id].totalRewards], DOMAIN settlements)

\* Header invariant 1 of PersistencePool.sol: the allocations of a settlement
\* never add up to more than its totalRewards, whatever arrays the coordinator
\* passes (repeated providers, zero bytes, remainders).
AllocationsWithinRewards ==
  \A id \in DOMAIN settlements :
    Sum(allocations[id], Address) <= settlements[id].totalRewards

\* Header invariant 2: what a provider was ever paid is exactly the sum of the
\* allocations it has marked claimed, each counted once.
PaidOncePerClaim ==
  \A p \in Address :
    cumulativeRewardsPaid[p] =
      Sum([id \in DOMAIN allocations |->
             IF p \in claimed[id] THEN allocations[id][p] ELSE 0],
          DOMAIN allocations)

\* Header invariant 5: tokens leave the pool only as recorded reward payments.
PoolConservation ==
  balance[Pool] + Sum(cumulativeRewardsPaid, Address) = received

\* What was paid and what can still be claimed never exceed, together, what
\* the settlements promised: rounding and repeated providers only lose dust,
\* and a claim moves an amount from one side to the other.
PromisesBoundPayouts ==
  Outstanding + Sum(cumulativeRewardsPaid, Address) <= Committed

\* Header invariant 3, in the form in which it holds: as long as everything
\* ever promised is covered by what came in, every outstanding allocation can
\* be claimed, in any order and all together.
SolventIfCovered ==
  Committed <= received => Outstanding <= balance[Pool]

\* Header invariant 3 read settlement by settlement, the way submitSettlement
\* checks it: every settlement was covered by deposits when it was made, so no
\* claim should find the pool short.
EveryClaimPayable ==
  (\A id \in DOMAIN settlements : settlements[id].totalRewards <= received)
    => \A id \in DOMAIN allocations : \A p \in Address :
         Unclaimed(id)[p] <= balance[Pool]

\* A settlement, once recorded, is final: later transactions neither change
\* its record or its allocations nor withdraw a claim flag.
SettlementsFinal ==
  [][\A id \in DOMAIN settlements :
       /\ settlements'[id] = settlements[id]
       /\ allocations'[id] = allocations[id]
       /\ claimed[id] \subseteq claimed'[id]]_vars

\* The pool implements the reward ledger: what a provider is owed is the sum of
\* its unclaimed allocations, and every transaction of the contract is a
\* funding, an award covered by the balance, a payment, or invisible.
OwedTo(p) ==
  Sum([id \in DOMAIN allocations |-> Unclaimed(id)[p]], DOMAIN allocations)

Ledger == INSTANCE RewardLedger WITH
  Provider <- Address,
  funds    <- balance[Pool],
  owed     <- [p \in Address |-> OwedTo(p)],
  paid     <- cumulativeRewardsPaid

ImplementsRewardLedger == Ledger!LedgerSpec

\* What providers rely on: the pool behaves as the abstract ledger, and a
\* settlement does not change once submitted (PersistencePool.sol:170-250).
KeepsItsLedger == ImplementsRewardLedger /\ SettlementsFinal
============================================================================
