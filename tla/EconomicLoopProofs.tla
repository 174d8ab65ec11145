------------------------- MODULE EconomicLoopProofs -------------------------
(***************************************************************************)
(* Proofs about the path from bytes served to rewards.  PersistencePool,   *)
(* for every set of accounts, every initial distribution of tokens and     *)
(* every calldata the coordinator may pass.  Coordinator: nonces, the      *)
(* cursor and double settlement, for any number of receipts, failures,     *)
(* restarts, dropped and reverted transactions, and any configured         *)
(* InitialSince.  The loop: what the contract allocates and counts is what *)
(* the receipts say, for any number of providers, operators and receipts.  *)
(***************************************************************************)
EXTENDS EconomicLoop, SumTheorems

(***************************************************************************)
(* The contract: the allocations of one settlement.                        *)
(***************************************************************************)
\* The last occurrence of a provider in the array is one of its occurrences.
LEMMA LastPositionIn ==
  ASSUME NEW providers, NEW p, NEW n \in Nat, DOMAIN providers = 1..n,
         Positions(providers, p) # {}
  PROVE  LastPosition(providers, p) \in Positions(providers, p)
<1> DEFINE P == Positions(providers, p)
<1>1. P \subseteq 1..n
  BY DEF Positions
<1>2. \E i \in P : \A j \in P : j <= i
  <2>1. IsFiniteSet(1..n)
    BY FS_Interval
  <2>2. IsFiniteSet(P)
    BY <1>1, <2>1, FS_Subset
  <2>3. P \subseteq Int
    BY <1>1
  <2>4. P # {}
    OBVIOUS
  <2> HIDE DEF P
  <2> QED
    BY <2>2, <2>3, <2>4, FiniteMaximum
<1> QED
  BY <1>2 DEF LastPosition

(***************************************************************************)
(* The allocations of one settlement are natural numbers and add up to at  *)
(* most totalRewards, also when providers repeat in the array.  The proof  *)
(* scales both sides by totalBytes: over any set Q of providers the shares *)
(* weigh no more than the bytes the array attributes to Q.                 *)
(***************************************************************************)
LEMMA AllocatedBound ==
  ASSUME NEW n \in Nat,
         NEW providers \in [1..n -> Address \cup {ZeroAddress}],
         NEW bytesServed \in [1..n -> Nat],
         NEW T \in Nat,
         TotalBytes(bytesServed) # 0
  PROVE  /\ Allocated(providers, bytesServed, T) \in [Address -> Nat]
         /\ Sum(Allocated(providers, bytesServed, T), Address) <= T
<1> DEFINE B == TotalBytes(bytesServed)
           a == Allocated(providers, bytesServed, T)
           At(Q) == {i \in 1..n : providers[i] \in Q}
<1>1. IsFiniteSet(1..n) /\ IsFiniteSet(Address)
  BY FS_Interval, AddressAssumption
<1>2. B \in Nat /\ B # 0
  BY <1>1, SumNat DEF TotalBytes, Sum
<1>3. ASSUME NEW p \in Address
      PROVE  /\ a[p] \in Nat
             /\ a[p] * B <= T * SumFunctionOnSet(bytesServed, Positions(providers, p))
  <2> DEFINE S == SumFunctionOnSet(bytesServed, Positions(providers, p))
  <2>1. IsFiniteSet(Positions(providers, p)) /\ Positions(providers, p) \subseteq 1..n
    BY <1>1, FS_Subset DEF Positions
  <2>2. S \in Nat
    BY <2>1, SumNat
  <2>3. CASE Positions(providers, p) = {}
    <3>1. a[p] = 0
      BY <2>3 DEF Allocated
    <3> HIDE DEF a, B, S
    <3>2. a[p] * B = 0 /\ T * S \in Nat
      BY <1>2, <2>2, <3>1
    <3> QED
      BY <3>1, <3>2 DEF S
  <2>4. CASE Positions(providers, p) # {}
    <3> DEFINE k == LastPosition(providers, p)
    <3>1. k \in Positions(providers, p)
      BY <2>4, LastPositionIn
    <3>2. k \in 1..n /\ bytesServed[k] \in Nat
      BY <2>1, <3>1
    <3>3. a[p] = (T * bytesServed[k]) \div B
      BY <2>4 DEF Allocated, Share
    <3>4. bytesServed[k] <= S
      BY <2>1, <3>1, SumMember
    <3> HIDE DEF a, B, S, k
    <3>5. T * bytesServed[k] \in Nat /\ T * S \in Nat /\ T * bytesServed[k] <= T * S
      BY <2>2, <3>2, <3>4, ScaleMonotone
    <3>6. a[p] \in Nat /\ a[p] * B <= T * bytesServed[k]
      BY <1>2, <3>3, <3>5, DivisionRoundsDown
    <3>7. a[p] * B <= T * S
      <4>1. a[p] * B \in Nat
        BY <3>6, <1>2
      <4> QED
        BY <3>5, <3>6, <4>1
    <3> QED
      BY <3>6, <3>7 DEF S
  <2> QED
    BY <2>3, <2>4
<1>4. a \in [Address -> Nat]
  BY <1>3 DEF Allocated
<1> HIDE DEF a
<1> DEFINE G == {Q \in SUBSET Address :
                   SumFunctionOnSet(a, Q) * B <= T * SumFunctionOnSet(bytesServed, At(Q))}
<1>5. ASSUME NEW Q \in SUBSET Address, \A U \in SUBSET Q : U # Q => U \in G
      PROVE  Q \in G
  <2>1. IsFiniteSet(Q) /\ IsFiniteSet(At(Q))
    BY <1>1, FS_Subset
  <2>2. SumFunctionOnSet(bytesServed, At(Q)) \in Nat
    BY <2>1, SumNat
  <2>3. CASE Q = {}
    <3>1. SumFunctionOnSet(a, Q) = 0
      BY <2>3, SumEmpty
    <3> HIDE DEF B, At
    <3>2. SumFunctionOnSet(a, Q) * B = 0
      BY <1>2, <3>1
    <3>3. T * SumFunctionOnSet(bytesServed, At(Q)) \in Nat
      BY <2>2
    <3> QED
      BY <3>2, <3>3
  <2>4. CASE Q # {}
    <3>1. PICK c \in Q : TRUE
      BY <2>4
    <3> DEFINE R == Q \ {c}
               x == SumFunctionOnSet(a, R)
               u == SumFunctionOnSet(bytesServed, At(R))
               v == SumFunctionOnSet(bytesServed, Positions(providers, c))
    <3>2. IsFiniteSet(R) /\ IsFiniteSet(At(R)) /\ IsFiniteSet(Positions(providers, c))
      BY <1>1, <2>1, FS_Subset DEF Positions
    <3>3. At(Q) = At(R) \cup Positions(providers, c)
      BY <3>1 DEF Positions
    <3>4. At(R) \cap Positions(providers, c) = {}
      BY <3>1 DEF Positions
    <3>5. \A i \in At(R) \cup Positions(providers, c) : bytesServed[i] \in Nat
      BY DEF Positions
    <3>6. SumFunctionOnSet(bytesServed, At(R) \cup Positions(providers, c)) = u + v
      BY <3>2, <3>4, <3>5, SumDisjointUnion
    <3>7. u \in Nat /\ v \in Nat
      BY <3>2, <3>5, SumNat
    <3>8. SumFunctionOnSet(a, Q) = a[c] + x
      BY <1>4, <2>1, <3>1, SumRemove
    <3>9. x \in Nat /\ a[c] \in Nat
      BY <1>4, <3>1, <3>2, SumNat
    <3>10. x * B <= T * u
      BY <1>5, <3>1
    <3>11. a[c] * B <= T * v
      BY <1>3, <3>1
    <3> HIDE DEF B, x, u, v, R, At
    <3>12. SumFunctionOnSet(bytesServed, At(Q)) = u + v
      BY <3>3, <3>6
    <3>13. (a[c] + x) * B = a[c] * B + x * B /\ T * (u + v) = T * u + T * v
      BY <1>2, <3>7, <3>9, Distribute
    <3>14. (a[c] + x) * B <= T * (u + v)
      <4>1. /\ a[c] * B \in Nat /\ x * B \in Nat
            /\ T * u \in Nat /\ T * v \in Nat
        BY <1>2, <3>7, <3>9
      <4> QED
        BY <3>10, <3>11, <3>13, <4>1
    <3>15. SumFunctionOnSet(a, Q) * B <= T * SumFunctionOnSet(bytesServed, At(Q))
      BY <3>8, <3>12, <3>14
    <3> QED
      BY <3>15
  <2> QED
    BY <2>3, <2>4
<1> HIDE DEF G
<1>6. Address \in G
  BY <1>1, <1>5, FiniteSubsetInduction
<1>7. SumFunctionOnSet(a, Address) * B <= T * SumFunctionOnSet(bytesServed, At(Address))
  BY <1>6 DEF G
<1>8. SumFunctionOnSet(bytesServed, At(Address)) \in Nat
  <2>1. IsFiniteSet(At(Address))
    BY <1>1, FS_Subset
  <2> QED
    BY <2>1, SumNat
<1>9. SumFunctionOnSet(bytesServed, At(Address)) <= B
  BY <1>1, SumSubset DEF TotalBytes, Sum
<1>10. SumFunctionOnSet(a, Address) \in Nat
  BY <1>1, <1>4, SumNat
<1> HIDE DEF At, B
<1>11. T * SumFunctionOnSet(bytesServed, At(Address)) <= T * B
  BY <1>2, <1>8, <1>9, ScaleMonotone
<1>12. SumFunctionOnSet(a, Address) * B <= T * B
  <2>1. /\ SumFunctionOnSet(a, Address) * B \in Nat
        /\ T * SumFunctionOnSet(bytesServed, At(Address)) \in Nat
        /\ T * B \in Nat
    BY <1>2, <1>8, <1>10
  <2> QED
    BY <1>7, <1>11, <2>1
<1>13. SumFunctionOnSet(a, Address) <= T
  BY <1>2, <1>10, <1>12, CancelFactor
<1> QED
  BY <1>4, <1>13 DEF Sum, a

----------------------------------------------------------------------------
(***************************************************************************)
(* Type correctness.                                                       *)
(***************************************************************************)

\* What the calldata of a settlement that is not reverted looks like.
LEMMA CalldataShape ==
  ASSUME NEW providers \in Arrays(Address \cup {ZeroAddress}),
         NEW bytesServed \in Arrays(ByteCount),
         Len(providers) = Len(bytesServed)
  PROVE  \E n \in Nat : /\ providers \in [1..n -> Address \cup {ZeroAddress}]
                        /\ bytesServed \in [1..n -> Nat]
                        /\ Len(providers) = n
<1>1. PICK n \in 0..MaxProviders : providers \in [1..n -> Address \cup {ZeroAddress}]
  BY DEF Arrays
<1>2. PICK m \in 0..MaxProviders : bytesServed \in [1..m -> ByteCount]
  BY DEF Arrays
<1>3. n \in Nat /\ m \in Nat
  BY AmountAssumption
<1>4. Len(providers) = n /\ Len(bytesServed) = m
  BY <1>1, <1>2, <1>3
<1>5. bytesServed \in [1..n -> Nat]
  BY <1>2, <1>4, AmountAssumption
<1> QED
  BY <1>1, <1>3, <1>4, <1>5

LEMMA BytesOfNat ==
  ASSUME NEW n \in Nat,
         NEW providers \in [1..n -> Address \cup {ZeroAddress}],
         NEW bytesServed \in [1..n -> Nat]
  PROVE  /\ TotalBytes(bytesServed) \in Nat
         /\ \A p \in Address : BytesOf(providers, bytesServed, p) \in Nat
<1>1. IsFiniteSet(1..n)
  BY FS_Interval
<1>2. TotalBytes(bytesServed) \in Nat
  BY <1>1, SumNat DEF TotalBytes, Sum
<1>3. ASSUME NEW p \in Address PROVE BytesOf(providers, bytesServed, p) \in Nat
  <2>1. IsFiniteSet(Positions(providers, p)) /\ Positions(providers, p) \subseteq 1..n
    BY <1>1, FS_Subset DEF Positions
  <2> QED
    BY <2>1, SumNat DEF BytesOf, Sum
<1> QED
  BY <1>2, <1>3

\* A transfer between two distinct accounts keeps balances natural.
LEMMA MovedType ==
  ASSUME NEW bal \in [Account -> Nat], NEW from \in Account, NEW to \in Account,
         from # to, NEW amount \in Nat, CanPay(bal, from, amount)
  PROVE  /\ Moved(bal, from, to, amount) \in [Account -> Nat]
         /\ Moved(bal, from, to, amount)[from] = bal[from] - amount
         /\ Moved(bal, from, to, amount)[to] = bal[to] + amount
BY DEF Moved, CanPay

\* A settlement id that has allocations has a claim set too.
LEMMA ClaimableId ==
  ASSUME TypeOK, NEW id \in DOMAIN allocations
  PROVE  /\ allocations[id] \in [Address -> Nat]
         /\ \A p \in Address : allocations[id][p] \in Nat
         /\ id \in DOMAIN claimed
         /\ claimed[id] \in SUBSET Address
         /\ id \in DOMAIN settlements
         /\ settlements[id].totalRewards \in Nat
<1>1. allocations[id] \in [Address -> Nat] /\ DOMAIN allocations = 1..Len(allocations)
  BY SeqElement DEF TypeOK
<1>2. DOMAIN claimed = 1..Len(claimed) /\ DOMAIN settlements = 1..Len(settlements)
  BY DEF TypeOK
<1>3. DOMAIN claimed = DOMAIN allocations /\ DOMAIN settlements = DOMAIN allocations
  BY <1>1, <1>2 DEF TypeOK
<1>4. claimed[id] \in SUBSET Address
  <2>1. claimed \in Seq(SUBSET Address) /\ id \in DOMAIN claimed
    BY <1>3 DEF TypeOK
  <2> QED
    BY <2>1, SeqElement
<1>5. settlements[id] \in Settlement
  <2>1. settlements \in Seq(Settlement) /\ id \in DOMAIN settlements
    BY <1>3 DEF TypeOK
  <2> QED
    BY <2>1, SeqElement
<1> QED
  BY <1>1, <1>3, <1>4, <1>5 DEF Settlement

LEMMA TypeInit == Init => TypeOK
BY AddressAssumption, AmountAssumption DEF Init, TypeOK

LEMMA TypeStep == TypeOK /\ [Next]_vars => TypeOK'
<1> SUFFICES ASSUME TypeOK, [Next]_vars PROVE TypeOK'
  OBVIOUS
<1> USE AddressAssumption, AmountAssumption
<1>1. ASSUME NEW sender \in Address, NEW manifestCid \in Cid, NEW amount \in Amount,
             Deposit(sender, manifestCid, amount)
      PROVE  TypeOK'
  <2>1. balance' \in [Account -> Nat]
    BY <1>1, MovedType DEF Deposit, TypeOK, Account
  <2>2. depositsByCid' \in [Cid -> Nat] /\ received' \in Nat
    BY <1>1 DEF Deposit, TypeOK
  <2> QED
    BY <1>1, <2>1, <2>2 DEF Deposit, TypeOK, books
<1>2. ASSUME NEW sender \in Address, NEW amount \in Amount, TransferIn(sender, amount)
      PROVE  TypeOK'
  <2>1. balance' \in [Account -> Nat]
    BY <1>2, MovedType DEF TransferIn, TypeOK, Account
  <2> QED
    BY <1>2, <2>1 DEF TransferIn, TypeOK, books
<1>3. ASSUME NEW sender \in Address, NEW merkleRoot \in Root,
             NEW providers \in Arrays(Address \cup {ZeroAddress}),
             NEW bytesServed \in Arrays(ByteCount), NEW totalRewards \in Amount,
             SubmitSettlement(sender, merkleRoot, providers, bytesServed, totalRewards)
      PROVE  TypeOK'
  <2>1. PICK n \in Nat : /\ providers \in [1..n -> Address \cup {ZeroAddress}]
                         /\ bytesServed \in [1..n -> Nat]
                         /\ Len(providers) = n
    BY <1>3, CalldataShape DEF SubmitSettlement
  <2>2. TotalBytes(bytesServed) \in Nat
        /\ \A p \in Address : BytesOf(providers, bytesServed, p) \in Nat
    BY <2>1, BytesOfNat
  <2>3. Allocated(providers, bytesServed, totalRewards) \in [Address -> Nat]
    BY <1>3, <2>1, AllocatedBound DEF SubmitSettlement
  <2> DEFINE record == [merkleRoot |-> merkleRoot, totalRewards |-> totalRewards,
                        totalBytes |-> TotalBytes(bytesServed),
                        providerCount |-> Len(providers)]
  <2>4. settlements' \in Seq(Settlement) /\ Len(settlements') = Len(settlements) + 1
    <3>1. record \in Settlement
      BY <2>1, <2>2 DEF Settlement
    <3>2. settlements \in Seq(Settlement) /\ settlements' = Append(settlements, record)
      BY <1>3 DEF SubmitSettlement, TypeOK
    <3> HIDE DEF record
    <3> QED
      BY <3>1, <3>2, SeqAppend
  <2>5. allocations' \in Seq([Address -> Nat]) /\ Len(allocations') = Len(allocations) + 1
    <3>1. /\ allocations \in Seq([Address -> Nat])
          /\ allocations' = Append(allocations, Allocated(providers, bytesServed, totalRewards))
      BY <1>3 DEF SubmitSettlement, TypeOK
    <3> QED
      BY <2>3, <3>1, SeqAppend
  <2>6. claimed' \in Seq(SUBSET Address) /\ Len(claimed') = Len(claimed) + 1
    <3>1. claimed \in Seq(SUBSET Address) /\ claimed' = Append(claimed, {})
      BY <1>3 DEF SubmitSettlement, TypeOK
    <3>2. {} \in SUBSET Address
      OBVIOUS
    <3> QED
      BY <3>1, <3>2, SeqAppend
  <2>7. cumulativeBytesServed' \in [Address -> Nat]
    <3>1. /\ cumulativeBytesServed \in [Address -> Nat]
          /\ cumulativeBytesServed' = [p \in Address |->
               cumulativeBytesServed[p] + BytesOf(providers, bytesServed, p)]
      BY <1>3 DEF SubmitSettlement, TypeOK
    <3>2. ASSUME NEW p \in Address
          PROVE  cumulativeBytesServed[p] + BytesOf(providers, bytesServed, p) \in Nat
      BY <2>2, <3>1
    <3> QED
      BY <3>1, <3>2
  <2> QED
    BY <1>3, <2>4, <2>5, <2>6, <2>7 DEF SubmitSettlement, TypeOK
<1>4. ASSUME NEW sender \in Address, NEW id \in DOMAIN allocations, Claim(sender, id)
      PROVE  TypeOK'
  <2>1. allocations[id][sender] \in Nat /\ id \in DOMAIN claimed /\ claimed[id] \in SUBSET Address
    BY ClaimableId
  <2>2. balance' \in [Account -> Nat]
    BY <1>4, <2>1, MovedType DEF Claim, TypeOK, Account
  <2>3. claimed' \in Seq(SUBSET Address) /\ Len(claimed') = Len(claimed)
    <3>1. /\ claimed \in Seq(SUBSET Address)
          /\ claimed' = [claimed EXCEPT ![id] = claimed[id] \cup {sender}]
      BY <1>4 DEF Claim, TypeOK
    <3>2. claimed[id] \cup {sender} \in SUBSET Address
      BY <2>1
    <3> QED
      BY <2>1, <3>1, <3>2, SeqUpdate
  <2>4. cumulativeRewardsPaid' \in [Address -> Nat]
    <3>1. cumulativeRewardsPaid' = [cumulativeRewardsPaid EXCEPT
                                      ![sender] = @ + allocations[id][sender]]
      BY <1>4 DEF Claim
    <3>2. cumulativeRewardsPaid \in [Address -> Nat]
      BY DEF TypeOK
    <3>3. cumulativeRewardsPaid[sender] + allocations[id][sender] \in Nat
      BY <2>1, <3>2
    <3> QED
      BY <3>1, <3>2, <3>3
  <2> QED
    BY <1>4, <2>2, <2>3, <2>4 DEF Claim, TypeOK
<1>5. ASSUME NEW sender \in Address, NEW newCoordinator \in Address \cup {ZeroAddress},
             SetCoordinator(sender, newCoordinator)
      PROVE  TypeOK'
  BY <1>5 DEF SetCoordinator, TypeOK
<1>6. CASE UNCHANGED vars
  BY <1>6 DEF vars, TypeOK
<1> QED
  BY <1>1, <1>2, <1>3, <1>4, <1>5, <1>6 DEF Next

(***************************************************************************)
(* The books of the pool are always well formed: the id-indexed mappings   *)
(* have the same length, the coordinator role is held by a real address,   *)
(* balances and counters never go below zero (PersistencePool.sol).        *)
(***************************************************************************)
THEOREM TypeCorrect == Spec => []TypeOK
<1>1. Init => TypeOK
  BY TypeInit
<1>2. TypeOK /\ [Next]_vars => TypeOK'
  BY TypeStep
<1> QED
  BY <1>1, <1>2, PTL DEF Spec

----------------------------------------------------------------------------
(***************************************************************************)
(* The outstanding allocations as a function of the two mappings, and how  *)
(* a settlement and a claim change them.                                   *)
(***************************************************************************)
OpenOf(al, cl, id) == [p \in Address |-> IF p \in cl[id] THEN 0 ELSE al[id][p]]

OpenTotals(al, cl) ==
  [id \in DOMAIN al |-> SumFunctionOnSet(OpenOf(al, cl, id), Address)]

OpenSum(al, cl) == SumFunctionOnSet(OpenTotals(al, cl), DOMAIN al)

LEMMA OutstandingIsOpenSum == Outstanding = OpenSum(allocations, claimed)
BY DEF Outstanding, Unclaimed, OpenSum, OpenTotals, OpenOf, Sum

LEMMA OpenNat ==
  ASSUME NEW al \in Seq([Address -> Nat]), NEW cl
  PROVE  /\ IsFiniteSet(DOMAIN al)
         /\ \A id \in DOMAIN al : OpenOf(al, cl, id) \in [Address -> Nat]
         /\ \A id \in DOMAIN al : OpenTotals(al, cl)[id] \in Nat
         /\ OpenSum(al, cl) \in Nat
<1>1. IsFiniteSet(DOMAIN al)
  <2>1. DOMAIN al = 1..Len(al) /\ Len(al) \in Nat
    OBVIOUS
  <2> QED
    BY <2>1, FS_Interval
<1>2. ASSUME NEW id \in DOMAIN al
      PROVE  OpenOf(al, cl, id) \in [Address -> Nat] /\ OpenTotals(al, cl)[id] \in Nat
  <2>1. al[id] \in [Address -> Nat]
    BY SeqElement
  <2>2. OpenOf(al, cl, id) \in [Address -> Nat]
    BY <2>1 DEF OpenOf
  <2>3. SumFunctionOnSet(OpenOf(al, cl, id), Address) \in Nat
    BY <2>2, AddressAssumption, SumNat
  <2> QED
    BY <2>2, <2>3 DEF OpenTotals
<1>3. OpenSum(al, cl) \in Nat
  BY <1>1, <1>2, SumNat DEF OpenSum
<1> QED
  BY <1>1, <1>2, <1>3

LEMMA OpenAfterSettlement ==
  ASSUME NEW al \in Seq([Address -> Nat]), NEW cl \in Seq(SUBSET Address),
         Len(cl) = Len(al), NEW a \in [Address -> Nat]
  PROVE  OpenSum(Append(al, a), Append(cl, {})) = OpenSum(al, cl) + SumFunctionOnSet(a, Address)
<1> DEFINE al2 == Append(al, a)
           cl2 == Append(cl, {})
           k == Len(al) + 1
           f == OpenTotals(al2, cl2)
           g == OpenTotals(al, cl)
           D == DOMAIN al
<1>1. /\ al2 \in Seq([Address -> Nat])
      /\ DOMAIN al2 = D \cup {k}
      /\ k \notin D
      /\ \A i \in D : al2[i] = al[i]
      /\ al2[k] = a
  BY SeqAppend
<1>2. {} \in SUBSET Address
  OBVIOUS
<1>3. (\A i \in DOMAIN cl : cl2[i] = cl[i]) /\ cl2[k] = {}
  BY <1>2, SeqAppend
<1>4. DOMAIN cl = D
  OBVIOUS
<1>5. /\ IsFiniteSet(D)
      /\ \A id \in D : g[id] \in Nat
      /\ \A id \in D \cup {k} : f[id] \in Nat
  BY <1>1, OpenNat
<1>6. ASSUME NEW id \in D PROVE f[id] = g[id]
  <2>1. OpenOf(al2, cl2, id) = OpenOf(al, cl, id)
    BY <1>1, <1>3, <1>4 DEF OpenOf
  <2> QED
    BY <1>1, <2>1 DEF OpenTotals
<1>7. f[k] = SumFunctionOnSet(a, Address)
  <2>1. OpenOf(al2, cl2, k) = [p \in Address |-> a[p]]
    BY <1>1, <1>3 DEF OpenOf
  <2>2. [p \in Address |-> a[p]] = a
    OBVIOUS
  <2> QED
    BY <1>1, <2>1, <2>2 DEF OpenTotals
<1> HIDE DEF al2, cl2, k, f, g, D
<1>8. SumFunctionOnSet(f, D \cup {k}) = SumFunctionOnSet(f, D) + f[k]
  BY <1>1, <1>5, SumAdd
<1>9. SumFunctionOnSet(f, D) = SumFunctionOnSet(g, D)
  BY <1>5, <1>6, SumSame
<1>10. OpenSum(al2, cl2) = SumFunctionOnSet(g, D) + SumFunctionOnSet(a, Address)
  BY <1>1, <1>7, <1>8, <1>9 DEF OpenSum, f
<1> QED
  BY <1>10 DEF OpenSum, g, D, al2, cl2

LEMMA OpenAfterClaim ==
  ASSUME NEW al \in Seq([Address -> Nat]), NEW cl \in Seq(SUBSET Address),
         Len(cl) = Len(al), NEW id \in DOMAIN al, NEW p \in Address, p \notin cl[id]
  PROVE  OpenSum(al, [cl EXCEPT ![id] = @ \cup {p}]) = OpenSum(al, cl) - al[id][p]
<1> DEFINE cl2 == [cl EXCEPT ![id] = @ \cup {p}]
           u == OpenOf(al, cl, id)
           v == OpenOf(al, cl2, id)
           f == OpenTotals(al, cl)
           g == OpenTotals(al, cl2)
<1>1. DOMAIN cl = DOMAIN al
  OBVIOUS
<1>2. cl2[id] = cl[id] \cup {p} /\ \A j \in DOMAIN al \ {id} : cl2[j] = cl[j]
  BY <1>1
<1>3. al[id] \in [Address -> Nat]
  BY SeqElement
<1>4. /\ IsFiniteSet(DOMAIN al)
      /\ u \in [Address -> Nat] /\ v \in [Address -> Nat]
      /\ \A j \in DOMAIN al : f[j] \in Nat /\ g[j] \in Nat
      /\ OpenSum(al, cl) \in Nat
  BY OpenNat
<1>5. u[p] = al[id][p] /\ v[p] = 0 /\ \A q \in Address \ {p} : v[q] = u[q]
  BY <1>2 DEF OpenOf
<1>6. \A j \in DOMAIN al \ {id} : g[j] = f[j]
  <2>1. SUFFICES ASSUME NEW j \in DOMAIN al \ {id} PROVE g[j] = f[j]
    OBVIOUS
  <2>2. OpenOf(al, cl2, j) = OpenOf(al, cl, j)
    BY <1>2 DEF OpenOf
  <2> QED
    BY <2>2 DEF OpenTotals
<1>7. f[id] = SumFunctionOnSet(u, Address) /\ g[id] = SumFunctionOnSet(v, Address)
  BY DEF OpenTotals
<1>8. OpenSum(al, cl) = SumFunctionOnSet(f, DOMAIN al)
      /\ OpenSum(al, cl2) = SumFunctionOnSet(g, DOMAIN al)
  BY DEF OpenSum
<1> HIDE DEF u, v, f, g
<1>9. PICK r \in Nat : /\ SumFunctionOnSet(u, Address) = u[p] + r
                       /\ SumFunctionOnSet(v, Address) = v[p] + r
  <2>1. IsFiniteSet(Address)
    BY AddressAssumption
  <2>2. \A x \in Address : u[x] \in Nat /\ v[x] \in Nat
    BY <1>4
  <2>3. \A x \in Address \ {p} : u[x] \in Nat /\ u[x] = v[x]
    BY <1>5, <2>2
  <2>4. SumFunctionOnSet(u, Address) = u[p] + SumFunctionOnSet(u, Address \ {p})
    BY <2>1, <2>2, SumRemove
  <2>5. SumFunctionOnSet(v, Address) = v[p] + SumFunctionOnSet(v, Address \ {p})
    BY <2>1, <2>2, SumRemove
  <2>6. IsFiniteSet(Address \ {p})
    BY <2>1, FS_Subset
  <2>7. SumFunctionOnSet(u, Address \ {p}) = SumFunctionOnSet(v, Address \ {p})
    BY <2>3, <2>6, SumSame
  <2>8. SumFunctionOnSet(u, Address \ {p}) \in Nat
    BY <2>3, <2>6, SumNat
  <2> QED
    BY <2>4, <2>5, <2>7, <2>8
<1>10. PICK t \in Nat : /\ SumFunctionOnSet(f, DOMAIN al) = f[id] + t
                        /\ SumFunctionOnSet(g, DOMAIN al) = g[id] + t
  <2>1. \A x \in DOMAIN al : f[x] \in Nat /\ g[x] \in Nat
    BY <1>4
  <2>2. \A x \in DOMAIN al \ {id} : f[x] \in Nat /\ f[x] = g[x]
    BY <1>4, <1>6
  <2>3. SumFunctionOnSet(f, DOMAIN al) = f[id] + SumFunctionOnSet(f, DOMAIN al \ {id})
    BY <1>4, <2>1, SumRemove
  <2>4. SumFunctionOnSet(g, DOMAIN al) = g[id] + SumFunctionOnSet(g, DOMAIN al \ {id})
    BY <1>4, <2>1, SumRemove
  <2>5. IsFiniteSet(DOMAIN al \ {id})
    BY <1>4, FS_Subset
  <2>6. SumFunctionOnSet(f, DOMAIN al \ {id}) = SumFunctionOnSet(g, DOMAIN al \ {id})
    BY <2>2, <2>5, SumSame
  <2>7. SumFunctionOnSet(f, DOMAIN al \ {id}) \in Nat
    BY <2>2, <2>5, SumNat
  <2> QED
    BY <2>3, <2>4, <2>6, <2>7
<1>11. al[id][p] \in Nat /\ f[id] \in Nat /\ g[id] \in Nat
  BY <1>3, <1>4
<1>12. f[id] = g[id] + al[id][p]
  BY <1>5, <1>7, <1>9, <1>11
<1>13. OpenSum(al, cl) = f[id] + t /\ OpenSum(al, cl2) = g[id] + t
  BY <1>8, <1>10
<1> HIDE DEF cl2
<1>14. OpenSum(al, cl2) = OpenSum(al, cl) - al[id][p]
  BY <1>10, <1>11, <1>12, <1>13
<1> QED
  BY <1>14 DEF cl2

(***************************************************************************)
(* The same two facts for the state: what a settlement adds to the promise *)
(* and to the outstanding amount, and what a claim moves.                  *)
(***************************************************************************)
LEMMA SettlementEffect ==
  ASSUME TypeOK, NEW sender, NEW merkleRoot \in Root,
         NEW providers \in Arrays(Address \cup {ZeroAddress}),
         NEW bytesServed \in Arrays(ByteCount), NEW totalRewards \in Amount,
         SubmitSettlement(sender, merkleRoot, providers, bytesServed, totalRewards)
  PROVE  \E awarded \in Nat :
           /\ awarded <= totalRewards
           /\ awarded = SumFunctionOnSet(Allocated(providers, bytesServed, totalRewards), Address)
           /\ Outstanding' = Outstanding + awarded
           /\ Committed' = Committed + totalRewards
           /\ Committed \in Nat
           /\ Outstanding \in Nat
<1> DEFINE a == Allocated(providers, bytesServed, totalRewards)
           rewards(s) == [id \in DOMAIN s |-> s[id].totalRewards]
           record == [merkleRoot |-> merkleRoot, totalRewards |-> totalRewards,
                      totalBytes |-> TotalBytes(bytesServed),
                      providerCount |-> Len(providers)]
<1>1. PICK n \in Nat : /\ providers \in [1..n -> Address \cup {ZeroAddress}]
                       /\ bytesServed \in [1..n -> Nat]
                       /\ Len(providers) = n
  BY CalldataShape DEF SubmitSettlement
<1>2. totalRewards \in Nat
  BY AmountAssumption
<1>3. a \in [Address -> Nat] /\ SumFunctionOnSet(a, Address) <= totalRewards
  BY <1>1, <1>2, AllocatedBound DEF SubmitSettlement, Sum
<1>4. SumFunctionOnSet(a, Address) \in Nat
  BY <1>3, AddressAssumption, SumNat
<1>5. /\ allocations \in Seq([Address -> Nat]) /\ claimed \in Seq(SUBSET Address)
      /\ Len(claimed) = Len(allocations)
      /\ allocations' = Append(allocations, a) /\ claimed' = Append(claimed, {})
  BY DEF SubmitSettlement, TypeOK
<1>6. Outstanding' = OpenSum(allocations', claimed')
  BY DEF Outstanding, Unclaimed, OpenSum, OpenTotals, OpenOf, Sum
<1> HIDE DEF a
<1>7. Outstanding' = Outstanding + SumFunctionOnSet(a, Address)
  BY <1>3, <1>5, <1>6, OpenAfterSettlement, OutstandingIsOpenSum
<1>8. Outstanding \in Nat
  BY <1>5, OpenNat, OutstandingIsOpenSum
<1>9. Committed \in Nat /\ Committed' = Committed + totalRewards
  <2> DEFINE k == Len(settlements) + 1
             D == DOMAIN settlements
             f == rewards(settlements')
             g == rewards(settlements)
  <2>1. TotalBytes(bytesServed) \in Nat
    BY <1>1, BytesOfNat
  <2>2. record \in Settlement
    BY <1>1, <1>2, <2>1 DEF Settlement
  <2>3. settlements \in Seq(Settlement) /\ settlements' = Append(settlements, record)
    BY DEF SubmitSettlement, TypeOK
  <2>4. record.totalRewards = totalRewards
    OBVIOUS
  <2> HIDE DEF record
  <2>5. /\ DOMAIN settlements' = D \cup {k}
        /\ k \notin D
        /\ IsFiniteSet(D)
        /\ \A i \in D : settlements'[i] = settlements[i]
        /\ settlements'[k] = record
    BY <2>2, <2>3, SeqAppend
  <2>6. \A i \in D : settlements[i].totalRewards \in Nat
    <3>1. \A i \in D : settlements[i] \in Settlement
      BY <2>3, SeqElement
    <3> QED
      BY <3>1 DEF Settlement
  <2>7. \A i \in D : g[i] \in Nat /\ g[i] = f[i]
    BY <2>5, <2>6
  <2>8. f[k] = totalRewards
    BY <2>4, <2>5
  <2>9. \A i \in D \cup {k} : f[i] \in Nat
    BY <1>2, <2>7, <2>8
  <2>10. Committed = SumFunctionOnSet(g, D) /\ Committed' = SumFunctionOnSet(f, D \cup {k})
    <3>1. Committed = SumFunctionOnSet(g, D)
      BY DEF Committed, Sum
    <3>2. Committed' = SumFunctionOnSet(f, DOMAIN settlements')
      BY DEF Committed, Sum
    <3> QED
      BY <3>1, <3>2, <2>5
  <2> HIDE DEF f, g, D, k
  <2>11. SumFunctionOnSet(f, D \cup {k}) = SumFunctionOnSet(f, D) + f[k]
    BY <2>5, <2>9, SumAdd
  <2>12. SumFunctionOnSet(g, D) = SumFunctionOnSet(f, D)
    BY <2>5, <2>7, SumSame
  <2>13. SumFunctionOnSet(g, D) \in Nat
    BY <2>5, <2>7, SumNat
  <2> QED
    BY <2>8, <2>10, <2>11, <2>12, <2>13
<1> QED
  BY <1>3, <1>4, <1>7, <1>8, <1>9 DEF a

LEMMA ClaimEffect ==
  ASSUME TypeOK, NEW sender \in Address, NEW id \in DOMAIN allocations, Claim(sender, id)
  PROVE  \E amount \in Nat :
           /\ amount = allocations[id][sender]
           /\ Outstanding' = Outstanding - amount
           /\ Outstanding \in Nat
           /\ balance'[Pool] = balance[Pool] - amount
           /\ Sum(cumulativeRewardsPaid, Address)' = Sum(cumulativeRewardsPaid, Address) + amount
           /\ Sum(cumulativeRewardsPaid, Address) \in Nat
<1> DEFINE amount == allocations[id][sender]
           f == cumulativeRewardsPaid
           g == cumulativeRewardsPaid'
<1>1. amount \in Nat /\ id \in DOMAIN claimed
  BY ClaimableId
<1>2. balance'[Pool] = balance[Pool] - amount
  <2>1. /\ balance \in [Account -> Nat]
        /\ CanPay(balance, Pool, amount)
        /\ balance' = Moved(balance, Pool, sender, amount)
    BY DEF Claim, TypeOK
  <2>2. Pool \in Account /\ sender \in Account /\ Pool # sender
    BY AddressAssumption DEF Account
  <2> HIDE DEF amount
  <2> QED
    BY <1>1, <2>1, <2>2, MovedType
<1>3. /\ allocations \in Seq([Address -> Nat]) /\ claimed \in Seq(SUBSET Address)
      /\ Len(claimed) = Len(allocations)
      /\ sender \notin claimed[id]
      /\ allocations' = allocations
      /\ claimed' = [claimed EXCEPT ![id] = @ \cup {sender}]
  BY DEF Claim, TypeOK
<1>4. Outstanding' = OpenSum(allocations', claimed')
  BY DEF Outstanding, Unclaimed, OpenSum, OpenTotals, OpenOf, Sum
<1>5. Outstanding' = Outstanding - amount
  BY <1>3, <1>4, OpenAfterClaim, OutstandingIsOpenSum
<1>6. Outstanding \in Nat
  BY <1>3, OpenNat, OutstandingIsOpenSum
<1>7. f \in [Address -> Nat] /\ g = [f EXCEPT ![sender] = @ + amount]
  BY DEF Claim, TypeOK
<1>8. IsFiniteSet(Address) /\ IsFiniteSet(Address \ {sender})
  BY AddressAssumption, FS_Subset
<1>9. /\ \A x \in Address : f[x] \in Nat /\ g[x] \in Nat
      /\ \A x \in Address \ {sender} : f[x] = g[x]
      /\ g[sender] = f[sender] + amount
  BY <1>1, <1>7
<1> HIDE DEF f, g, amount
<1>10. SumFunctionOnSet(f, Address) = f[sender] + SumFunctionOnSet(f, Address \ {sender})
  BY <1>8, <1>9, SumRemove
<1>11. SumFunctionOnSet(g, Address) = g[sender] + SumFunctionOnSet(g, Address \ {sender})
  BY <1>8, <1>9, SumRemove
<1>12. SumFunctionOnSet(f, Address \ {sender}) = SumFunctionOnSet(g, Address \ {sender})
  BY <1>8, <1>9, SumSame
<1>13. SumFunctionOnSet(f, Address \ {sender}) \in Nat /\ SumFunctionOnSet(f, Address) \in Nat
  BY <1>8, <1>9, SumNat
<1>14. SumFunctionOnSet(g, Address) = SumFunctionOnSet(f, Address) + amount
  BY <1>1, <1>9, <1>10, <1>11, <1>12, <1>13
<1> QED
  BY <1>1, <1>2, <1>5, <1>6, <1>13, <1>14 DEF Sum, f, g, amount

----------------------------------------------------------------------------
(***************************************************************************)
(* The inductive invariant.  AllocationsWithinRewards is what a settlement *)
(* step contributes to PromisesBoundPayouts; conservation and the promise  *)
(* bound together give solvency.                                           *)
(***************************************************************************)
LedgerInv ==
  /\ TypeOK
  /\ AllocationsWithinRewards
  /\ PoolConservation
  /\ PromisesBoundPayouts

LEMMA LedgerInit == Init => LedgerInv
<1> SUFFICES ASSUME Init PROVE LedgerInv
  OBVIOUS
<1>1. TypeOK
  BY TypeInit
<1>2. IsFiniteSet(Address)
  BY AddressAssumption
<1>3. Sum(cumulativeRewardsPaid, Address) = 0
  BY <1>2, SumZero DEF Init, Sum
<1>4. DOMAIN allocations = {} /\ DOMAIN settlements = {}
  BY DEF Init
<1>5. Outstanding = 0 /\ Committed = 0
  BY <1>4, SumEmpty DEF Outstanding, Committed, Sum
<1>6. balance[Pool] = 0 /\ received = 0
  BY AmountAssumption DEF Init
<1> QED
  BY <1>1, <1>3, <1>4, <1>5, <1>6
  DEF LedgerInv, AllocationsWithinRewards, PoolConservation, PromisesBoundPayouts

\* Steps that touch neither settlements nor payouts keep the three sums.
LEMMA SameBooks ==
  ASSUME UNCHANGED <<settlements, allocations, claimed, cumulativeRewardsPaid>>
  PROVE  /\ Outstanding' = Outstanding
         /\ Committed' = Committed
         /\ Sum(cumulativeRewardsPaid, Address)' = Sum(cumulativeRewardsPaid, Address)
         /\ AllocationsWithinRewards' = AllocationsWithinRewards
BY DEF Outstanding, Committed, Unclaimed, AllocationsWithinRewards, Sum

\* Money coming in raises the balance and the inflow alike.
LEMMA FundingStep ==
  ASSUME LedgerInv, NEW sender \in Address, NEW amount \in Amount,
         amount # 0, CanPay(balance, sender, amount),
         balance' = Moved(balance, sender, Pool, amount),
         received' = received + amount,
         UNCHANGED books
  PROVE  (AllocationsWithinRewards /\ PoolConservation /\ PromisesBoundPayouts)'
<1>1. UNCHANGED <<settlements, allocations, claimed, cumulativeRewardsPaid>>
  BY DEF books
<1>2. amount \in Nat /\ balance \in [Account -> Nat] /\ received \in Nat
  BY AmountAssumption DEF LedgerInv, TypeOK
<1>3. Pool \in Account /\ sender \in Account /\ sender # Pool
  BY AddressAssumption DEF Account
<1>4. balance'[Pool] = balance[Pool] + amount
  BY <1>2, <1>3, MovedType
<1>5. balance[Pool] \in Nat
  BY <1>2, <1>3
<1>6. Sum(cumulativeRewardsPaid, Address) \in Nat
  BY AddressAssumption, SumNat DEF LedgerInv, TypeOK, Sum
<1>7. /\ Outstanding' = Outstanding
      /\ Committed' = Committed
      /\ Sum(cumulativeRewardsPaid, Address)' = Sum(cumulativeRewardsPaid, Address)
      /\ AllocationsWithinRewards' = AllocationsWithinRewards
  BY <1>1, SameBooks
<1>8. AllocationsWithinRewards' /\ PromisesBoundPayouts'
  BY <1>7 DEF LedgerInv, PromisesBoundPayouts
<1>9. PoolConservation'
  BY <1>2, <1>4, <1>5, <1>6, <1>7 DEF LedgerInv, PoolConservation
<1> QED
  BY <1>8, <1>9

LEMMA LedgerStep == LedgerInv /\ [Next]_vars => LedgerInv'
<1> SUFFICES ASSUME LedgerInv, [Next]_vars PROVE LedgerInv'
  OBVIOUS
<1>1. TypeOK /\ TypeOK'
  BY TypeStep DEF LedgerInv
<1> SUFFICES (AllocationsWithinRewards /\ PoolConservation /\ PromisesBoundPayouts)'
  BY <1>1 DEF LedgerInv
<1>2. ASSUME NEW sender \in Address, NEW manifestCid \in Cid, NEW amount \in Amount,
             Deposit(sender, manifestCid, amount)
      PROVE  (AllocationsWithinRewards /\ PoolConservation /\ PromisesBoundPayouts)'
  BY <1>2, FundingStep DEF Deposit
<1>3. ASSUME NEW sender \in Address, NEW amount \in Amount, TransferIn(sender, amount)
      PROVE  (AllocationsWithinRewards /\ PoolConservation /\ PromisesBoundPayouts)'
  BY <1>3, FundingStep DEF TransferIn
<1>4. ASSUME NEW sender \in Address, NEW merkleRoot \in Root,
             NEW providers \in Arrays(Address \cup {ZeroAddress}),
             NEW bytesServed \in Arrays(ByteCount), NEW totalRewards \in Amount,
             SubmitSettlement(sender, merkleRoot, providers, bytesServed, totalRewards)
      PROVE  (AllocationsWithinRewards /\ PoolConservation /\ PromisesBoundPayouts)'
  <2> DEFINE a == Allocated(providers, bytesServed, totalRewards)
             record == [merkleRoot |-> merkleRoot, totalRewards |-> totalRewards,
                        totalBytes |-> TotalBytes(bytesServed),
                        providerCount |-> Len(providers)]
  <2>1. PICK awarded \in Nat :
           /\ awarded <= totalRewards
           /\ awarded = SumFunctionOnSet(a, Address)
           /\ Outstanding' = Outstanding + awarded
           /\ Committed' = Committed + totalRewards
           /\ Committed \in Nat
           /\ Outstanding \in Nat
    BY <1>1, <1>4, SettlementEffect
  <2>2. UNCHANGED <<balance, cumulativeRewardsPaid, received>>
    BY <1>4 DEF SubmitSettlement
  <2>3. Sum(cumulativeRewardsPaid, Address)' = Sum(cumulativeRewardsPaid, Address)
    BY <2>2 DEF Sum
  <2>4. PoolConservation'
    BY <2>2, <2>3 DEF LedgerInv, PoolConservation
  <2>5. Sum(cumulativeRewardsPaid, Address) \in Nat
    BY <1>1, AddressAssumption, SumNat DEF TypeOK, Sum
  <2>6. totalRewards \in Nat
    BY AmountAssumption
  <2>7. PromisesBoundPayouts'
    BY <2>1, <2>3, <2>5, <2>6 DEF LedgerInv, PromisesBoundPayouts
  <2>8. AllocationsWithinRewards'
    <3> DEFINE k == Len(settlements) + 1
    <3>1. /\ settlements' = Append(settlements, record)
          /\ allocations' = Append(allocations, a)
          /\ settlements \in Seq(Settlement)
          /\ allocations \in Seq([Address -> Nat])
          /\ Len(allocations) = Len(settlements)
          /\ settlements' \in Seq(Settlement)
          /\ Len(settlements') = Len(settlements) + 1
      <4>1. Len(allocations') = Len(allocations) + 1
        BY <1>1, <1>4 DEF SubmitSettlement, TypeOK
      <4> QED
        BY <1>1, <1>4, <4>1 DEF SubmitSettlement, TypeOK
    <3>2. record.totalRewards = totalRewards
      OBVIOUS
    <3> HIDE DEF record, a
    <3>3. ASSUME NEW i \in DOMAIN settlements'
          PROVE  SumFunctionOnSet(allocations'[i], Address) <= settlements'[i].totalRewards
      <4>1. CASE i = k
        <5>1. settlements'[i] = record /\ allocations'[i] = a
          BY <3>1, <4>1
        <5> QED
          BY <2>1, <3>2, <5>1
      <4>2. CASE i # k
        <5>1. i \in DOMAIN settlements
          BY <3>1, <4>2
        <5>2. settlements'[i] = settlements[i] /\ allocations'[i] = allocations[i]
          BY <3>1, <5>1
        <5> QED
          BY <5>1, <5>2 DEF LedgerInv, AllocationsWithinRewards, Sum
      <4> QED
        BY <4>1, <4>2
    <3> QED
      BY <3>3 DEF AllocationsWithinRewards, Sum
  <2> QED
    BY <2>4, <2>7, <2>8
<1>5. ASSUME NEW sender \in Address, NEW id \in DOMAIN allocations, Claim(sender, id)
      PROVE  (AllocationsWithinRewards /\ PoolConservation /\ PromisesBoundPayouts)'
  <2>1. PICK amount \in Nat :
           /\ amount = allocations[id][sender]
           /\ Outstanding' = Outstanding - amount
           /\ Outstanding \in Nat
           /\ balance'[Pool] = balance[Pool] - amount
           /\ Sum(cumulativeRewardsPaid, Address)' = Sum(cumulativeRewardsPaid, Address) + amount
           /\ Sum(cumulativeRewardsPaid, Address) \in Nat
    BY <1>1, <1>5, ClaimEffect
  <2>2. UNCHANGED <<settlements, allocations, received>>
    BY <1>5 DEF Claim
  <2>3. AllocationsWithinRewards'
    BY <2>2 DEF LedgerInv, AllocationsWithinRewards, Sum
  <2>4. Committed' = Committed
    BY <2>2 DEF Committed, Sum
  <2>5. PromisesBoundPayouts'
    BY <2>1, <2>4 DEF LedgerInv, PromisesBoundPayouts
  <2>6. balance[Pool] \in Nat /\ received \in Nat
    BY <1>1 DEF TypeOK, Account
  <2>7. PoolConservation'
    BY <2>1, <2>2, <2>6 DEF LedgerInv, PoolConservation
  <2> QED
    BY <2>3, <2>5, <2>7
<1>6. ASSUME NEW sender \in Address, NEW newCoordinator \in Address \cup {ZeroAddress},
             SetCoordinator(sender, newCoordinator)
      PROVE  (AllocationsWithinRewards /\ PoolConservation /\ PromisesBoundPayouts)'
  BY <1>6, SameBooks DEF SetCoordinator, LedgerInv, PoolConservation, PromisesBoundPayouts
<1>7. CASE UNCHANGED vars
  BY <1>7, SameBooks DEF vars, LedgerInv, PoolConservation, PromisesBoundPayouts
<1> QED
  BY <1>2, <1>3, <1>4, <1>5, <1>6, <1>7 DEF Next

LEMMA LedgerInvariant == Spec => []LedgerInv
<1>1. Init => LedgerInv
  BY LedgerInit
<1>2. LedgerInv /\ [Next]_vars => LedgerInv'
  BY LedgerStep
<1> QED
  BY <1>1, <1>2, PTL DEF Spec

(***************************************************************************)
(* Header invariant 1 of PersistencePool.sol, for arrays of any length and *)
(* any number of settlements: integer division and the overwriting of      *)
(* repeated providers never allocate more than totalRewards.               *)
(***************************************************************************)
THEOREM AllocationsNeverExceedRewards == Spec => []AllocationsWithinRewards
<1>1. LedgerInv => AllocationsWithinRewards
  BY DEF LedgerInv
<1> QED
  BY <1>1, LedgerInvariant, PTL

(***************************************************************************)
(* Header invariant 5: every token that entered the pool is still there or *)
(* was booked as a reward paid to a provider.                              *)
(***************************************************************************)
THEOREM PoolConserves == Spec => []PoolConservation
<1>1. LedgerInv => PoolConservation
  BY DEF LedgerInv
<1> QED
  BY <1>1, LedgerInvariant, PTL

(***************************************************************************)
(* Paid plus outstanding never exceeds what settlements promised.          *)
(***************************************************************************)
THEOREM PayoutsBounded == Spec => []PromisesBoundPayouts
<1>1. LedgerInv => PromisesBoundPayouts
  BY DEF LedgerInv
<1> QED
  BY <1>1, LedgerInvariant, PTL

(***************************************************************************)
(* Header invariant 3: a pool whose promises are covered by its inflow can *)
(* pay every outstanding allocation.                                       *)
(***************************************************************************)
THEOREM CoveredPoolIsSolvent == Spec => []SolventIfCovered
<1>1. LedgerInv => SolventIfCovered
  <2> SUFFICES ASSUME LedgerInv, Committed <= received
               PROVE  Outstanding <= balance[Pool]
    BY DEF SolventIfCovered
  <2>1. /\ Outstanding + Sum(cumulativeRewardsPaid, Address) <= Committed
        /\ balance[Pool] + Sum(cumulativeRewardsPaid, Address) = received
    BY DEF LedgerInv, PromisesBoundPayouts, PoolConservation
  <2>2. Sum(cumulativeRewardsPaid, Address) \in Nat
    BY AddressAssumption, SumNat DEF LedgerInv, TypeOK, Sum
  <2>3. Outstanding \in Nat
    <3>1. allocations \in Seq([Address -> Nat])
      BY DEF LedgerInv, TypeOK
    <3> QED
      BY <3>1, OpenNat, OutstandingIsOpenSum
  <2>4. balance[Pool] \in Nat /\ received \in Nat
    BY DEF LedgerInv, TypeOK, Account
  <2>5. Committed \in Nat
    <3> DEFINE g == [id \in DOMAIN settlements |-> settlements[id].totalRewards]
    <3>1. settlements \in Seq(Settlement)
      BY DEF LedgerInv, TypeOK
    <3>2. \A i \in DOMAIN settlements : settlements[i] \in Settlement
      BY <3>1, SeqElement
    <3>3. \A i \in DOMAIN settlements : g[i] \in Nat
      BY <3>2 DEF Settlement
    <3>4. DOMAIN settlements = 1..Len(settlements) /\ Len(settlements) \in Nat
      BY <3>1
    <3>5. IsFiniteSet(DOMAIN settlements)
      BY <3>4, FS_Interval
    <3> QED
      BY <3>3, <3>5, SumNat DEF Committed, Sum
  <2> QED
    BY <2>1, <2>2, <2>3, <2>4, <2>5
<1> QED
  BY <1>1, LedgerInvariant, PTL

----------------------------------------------------------------------------
(***************************************************************************)
(* One provider's column of the two mappings: what it claimed and what it  *)
(* may still claim, settlement by settlement.                              *)
(***************************************************************************)
ClaimedColumn(al, cl, p) ==
  [id \in DOMAIN al |-> IF p \in cl[id] THEN al[id][p] ELSE 0]

OpenColumn(al, cl, p) ==
  [id \in DOMAIN al |-> OpenOf(al, cl, id)[p]]

LEMMA ColumnsNat ==
  ASSUME NEW al \in Seq([Address -> Nat]), NEW cl, NEW p \in Address
  PROVE  /\ IsFiniteSet(DOMAIN al)
         /\ \A id \in DOMAIN al : /\ ClaimedColumn(al, cl, p)[id] \in Nat
                                  /\ OpenColumn(al, cl, p)[id] \in Nat
         /\ SumFunctionOnSet(ClaimedColumn(al, cl, p), DOMAIN al) \in Nat
         /\ SumFunctionOnSet(OpenColumn(al, cl, p), DOMAIN al) \in Nat
<1>1. IsFiniteSet(DOMAIN al)
  BY OpenNat
<1>2. ASSUME NEW id \in DOMAIN al
      PROVE  ClaimedColumn(al, cl, p)[id] \in Nat /\ OpenColumn(al, cl, p)[id] \in Nat
  <2>1. al[id] \in [Address -> Nat]
    BY SeqElement
  <2> QED
    BY <2>1 DEF ClaimedColumn, OpenColumn, OpenOf
<1>3. SumFunctionOnSet(ClaimedColumn(al, cl, p), DOMAIN al) \in Nat
  BY <1>1, <1>2, SumNat
<1>4. SumFunctionOnSet(OpenColumn(al, cl, p), DOMAIN al) \in Nat
  BY <1>1, <1>2, SumNat
<1> QED
  BY <1>1, <1>2, <1>3, <1>4

\* A settlement adds nothing to what is claimed and its allocation to what is open.
LEMMA ColumnsAfterSettlement ==
  ASSUME NEW al \in Seq([Address -> Nat]), NEW cl \in Seq(SUBSET Address),
         Len(cl) = Len(al), NEW a \in [Address -> Nat], NEW p \in Address
  PROVE  /\ SumFunctionOnSet(ClaimedColumn(Append(al, a), Append(cl, {}), p), DOMAIN Append(al, a))
              = SumFunctionOnSet(ClaimedColumn(al, cl, p), DOMAIN al)
         /\ SumFunctionOnSet(OpenColumn(Append(al, a), Append(cl, {}), p), DOMAIN Append(al, a))
              = SumFunctionOnSet(OpenColumn(al, cl, p), DOMAIN al) + a[p]
<1> DEFINE al2 == Append(al, a)
           cl2 == Append(cl, {})
           k == Len(al) + 1
           D == DOMAIN al
           c1 == ClaimedColumn(al, cl, p)
           c2 == ClaimedColumn(al2, cl2, p)
           o1 == OpenColumn(al, cl, p)
           o2 == OpenColumn(al2, cl2, p)
<1>1. /\ al2 \in Seq([Address -> Nat])
      /\ DOMAIN al2 = D \cup {k}
      /\ k \notin D
      /\ \A i \in D : al2[i] = al[i]
      /\ al2[k] = a
  BY SeqAppend
<1>2. {} \in SUBSET Address
  OBVIOUS
<1>3. (\A i \in DOMAIN cl : cl2[i] = cl[i]) /\ cl2[k] = {}
  BY <1>2, SeqAppend
<1>4. DOMAIN cl = D
  OBVIOUS
<1>5. IsFiniteSet(D) /\ \A id \in D : c1[id] \in Nat /\ o1[id] \in Nat
  BY ColumnsNat
<1>6. SumFunctionOnSet(c1, D) \in Nat
  BY ColumnsNat
<1>7. \A id \in D : c2[id] = c1[id] /\ o2[id] = o1[id]
  BY <1>1, <1>3, <1>4 DEF ClaimedColumn, OpenColumn, OpenOf
<1>8. c2[k] = 0 /\ o2[k] = a[p] /\ a[p] \in Nat
  BY <1>1, <1>3 DEF ClaimedColumn, OpenColumn, OpenOf
<1> HIDE DEF al2, cl2, k, D, c1, c2, o1, o2
<1>9. SumFunctionOnSet(c2, D \cup {k}) = SumFunctionOnSet(c1, D) + c2[k]
  <2>1. (\A x \in D : c1[x] \in Nat /\ c2[x] = c1[x]) /\ c2[k] \in Nat
    BY <1>5, <1>7, <1>8
  <2>2. IsFiniteSet(D) /\ k \notin D
    BY <1>1, <1>5
  <2> QED
    BY ONLY <2>1, <2>2, SumExtend, ZenonT(60)
<1>10. SumFunctionOnSet(o2, D \cup {k}) = SumFunctionOnSet(o1, D) + o2[k]
  <2>1. (\A x \in D : o1[x] \in Nat /\ o2[x] = o1[x]) /\ o2[k] \in Nat
    BY <1>5, <1>7, <1>8
  <2>2. IsFiniteSet(D) /\ k \notin D
    BY <1>1, <1>5
  <2> QED
    BY ONLY <2>1, <2>2, SumExtend, ZenonT(60)
<1>11. /\ SumFunctionOnSet(c2, DOMAIN al2) = SumFunctionOnSet(c1, D)
       /\ SumFunctionOnSet(o2, DOMAIN al2) = SumFunctionOnSet(o1, D) + a[p]
  BY <1>1, <1>6, <1>8, <1>9, <1>10
<1> QED
  BY <1>11 DEF al2, cl2, D, c1, c2, o1, o2

\* A claim moves the allocation from open to claimed, in the claimer's column.
LEMMA ColumnsAfterClaim ==
  ASSUME TypeOK, NEW q \in Address, NEW id \in DOMAIN allocations, Claim(q, id),
         NEW p \in Address, NEW moved \in Nat,
         p = q => moved = allocations[id][q], p # q => moved = 0
  PROVE  /\ SumFunctionOnSet(ClaimedColumn(allocations, claimed', p), DOMAIN allocations)
              = SumFunctionOnSet(ClaimedColumn(allocations, claimed, p), DOMAIN allocations) + moved
         /\ SumFunctionOnSet(OpenColumn(allocations, claimed', p), DOMAIN allocations)
              = SumFunctionOnSet(OpenColumn(allocations, claimed, p), DOMAIN allocations) - moved
<1> DEFINE D == DOMAIN allocations
           c1 == ClaimedColumn(allocations, claimed, p)
           c2 == ClaimedColumn(allocations, claimed', p)
           o1 == OpenColumn(allocations, claimed, p)
           o2 == OpenColumn(allocations, claimed', p)
<1>0. /\ allocations \in Seq([Address -> Nat]) /\ claimed \in Seq(SUBSET Address)
      /\ Len(claimed) = Len(allocations) /\ q \notin claimed[id]
      /\ claimed' = [claimed EXCEPT ![id] = @ \cup {q}]
  BY DEF Claim, TypeOK
<1>1. DOMAIN claimed = D
  BY <1>0
<1>2. claimed'[id] = claimed[id] \cup {q} /\ \A j \in D \ {id} : claimed'[j] = claimed[j]
  BY <1>0, <1>1
<1>3. allocations[id] \in [Address -> Nat]
  BY <1>0, SeqElement
<1>4. /\ IsFiniteSet(D)
      /\ \A j \in D : c1[j] \in Nat /\ o1[j] \in Nat /\ c2[j] \in Nat /\ o2[j] \in Nat
      /\ SumFunctionOnSet(c1, D) \in Nat /\ SumFunctionOnSet(c2, D) \in Nat
      /\ SumFunctionOnSet(o1, D) \in Nat /\ SumFunctionOnSet(o2, D) \in Nat
  BY <1>0, ColumnsNat
<1>5. \A j \in D \ {id} : c2[j] = c1[j] /\ o2[j] = o1[j]
  BY <1>2 DEF ClaimedColumn, OpenColumn, OpenOf
<1>6. moved \in Nat
  OBVIOUS
<1>7. c2[id] = c1[id] + moved /\ o2[id] = o1[id] - moved
  <2>1. CASE p = q
    <3>1. c1[id] = 0 /\ c2[id] = allocations[id][q] /\ o1[id] = allocations[id][q] /\ o2[id] = 0
      BY <2>1, <1>0, <1>2 DEF ClaimedColumn, OpenColumn, OpenOf
    <3>2. moved = allocations[id][q]
      BY <2>1
    <3> QED
      BY <3>1, <3>2, <1>6
  <2>2. CASE p # q
    <3>1. c1[id] = c2[id] /\ o1[id] = o2[id]
      BY <2>2, <1>0, <1>2 DEF ClaimedColumn, OpenColumn, OpenOf
    <3> QED
      BY <2>2, <3>1, <1>4
  <2> QED
    BY <2>1, <2>2
<1> HIDE DEF c1, c2, o1, o2
<1>8. SumFunctionOnSet(c1, D) + c2[id] = SumFunctionOnSet(c2, D) + c1[id]
  <2>1. \A x \in D : c1[x] \in Nat /\ c2[x] \in Nat
    BY <1>4
  <2>2. \A x \in D \ {id} : c2[x] = c1[x]
    BY <1>5
  <2>3. IsFiniteSet(D) /\ id \in D
    BY <1>4
  <2> HIDE DEF D
  <2> QED
    BY ONLY <2>1, <2>2, <2>3, SumUpdate, Zenon
<1>9. SumFunctionOnSet(o1, D) + o2[id] = SumFunctionOnSet(o2, D) + o1[id]
  <2>1. \A x \in D : o1[x] \in Nat /\ o2[x] \in Nat
    BY <1>4
  <2>2. \A x \in D \ {id} : o2[x] = o1[x]
    BY <1>5
  <2>3. IsFiniteSet(D) /\ id \in D
    BY <1>4
  <2> HIDE DEF D
  <2> QED
    BY ONLY <2>1, <2>2, <2>3, SumUpdate, Zenon
<1>10. SumFunctionOnSet(c2, D) = SumFunctionOnSet(c1, D) + moved
  <2>1. c1[id] \in Nat /\ c2[id] \in Nat
    BY <1>4
  <2>2. SumFunctionOnSet(c1, D) \in Nat /\ SumFunctionOnSet(c2, D) \in Nat
    BY <1>4
  <2>3. c2[id] = c1[id] + moved
    BY <1>7
  <2> DEFINE A == SumFunctionOnSet(c1, D)
             B == SumFunctionOnSet(c2, D)
             x == c1[id]
             y == c2[id]
  <2>4. A \in Nat /\ B \in Nat /\ x \in Nat /\ y \in Nat /\ A + y = B + x /\ y = x + moved
    BY <2>1, <2>2, <2>3, <1>8
  <2> HIDE DEF A, B, x, y
  <2>5. B = A + moved
    BY ONLY <2>4, moved \in Nat
  <2> QED
    BY <2>5 DEF A, B
<1>11. SumFunctionOnSet(o2, D) = SumFunctionOnSet(o1, D) - moved
  <2>1. o1[id] \in Nat /\ o2[id] \in Nat
    BY <1>4
  <2>2. SumFunctionOnSet(o1, D) \in Nat /\ SumFunctionOnSet(o2, D) \in Nat
    BY <1>4
  <2>3. o2[id] = o1[id] - moved
    BY <1>7
  <2> DEFINE A == SumFunctionOnSet(o1, D)
             B == SumFunctionOnSet(o2, D)
             x == o1[id]
             y == o2[id]
  <2>4. A \in Nat /\ B \in Nat /\ x \in Nat /\ y \in Nat /\ A + y = B + x /\ y = x - moved
    BY <2>1, <2>2, <2>3, <1>9
  <2> HIDE DEF A, B, x, y
  <2>5. B = A - moved
    BY ONLY <2>4, moved \in Nat
  <2> QED
    BY <2>5 DEF A, B
<1> QED
  BY <1>10, <1>11 DEF c1, c2, o1, o2

LEMMA ColumnsOfState ==
  ASSUME NEW p \in Address
  PROVE  /\ OwedTo(p) = SumFunctionOnSet(OpenColumn(allocations, claimed, p), DOMAIN allocations)
         /\ OwedTo(p)' = SumFunctionOnSet(OpenColumn(allocations', claimed', p), DOMAIN allocations')
BY DEF OwedTo, Unclaimed, OpenColumn, OpenOf, Sum

\* Deposits, transfers and a new coordinator leave both columns alone.
LEMMA ColumnsKept ==
  ASSUME UNCHANGED <<allocations, claimed, cumulativeRewardsPaid>>
  PROVE  /\ PaidOncePerClaim' = PaidOncePerClaim
         /\ \A p \in Address : OwedTo(p)' = OwedTo(p)
BY DEF PaidOncePerClaim, OwedTo, Unclaimed, Sum

\* PaidOncePerClaim by columns.
LEMMA PaidByColumn ==
  /\ PaidOncePerClaim <=>
       \A p \in Address : cumulativeRewardsPaid[p] =
         SumFunctionOnSet(ClaimedColumn(allocations, claimed, p), DOMAIN allocations)
  /\ PaidOncePerClaim' <=>
       \A p \in Address : cumulativeRewardsPaid'[p] =
         SumFunctionOnSet(ClaimedColumn(allocations', claimed', p), DOMAIN allocations')
BY DEF PaidOncePerClaim, ClaimedColumn, Sum

\* What one settlement does to the columns of the state.
LEMMA SettlementColumns ==
  ASSUME TypeOK, NEW sender, NEW merkleRoot \in Root,
         NEW providers \in Arrays(Address \cup {ZeroAddress}),
         NEW bytesServed \in Arrays(ByteCount), NEW totalRewards \in Amount,
         SubmitSettlement(sender, merkleRoot, providers, bytesServed, totalRewards)
  PROVE  LET a == Allocated(providers, bytesServed, totalRewards)
         IN  /\ a \in [Address -> Nat]
             /\ \A p \in Address : OwedTo(p) \in Nat /\ OwedTo(p)' = OwedTo(p) + a[p]
             /\ PaidOncePerClaim => PaidOncePerClaim'
<1> DEFINE a == Allocated(providers, bytesServed, totalRewards)
<1>1. PICK n \in Nat : /\ providers \in [1..n -> Address \cup {ZeroAddress}]
                       /\ bytesServed \in [1..n -> Nat]
                       /\ Len(providers) = n
  BY CalldataShape DEF SubmitSettlement
<1>2. totalRewards \in Nat
  BY AmountAssumption
<1>3. a \in [Address -> Nat]
  BY <1>1, <1>2, AllocatedBound DEF SubmitSettlement
<1>4. /\ allocations \in Seq([Address -> Nat]) /\ claimed \in Seq(SUBSET Address)
      /\ Len(claimed) = Len(allocations)
      /\ allocations' = Append(allocations, a) /\ claimed' = Append(claimed, {})
      /\ cumulativeRewardsPaid' = cumulativeRewardsPaid
  BY DEF SubmitSettlement, TypeOK
<1> HIDE DEF a
<1>5. ASSUME NEW p \in Address
      PROVE  /\ SumFunctionOnSet(ClaimedColumn(allocations', claimed', p), DOMAIN allocations')
                  = SumFunctionOnSet(ClaimedColumn(allocations, claimed, p), DOMAIN allocations)
             /\ OwedTo(p) \in Nat
             /\ OwedTo(p)' = OwedTo(p) + a[p]
  <2> DEFINE al2 == Append(allocations, a)
             cl2 == Append(claimed, {})
  <2>1. /\ SumFunctionOnSet(ClaimedColumn(al2, cl2, p), DOMAIN al2)
             = SumFunctionOnSet(ClaimedColumn(allocations, claimed, p), DOMAIN allocations)
        /\ SumFunctionOnSet(OpenColumn(al2, cl2, p), DOMAIN al2)
             = SumFunctionOnSet(OpenColumn(allocations, claimed, p), DOMAIN allocations) + a[p]
    BY <1>3, <1>4, ColumnsAfterSettlement
  <2>2. al2 = allocations' /\ cl2 = claimed'
    BY <1>4
  <2>3. OwedTo(p) \in Nat
    BY <1>4, ColumnsNat, ColumnsOfState
  <2> HIDE DEF al2, cl2
  <2> QED
    BY <2>1, <2>2, <2>3, ColumnsOfState
<1>6. PaidOncePerClaim => PaidOncePerClaim'
  BY <1>4, <1>5, PaidByColumn
<1> QED
  BY <1>3, <1>5, <1>6 DEF a

\* What one claim does to them.
LEMMA ClaimColumns ==
  ASSUME TypeOK, NEW sender \in Address, NEW id \in DOMAIN allocations, Claim(sender, id)
  PROVE  LET amount == allocations[id][sender]
         IN  /\ amount \in Nat /\ amount # 0
             /\ \A p \in Address : OwedTo(p) \in Nat /\ OwedTo(p)' \in Nat
             /\ OwedTo(sender)' = OwedTo(sender) - amount
             /\ \A p \in Address \ {sender} : OwedTo(p)' = OwedTo(p)
             /\ PaidOncePerClaim => PaidOncePerClaim'
<1> DEFINE amount == allocations[id][sender]
           moved(p) == IF p = sender THEN amount ELSE 0
           C1(p) == SumFunctionOnSet(ClaimedColumn(allocations, claimed, p), DOMAIN allocations)
           C2(p) == SumFunctionOnSet(ClaimedColumn(allocations', claimed', p), DOMAIN allocations')
<1>1. amount \in Nat /\ amount # 0
  BY ClaimableId DEF Claim
<1>2. /\ allocations \in Seq([Address -> Nat]) /\ claimed \in Seq(SUBSET Address)
      /\ Len(claimed) = Len(allocations)
      /\ sender \notin claimed[id]
      /\ allocations' = allocations
      /\ claimed' = [claimed EXCEPT ![id] = @ \cup {sender}]
      /\ cumulativeRewardsPaid \in [Address -> Nat]
      /\ cumulativeRewardsPaid' = [cumulativeRewardsPaid EXCEPT ![sender] = @ + amount]
  BY DEF Claim, TypeOK
<1>3. ASSUME NEW p \in Address
      PROVE  /\ C2(p) = C1(p) + moved(p)
             /\ OwedTo(p) \in Nat /\ OwedTo(p)' \in Nat
             /\ OwedTo(p)' = OwedTo(p) - moved(p)
  <2>1. /\ C2(p) = C1(p) + moved(p)
        /\ SumFunctionOnSet(OpenColumn(allocations', claimed', p), DOMAIN allocations')
             = SumFunctionOnSet(OpenColumn(allocations, claimed, p), DOMAIN allocations) - moved(p)
    <3> DEFINE m == moved(p)
    <3>1. m \in Nat /\ (p = sender => m = allocations[id][sender]) /\ (p # sender => m = 0)
      BY <1>1
    <3> HIDE DEF m
    <3>2. /\ SumFunctionOnSet(ClaimedColumn(allocations, claimed', p), DOMAIN allocations)
               = SumFunctionOnSet(ClaimedColumn(allocations, claimed, p), DOMAIN allocations) + m
          /\ SumFunctionOnSet(OpenColumn(allocations, claimed', p), DOMAIN allocations)
               = SumFunctionOnSet(OpenColumn(allocations, claimed, p), DOMAIN allocations) - m
      BY <3>1, ColumnsAfterClaim
    <3> QED
      BY <3>2, <1>2 DEF m
  <2>2. /\ SumFunctionOnSet(OpenColumn(allocations, claimed, p), DOMAIN allocations) \in Nat
        /\ SumFunctionOnSet(OpenColumn(allocations', claimed', p), DOMAIN allocations') \in Nat
    BY <1>2, ColumnsNat
  <2> QED
    BY <2>1, <2>2, ColumnsOfState
<1>4. ASSUME PaidOncePerClaim PROVE PaidOncePerClaim'
  <2> SUFFICES ASSUME NEW p \in Address PROVE cumulativeRewardsPaid'[p] = C2(p)
    BY PaidByColumn
  <2>1. cumulativeRewardsPaid[p] = C1(p) /\ cumulativeRewardsPaid[p] \in Nat
    BY <1>2, <1>4, PaidByColumn
  <2>2. cumulativeRewardsPaid'[p] = cumulativeRewardsPaid[p] + moved(p)
    BY <1>1, <1>2, <2>1
  <2> QED
    BY <1>3, <2>1, <2>2
<1>5. OwedTo(sender)' = OwedTo(sender) - amount
  BY <1>3
<1>6. \A p \in Address \ {sender} : OwedTo(p)' = OwedTo(p)
  BY <1>3
<1> QED
  BY <1>1, <1>3, <1>4, <1>5, <1>6

(***************************************************************************)
(* Header invariant 2: a provider was paid exactly the allocations it has  *)
(* marked claimed, each once, however claims and settlements interleave    *)
(* (claim, PersistencePool.sol:229-250).                                   *)
(***************************************************************************)
THEOREM ProvidersPaidOnce == Spec => []PaidOncePerClaim
<1>1. Init => PaidOncePerClaim
  <2> SUFFICES ASSUME Init PROVE PaidOncePerClaim
    OBVIOUS
  <2>1. DOMAIN allocations = {} /\ \A p \in Address : cumulativeRewardsPaid[p] = 0
    BY DEF Init
  <2> QED
    BY <2>1, SumEmpty, PaidByColumn
<1>2. TypeOK /\ PaidOncePerClaim /\ [Next]_vars => PaidOncePerClaim'
  <2> SUFFICES ASSUME TypeOK, PaidOncePerClaim, [Next]_vars PROVE PaidOncePerClaim'
    OBVIOUS
  <2>1. ASSUME UNCHANGED <<allocations, claimed, cumulativeRewardsPaid>>
        PROVE  PaidOncePerClaim'
    BY <2>1, ColumnsKept
  <2>2. ASSUME NEW sender \in Address, NEW merkleRoot \in Root,
               NEW providers \in Arrays(Address \cup {ZeroAddress}),
               NEW bytesServed \in Arrays(ByteCount), NEW totalRewards \in Amount,
               SubmitSettlement(sender, merkleRoot, providers, bytesServed, totalRewards)
        PROVE  PaidOncePerClaim'
    BY <2>2, SettlementColumns
  <2>3. ASSUME NEW sender \in Address, NEW id \in DOMAIN allocations, Claim(sender, id)
        PROVE  PaidOncePerClaim'
    BY <2>3, ClaimColumns
  <2> QED
    BY <2>1, <2>2, <2>3 DEF Next, Deposit, TransferIn, SetCoordinator, books, vars
<1> QED
  BY <1>1, <1>2, TypeCorrect, PTL DEF Spec

(***************************************************************************)
(* The refinement: every transaction is a step of the reward ledger.       *)
(***************************************************************************)
LEMMA LedgerImplementedInit == Init => Ledger!LedgerInit
<1> SUFFICES ASSUME Init PROVE Ledger!LedgerInit
  OBVIOUS
<1>1. balance[Pool] = 0 /\ cumulativeRewardsPaid = [p \in Address |-> 0]
  BY AmountAssumption DEF Init
<1>2. ASSUME NEW p \in Address PROVE OwedTo(p) = 0
  <2>1. DOMAIN allocations = {}
    BY DEF Init
  <2> QED
    BY <2>1, SumEmpty, ColumnsOfState
<1> QED
  BY <1>1, <1>2 DEF Ledger!LedgerInit

\* Money coming in.
LEMMA FundImplemented ==
  ASSUME TypeOK, NEW sender \in Address, NEW amount \in Amount,
         amount # 0, CanPay(balance, sender, amount),
         balance' = Moved(balance, sender, Pool, amount), UNCHANGED books
  PROVE  Ledger!Fund
<1>1. amount \in Nat /\ balance \in [Account -> Nat]
  BY AmountAssumption DEF TypeOK
<1>2. Pool \in Account /\ sender \in Account /\ sender # Pool
  BY AddressAssumption DEF Account
<1>3. balance'[Pool] = balance[Pool] + amount /\ balance[Pool] \in Nat
  BY <1>1, <1>2, MovedType
<1>4. balance'[Pool] > balance[Pool]
  BY <1>1, <1>3
<1>5. UNCHANGED <<allocations, claimed, cumulativeRewardsPaid>>
  BY DEF books
<1>6. \A p \in Address : OwedTo(p)' = OwedTo(p)
  BY <1>5, ColumnsKept
<1> QED
  BY <1>4, <1>5, <1>6 DEF Ledger!Fund

\* The ledger's sum is the sum of Functions.
LEMMA LedgerTotal ==
  ASSUME NEW f
  PROVE  Ledger!Total(f) = SumFunctionOnSet(f, Address)
BY DEF Ledger!Total, Ledger!SumFunctionOnSet, SumFunctionOnSet,
       Ledger!FoldFunctionOnSet, FoldFunctionOnSet,
       Ledger!MapThenFoldSet, MapThenFoldSet

\* A settlement is an award the balance covers.
LEMMA AwardImplemented ==
  ASSUME TypeOK, NEW sender \in Address, NEW merkleRoot \in Root,
         NEW providers \in Arrays(Address \cup {ZeroAddress}),
         NEW bytesServed \in Arrays(ByteCount), NEW totalRewards \in Amount,
         SubmitSettlement(sender, merkleRoot, providers, bytesServed, totalRewards)
  PROVE  Ledger!Award
<1> DEFINE a == Allocated(providers, bytesServed, totalRewards)
           f == [p \in Address |-> OwedTo(p)]
           g == [p \in Address |-> OwedTo(p)']
<1>1. /\ a \in [Address -> Nat]
      /\ \A p \in Address : OwedTo(p) \in Nat /\ OwedTo(p)' = OwedTo(p) + a[p]
  BY SettlementColumns
<1>2. PICK awarded \in Nat : awarded <= totalRewards /\ awarded = SumFunctionOnSet(a, Address)
  BY SettlementEffect, ZenonT(60)
<1>3. UNCHANGED <<balance, cumulativeRewardsPaid>> /\ balance[Pool] >= totalRewards
  BY DEF SubmitSettlement
<1>4. totalRewards \in Nat /\ balance[Pool] \in Nat
  BY AmountAssumption DEF TypeOK, Account
<1>5. \A p \in Address : f[p] \in Nat /\ a[p] \in Nat /\ g[p] = f[p] + a[p]
  BY <1>1
<1>6. \A p \in Address : g[p] >= f[p]
  BY <1>5
<1>7. Ledger!Total(g) - Ledger!Total(f) <= balance[Pool]
  <2> HIDE DEF f, g, a
  <2>1. IsFiniteSet(Address)
    BY AddressAssumption
  <2>2. SumFunctionOnSet(g, Address) = SumFunctionOnSet(f, Address) + SumFunctionOnSet(a, Address)
    BY <1>5, <2>1, SumPlus
  <2>3. SumFunctionOnSet(f, Address) \in Nat
    BY <1>5, <2>1, SumNat
  <2>4. SumFunctionOnSet(g, Address) - SumFunctionOnSet(f, Address) = awarded
    BY ONLY <1>2, <2>2, <2>3
  <2>5. awarded <= balance[Pool]
    BY <1>2, <1>3, <1>4
  <2> QED
    BY <2>4, <2>5, LedgerTotal
<1> QED
  BY <1>3, <1>6, <1>7 DEF Ledger!Award

\* A claim is a payment.
LEMMA PayImplemented ==
  ASSUME TypeOK, NEW sender \in Address, NEW id \in DOMAIN allocations, Claim(sender, id)
  PROVE  Ledger!Pay(sender)
<1> DEFINE amount == allocations[id][sender]
<1>1. /\ amount \in Nat /\ amount # 0
      /\ \A p \in Address : OwedTo(p) \in Nat /\ OwedTo(p)' \in Nat
      /\ OwedTo(sender)' = OwedTo(sender) - amount
      /\ \A p \in Address \ {sender} : OwedTo(p)' = OwedTo(p)
  BY ClaimColumns
<1>2. balance'[Pool] = balance[Pool] - amount
  <2>1. PICK x \in Nat : x = amount /\ balance'[Pool] = balance[Pool] - x
    BY ClaimEffect
  <2> QED
    BY <2>1
<1>3. /\ amount <= balance[Pool] /\ balance[Pool] \in Nat
      /\ cumulativeRewardsPaid' = [cumulativeRewardsPaid EXCEPT ![sender] = @ + amount]
  BY <1>1 DEF Claim, CanPay, TypeOK, Account
<1> HIDE DEF amount
<1>4. OwedTo(sender) - OwedTo(sender)' = amount /\ amount > 0
  BY <1>1
<1>5. [p \in Address |-> OwedTo(p)'] =
        [[p \in Address |-> OwedTo(p)] EXCEPT ![sender] = @ - amount]
  BY <1>1
<1> QED
  BY <1>2, <1>3, <1>4, <1>5 DEF Ledger!Pay

LEMMA LedgerImplementedStep == TypeOK /\ [Next]_vars => [Ledger!LedgerNext]_(Ledger!ledger)
<1> SUFFICES ASSUME TypeOK, [Next]_vars
             PROVE  Ledger!LedgerNext \/ UNCHANGED Ledger!ledger
  OBVIOUS
<1>1. ASSUME UNCHANGED <<balance, allocations, claimed, cumulativeRewardsPaid>>
      PROVE  UNCHANGED Ledger!ledger
  <2>1. \A p \in Address : OwedTo(p)' = OwedTo(p)
    BY <1>1, ColumnsKept
  <2> QED
    BY <1>1, <2>1 DEF Ledger!ledger
<1>2. ASSUME NEW sender \in Address, NEW manifestCid \in Cid, NEW amount \in Amount,
             Deposit(sender, manifestCid, amount)
      PROVE  Ledger!Fund
  BY <1>2, FundImplemented DEF Deposit
<1>3. ASSUME NEW sender \in Address, NEW amount \in Amount, TransferIn(sender, amount)
      PROVE  Ledger!Fund
  BY <1>3, FundImplemented DEF TransferIn
<1>4. ASSUME NEW sender \in Address, NEW newCoordinator, SetCoordinator(sender, newCoordinator)
      PROVE  UNCHANGED Ledger!ledger
  BY <1>4, <1>1 DEF SetCoordinator
<1>5. CASE UNCHANGED vars
  BY <1>5, <1>1 DEF vars
<1> QED
  BY <1>2, <1>3, <1>4, <1>5, AwardImplemented, PayImplemented DEF Next, Ledger!LedgerNext

\* A recorded settlement, its allocations and a claim flag are never touched.
LEMMA SettlementsFinalStep ==
  TypeOK /\ [Next]_vars
    => [\A id \in DOMAIN settlements :
          /\ settlements'[id] = settlements[id]
          /\ allocations'[id] = allocations[id]
          /\ claimed[id] \subseteq claimed'[id]]_vars
<1> SUFFICES ASSUME TypeOK, Next, NEW id \in DOMAIN settlements
             PROVE  /\ settlements'[id] = settlements[id]
                    /\ allocations'[id] = allocations[id]
                    /\ claimed[id] \subseteq claimed'[id]
  OBVIOUS
<1>1. id \in DOMAIN allocations /\ id \in DOMAIN claimed
  BY DEF TypeOK
<1>2. ASSUME NEW sender, NEW merkleRoot \in Root,
             NEW providers \in Arrays(Address \cup {ZeroAddress}),
             NEW bytesServed \in Arrays(ByteCount), NEW totalRewards \in Amount,
             SubmitSettlement(sender, merkleRoot, providers, bytesServed, totalRewards)
      PROVE  /\ settlements'[id] = settlements[id]
             /\ allocations'[id] = allocations[id]
             /\ claimed'[id] = claimed[id]
  <2> DEFINE a == Allocated(providers, bytesServed, totalRewards)
             record == [merkleRoot |-> merkleRoot, totalRewards |-> totalRewards,
                        totalBytes |-> TotalBytes(bytesServed),
                        providerCount |-> Len(providers)]
  <2>1. /\ settlements' = Append(settlements, record)
        /\ allocations' = Append(allocations, a)
        /\ claimed' = Append(claimed, {})
    BY <1>2 DEF SubmitSettlement
  <2> HIDE DEF a, record
  <2> QED
    BY <2>1, <1>1 DEF TypeOK
<1>3. ASSUME NEW sender, NEW k \in DOMAIN allocations, Claim(sender, k)
      PROVE  /\ settlements'[id] = settlements[id]
             /\ allocations'[id] = allocations[id]
             /\ claimed[id] \subseteq claimed'[id]
  BY <1>1, <1>3 DEF Claim, TypeOK
<1> QED
  BY <1>2, <1>3 DEF Next, Deposit, TransferIn, SetCoordinator, books

(***************************************************************************)
(* The pool implements the abstract reward ledger, and what a settlement   *)
(* recorded is final: an award is covered by the fund when it is made, a   *)
(* payment takes from the fund what it takes off one provider's claim, and *)
(* nothing else moves money (PersistencePool.sol:140-250).                 *)
(***************************************************************************)
THEOREM PoolImplementsLedger == Spec => KeepsItsLedger
<1>1. Spec => Ledger!LedgerSpec
  BY LedgerImplementedInit, LedgerImplementedStep, TypeCorrect, PTL DEF Spec, Ledger!LedgerSpec
<1>2. Spec => SettlementsFinal
  BY SettlementsFinalStep, TypeCorrect, PTL DEF Spec, SettlementsFinal
<1> QED
  BY <1>1, <1>2 DEF KeepsItsLedger, ImplementsRewardLedger

(***************************************************************************)
(* The pending nonce.                                                      *)
(***************************************************************************)
LEMMA FiniteMinimum ==
  ASSUME NEW P, IsFiniteSet(P), P \subseteq Int, P # {}
  PROVE  \E i \in P : \A j \in P : i <= j
<1> DEFINE f == [x \in P |-> 0 - x]
           N == {0 - x : x \in P}
<1>1. f \in Surjection(P, N)
  BY DEF Surjection
<1>2. IsFiniteSet(N)
  BY <1>1, FS_Surjection
<1>3. N \subseteq Int /\ N # {}
  OBVIOUS
<1>4. PICK m \in N : \A n \in N : n <= m
  BY <1>2, <1>3, FiniteMaximum
<1>5. PICK i \in P : m = 0 - i
  OBVIOUS
<1>6. \A j \in P : 0 - j <= 0 - i
  BY <1>4, <1>5
<1> QED
  BY <1>5, <1>6

\* NonceAt returns a nonce that is neither mined nor taken by a pending
\* transaction, whatever gaps dropped transactions left in the mempool.
LEMMA PendingNonceFree ==
  ASSUME IsFiniteSet(mempool), mempool \subseteq Job, Len(mined) \in Nat
  PROVE  /\ PendingNonce \in Nat
         /\ PendingNonce > Len(mined)
         /\ \A tx \in mempool : tx.nonce # PendingNonce
<1> DEFINE L == Len(mined)
           c == Cardinality(mempool)
           I == L + 1 .. L + 1 + c
           f == [tx \in mempool |-> tx.nonce]
           N == {tx.nonce : tx \in mempool}
           Free == I \ N
<1>1. c \in Nat
  BY FS_CardinalityType
<1>2. f \in Surjection(mempool, N)
  BY DEF Surjection
<1>3. IsFiniteSet(N) /\ Cardinality(N) <= c
  BY <1>2, FS_Surjection
<1>4. IsFiniteSet(I) /\ Cardinality(I) = c + 1
  <2> HIDE DEF c
  <2>1. L + 1 \in Int /\ L + 1 + c \in Int /\ ~ (L + 1 > L + 1 + c)
    BY <1>1
  <2>2. IsFiniteSet(I) /\ Cardinality(I) = (L + 1 + c) - (L + 1) + 1
    BY <2>1, FS_Interval
  <2> QED
    BY <1>1, <2>2
<1>5. Free # {}
  <2> SUFFICES ASSUME I \subseteq N PROVE FALSE
    OBVIOUS
  <2>1. Cardinality(I) <= Cardinality(N)
    BY <1>3, FS_Subset
  <2>2. Cardinality(N) \in Nat
    BY <1>3, FS_CardinalityType
  <2> QED
    BY <1>1, <1>3, <1>4, <2>1, <2>2
<1>6. IsFiniteSet(Free) /\ Free \subseteq Int
  BY <1>1, <1>4, FS_Subset
<1>7. PICK n \in Free : \A m \in Free : n <= m
  <2> HIDE DEF Free
  <2> QED
    BY <1>5, <1>6, FiniteMinimum
<1>8. n \in I /\ \A tx \in mempool : tx.nonce # n
  OBVIOUS
<1>9. \A m \in L + 1 .. n - 1 : \E tx \in mempool : tx.nonce = m
  <2> SUFFICES ASSUME NEW m \in L + 1 .. n - 1, m \notin N
               PROVE  FALSE
    OBVIOUS
  <2>1. m \in Free
    BY <1>1
  <2> QED
    BY <1>1, <1>7, <2>1
<1>10. /\ PendingNonce \in I
       /\ \A tx \in mempool : tx.nonce # PendingNonce
  BY <1>8, <1>9 DEF PendingNonce
<1> QED
  BY <1>1, <1>10

(***************************************************************************)
(* The inductive invariant.                                                *)
(***************************************************************************)

\* What is known of a window that was read: it is not empty and its receipts
\* lie in it.
InWindow(w) ==
  /\ w.since < w.until
  /\ 0 < w.until
  /\ \A r \in w.receipts : w.since <= r.ts /\ r.ts < w.until

\* The attempt at hand covers the time from the cursor on; a signed nonce is
\* still free; while the driver waits, nobody but its own transaction can be
\* mined under its nonce, so that what WaitMined finds there is its own.
AttemptSound ==
  /\ phase # "idle" => /\ InWindow(job)
                       /\ job.since = lastSince
                       /\ job.until <= now
  /\ phase = "signed" => job.nonce > Len(mined)
  /\ phase = "waiting" =>
       \/ /\ job.nonce > Len(mined)
          /\ \A tx \in mempool : tx.nonce = job.nonce => tx = job
       \/ /\ job.nonce \in DOMAIN mined
          /\ mined[job.nonce].since = job.since
          /\ mined[job.nonce].until = job.until

\* Every transaction, pending or mined, carries a window that was read.
WindowsSound ==
  /\ \A tx \in mempool : InWindow(tx)
  /\ \A i \in DOMAIN mined : InWindow(mined[i])

\* As long as nothing was disturbed, only the attempt being waited for is in
\* the mempool, the settled windows follow one another, and all but the one of
\* that attempt end before the cursor.
InOrder ==
  ~ disturbed =>
    /\ \A tx \in mempool : phase = "waiting" /\ tx = job
    /\ \A i \in Settled : \/ mined[i].until <= lastSince
                          \/ phase = "waiting" /\ i = job.nonce
    /\ \A i, j \in Settled : i < j => mined[i].until <= mined[j].since

CoordInv ==
  /\ CoordTypeOK
  /\ IsFiniteSet(mempool)
  /\ NoStaleNonce
  /\ AttemptSound
  /\ WindowsSound
  /\ CursorOnlyPassesSettledTime
  /\ InOrder

LEMMA CoordInit_Inv == CoordInit => CoordInv
<1> SUFFICES ASSUME CoordInit PROVE CoordInv
  OBVIOUS
<1> USE DEF CoordInit, PorInit
<1>1. CoordTypeOK
  BY ClockAssumption, CursorAssumption DEF CoordTypeOK, NoJob, Job
<1>2. IsFiniteSet(mempool)
  BY FS_EmptySet
<1>3. NoStaleNonce /\ AttemptSound /\ WindowsSound
  BY DEF NoStaleNonce, AttemptSound, WindowsSound
<1>4. CursorOnlyPassesSettledTime
  BY CursorAssumption DEF CursorOnlyPassesSettledTime
<1>5. InOrder
  BY DEF InOrder, Settled
<1> QED
  BY <1>1, <1>2, <1>3, <1>4, <1>5 DEF CoordInv

(***************************************************************************)
(* Receipts and time: driver and chain are left alone.                     *)
(***************************************************************************)
LEMMA Receipts_Inv ==
  ASSUME CoordInv, Receipts
  PROVE  CoordInv'
<1>1. UNCHANGED <<driverVars, chainVars, disturbed>>
  BY DEF Receipts, CoordClock, CoordIssue, CoordAck, CoordAckLost, historyVars
<1>2. UNCHANGED <<phase, lastSince, job, mempool, mined, disturbed>>
  BY <1>1 DEF driverVars, chainVars
<1>3. CoordTypeOK
  BY DEF CoordInv
<1> DEFINE PorOK == /\ now' \in 1..MaxTime
                    /\ now <= now'
                    /\ nonces' \in [Viewer -> 0..MaxReceipts]
                    /\ inflight' \subseteq Receipt
                    /\ store' \subseteq Receipt
<1>4. PorOK
  <2>1. CASE CoordClock
    BY <1>3, <2>1, ClockAssumption DEF CoordClock, ClockAdvances, CoordTypeOK
  <2>2. ASSUME NEW v \in Viewer, NEW p \in Provider, NEW size \in Size,
               CoordIssue(v, p, size)
        PROVE  PorOK
    <3> DEFINE r == [provider |-> p, viewer |-> v, size |-> size, ts |-> now,
                     nonce |-> nonces'[v]]
    <3>1. /\ nonces[v] < MaxReceipts
          /\ nonces' = [nonces EXCEPT ![v] = nonces[v] + 1]
          /\ inflight' = inflight \cup {r}
          /\ UNCHANGED <<now, store>>
      BY <2>2 DEF CoordIssue, Issue
    <3>2. nonces' \in [Viewer -> 0..MaxReceipts]
      BY <1>3, <3>1, ClockAssumption DEF CoordTypeOK
    <3>3. r \in Receipt
      BY <1>3, <3>2, ClockAssumption DEF CoordTypeOK, Receipt
    <3> QED
      BY <1>3, <3>1, <3>2, <3>3, ClockAssumption DEF CoordTypeOK
  <2>3. ASSUME NEW r \in inflight, CoordAck(r) \/ CoordAckLost(r)
        PROVE  PorOK
    BY <1>3, <2>3, ClockAssumption DEF CoordAck, CoordAckLost, Ack, AckLost, CoordTypeOK
  <2> QED
    BY <2>1, <2>2, <2>3 DEF Receipts
<1>5. CoordTypeOK'
  BY <1>2, <1>3, <1>4, ClockAssumption DEF CoordTypeOK
<1>6. AttemptSound'
  BY <1>2, <1>3, <1>4, ClockAssumption DEF CoordInv, AttemptSound, InWindow, CoordTypeOK, Job
<1>7. /\ NoStaleNonce' /\ WindowsSound' /\ CursorOnlyPassesSettledTime' /\ InOrder'
      /\ IsFiniteSet(mempool)'
  BY <1>2 DEF CoordInv, NoStaleNonce, WindowsSound, InWindow,
     CursorOnlyPassesSettledTime, InOrder, Settled
<1> QED
  BY <1>5, <1>6, <1>7 DEF CoordInv

(***************************************************************************)
(* The driver.                                                             *)
(***************************************************************************)

\* Facts every step of the driver starts from.
LEMMA Mined_Facts ==
  ASSUME CoordTypeOK
  PROVE  /\ Len(mined) \in Nat
         /\ DOMAIN mined = 1..Len(mined)
         /\ \A i \in DOMAIN mined :
              /\ mined[i] \in [since : Int, until : Nat, receipts : SUBSET Receipt, ok : BOOLEAN]
              /\ mined[i].since \in Int /\ mined[i].until \in Nat
         /\ now \in Nat /\ now > 0 /\ now <= MaxTime
         /\ lastSince \in Int
         /\ job.since \in Int /\ job.until \in Nat /\ job.nonce \in Nat
<1> DEFINE Mined == [since : Int, until : Nat, receipts : SUBSET Receipt, ok : BOOLEAN]
<1>1. mined \in Seq(Mined)
  BY DEF CoordTypeOK
<1>2. /\ Len(mined) \in Nat
      /\ DOMAIN mined = 1..Len(mined)
      /\ \A i \in DOMAIN mined : mined[i] \in Mined
  <2> HIDE DEF Mined
  <2> QED
    BY <1>1
<1>3. now \in Nat /\ now > 0 /\ now <= MaxTime /\ lastSince \in Int
  BY ClockAssumption, CursorAssumption DEF CoordTypeOK
<1>4. job.since \in Int /\ job.until \in Nat /\ job.nonce \in Nat
  BY DEF CoordTypeOK, Job
<1> QED
  BY <1>2, <1>3, <1>4

LEMMA Tick_Inv ==
  ASSUME CoordInv, Tick
  PROVE  CoordInv'
<1> DEFINE W == Window(lastSince, now)
<1>1. CoordTypeOK
  BY DEF CoordInv
<1>2. /\ phase = "idle" /\ W # {}
      /\ phase' = "built"
      /\ job' = [since |-> lastSince, until |-> now, receipts |-> W, nonce |-> 0]
      /\ UNCHANGED <<lastSince, now, nonces, inflight, store, mempool, mined, disturbed>>
  BY DEF Tick, porVars, chainVars, historyVars
<1>3. W \subseteq store
  BY DEF Window
<1>4. \A r \in W : r.ts \in Nat /\ lastSince <= r.ts /\ r.ts < now
  <2> TAKE r \in W
  <2>1. r \in Receipt
    BY <1>1, <1>3 DEF CoordTypeOK
  <2>2. r.ts \in Nat
    BY <2>1, ClockAssumption DEF Receipt
  <2>3. (lastSince > 0 => r.ts >= lastSince) /\ (now > 0 => r.ts < now)
    BY DEF Window
  <2> QED
    BY <1>1, <2>2, <2>3, Mined_Facts
<1>5. InWindow(job')
  BY <1>1, <1>2, <1>4, Mined_Facts DEF InWindow
<1>6. job' \in Job
  BY <1>1, <1>2, <1>3, Mined_Facts DEF CoordTypeOK, Job
<1>7. CoordTypeOK'
  BY <1>1, <1>2, <1>6 DEF CoordTypeOK
<1>8. AttemptSound'
  BY <1>1, <1>2, <1>5, Mined_Facts DEF AttemptSound
<1>9. NoStaleNonce' /\ WindowsSound' /\ CursorOnlyPassesSettledTime' /\ IsFiniteSet(mempool)'
  BY <1>2 DEF CoordInv, NoStaleNonce, WindowsSound, InWindow,
     CursorOnlyPassesSettledTime, Settled
<1>10. InOrder'
  BY <1>2 DEF CoordInv, InOrder, Settled
<1> QED
  BY <1>7, <1>8, <1>9, <1>10 DEF CoordInv

LEMMA Sign_Inv ==
  ASSUME CoordInv, Sign
  PROVE  CoordInv'
<1>1. CoordTypeOK /\ IsFiniteSet(mempool) /\ mempool \subseteq Job
  BY DEF CoordInv, CoordTypeOK
<1>2. /\ phase = "built"
      /\ phase' = "signed"
      /\ job' = [job EXCEPT !.nonce = PendingNonce]
      /\ UNCHANGED <<lastSince, now, nonces, inflight, store, mempool, mined, disturbed>>
  BY DEF Sign, porVars, chainVars, historyVars
<1>3. /\ PendingNonce \in Nat /\ PendingNonce > Len(mined)
      /\ \A tx \in mempool : tx.nonce # PendingNonce
  BY <1>1, Mined_Facts, PendingNonceFree
<1>4. /\ job' \in Job /\ job'.nonce = PendingNonce
      /\ job'.since = job.since /\ job'.until = job.until /\ job'.receipts = job.receipts
  BY <1>1, <1>2, <1>3 DEF CoordTypeOK, Job
<1>5. CoordTypeOK'
  BY <1>1, <1>2, <1>3, <1>4, Mined_Facts DEF CoordTypeOK
<1>6. NoStaleNonce'
  BY <1>2, <1>3, <1>4 DEF CoordInv, NoStaleNonce
<1>7. AttemptSound'
  BY <1>2, <1>3, <1>4 DEF CoordInv, AttemptSound, InWindow
<1>8. WindowsSound' /\ CursorOnlyPassesSettledTime' /\ IsFiniteSet(mempool)'
  BY <1>2 DEF CoordInv, WindowsSound, InWindow, CursorOnlyPassesSettledTime, Settled
<1>9. InOrder'
  BY <1>2 DEF CoordInv, InOrder, Settled
<1> QED
  BY <1>5, <1>6, <1>7, <1>8, <1>9 DEF CoordInv

LEMMA Send_Inv ==
  ASSUME CoordInv, Send
  PROVE  CoordInv'
<1>1. CoordTypeOK /\ IsFiniteSet(mempool) /\ mempool \subseteq Job
  BY DEF CoordInv, CoordTypeOK
<1>2. /\ phase = "signed"
      /\ phase' = "waiting"
      /\ mempool' = mempool \cup {job}
      /\ UNCHANGED <<job, lastSince, now, nonces, inflight, store, mined, disturbed>>
  BY DEF Send, porVars, historyVars
<1>3. job.nonce > Len(mined) /\ InWindow(job) /\ \A tx \in mempool : tx.nonce # job.nonce
  BY <1>2 DEF CoordInv, AttemptSound, NoStaleNonce
<1>4. CoordTypeOK'
  BY <1>1, <1>2 DEF CoordTypeOK
<1>5. IsFiniteSet(mempool')
  BY <1>1, <1>2, FS_AddElement
<1>6. NoStaleNonce'
  BY <1>2, <1>3 DEF CoordInv, NoStaleNonce
<1>7. AttemptSound'
  BY <1>2, <1>3 DEF CoordInv, AttemptSound
<1>8. WindowsSound' /\ CursorOnlyPassesSettledTime'
  BY <1>2, <1>3 DEF CoordInv, WindowsSound, CursorOnlyPassesSettledTime, Settled
<1>9. InOrder'
  BY <1>2 DEF CoordInv, InOrder, Settled
<1> QED
  BY <1>4, <1>5, <1>6, <1>7, <1>8, <1>9 DEF CoordInv

\* The tick ends, with or without an error, and the cursor stays.
LEMMA GiveUp_Inv ==
  ASSUME CoordInv, phase' = "idle", job' = NoJob,
         UNCHANGED <<lastSince, porVars, mempool, mined>>,
         ~ disturbed' => ~ disturbed /\ mempool = {} /\ ~ (phase = "waiting" /\ job.nonce \in Settled)
  PROVE  CoordInv'
<1>1. CoordTypeOK'
  BY DEF CoordInv, CoordTypeOK, porVars, NoJob, Job
<1>2. NoStaleNonce' /\ AttemptSound' /\ WindowsSound' /\ IsFiniteSet(mempool)'
  BY DEF CoordInv, NoStaleNonce, AttemptSound, WindowsSound, InWindow
<1>3. CursorOnlyPassesSettledTime'
  BY DEF CoordInv, CursorOnlyPassesSettledTime, Settled
<1>4. InOrder'
  BY DEF CoordInv, InOrder, Settled
<1> QED
  BY <1>1, <1>2, <1>3, <1>4 DEF CoordInv

\* WaitSucceeds: what was mined under the attempt's nonce has the attempt's
\* window, and that window starts at the cursor.
LEMMA WaitSucceeds_Inv ==
  ASSUME CoordInv, WaitSucceeds
  PROVE  CoordInv'
<1>1. CoordTypeOK
  BY DEF CoordInv
<1>2. /\ phase = "waiting" /\ job.nonce \in Settled
      /\ lastSince' = job.until
      /\ phase' = "idle" /\ job' = NoJob
      /\ UNCHANGED <<now, nonces, inflight, store, mempool, mined, disturbed>>
  BY DEF WaitSucceeds, porVars, chainVars, historyVars
<1>3. /\ job.nonce \in DOMAIN mined /\ ~ (job.nonce > Len(mined))
      /\ mined[job.nonce].since = lastSince /\ mined[job.nonce].until = job.until
      /\ lastSince < job.until /\ 0 < job.until /\ job.until <= now
  BY <1>1, <1>2, Mined_Facts DEF CoordInv, AttemptSound, InWindow, Settled
<1>4. CoordTypeOK'
  BY <1>1, <1>2, <1>3, Mined_Facts DEF CoordTypeOK, NoJob, Job
<1>5. NoStaleNonce' /\ AttemptSound' /\ WindowsSound' /\ IsFiniteSet(mempool)'
  BY <1>2 DEF CoordInv, NoStaleNonce, AttemptSound, WindowsSound, InWindow
<1>6. CursorOnlyPassesSettledTime'
  <2> SUFFICES ASSUME NEW t \in InitialSince .. job.until - 1
               PROVE  \E i \in Settled : mined[i].since <= t /\ t < mined[i].until
    BY <1>2 DEF CursorOnlyPassesSettledTime, Settled
  <2>1. t \in Int /\ lastSince \in Int /\ job.until \in Int /\ t < job.until /\ InitialSince <= t
    BY <1>1, Mined_Facts, CursorAssumption
  <2>2. CASE t < lastSince
    <3>1. t \in InitialSince .. lastSince - 1
      BY <2>1, <2>2, CursorAssumption
    <3> QED
      BY <3>1 DEF CoordInv, CursorOnlyPassesSettledTime
  <2>3. CASE ~ (t < lastSince)
    BY <2>1, <2>3, <1>2, <1>3
  <2> QED
    BY <2>2, <2>3
<1>7. InOrder'
  <2> SUFFICES ASSUME ~ disturbed PROVE InOrder'
    BY <1>2 DEF InOrder
  <2>1. mempool = {}
    <3> SUFFICES ASSUME NEW tx \in mempool PROVE FALSE
      OBVIOUS
    <3>1. tx = job /\ tx.nonce > Len(mined)
      BY DEF CoordInv, InOrder, NoStaleNonce
    <3> QED
      BY <1>3, <3>1
  <2>2. \A i \in Settled : mined[i].until <= job.until
    <3> TAKE i \in Settled
    <3>1. mined[i].until \in Int /\ lastSince \in Int /\ job.until \in Int
      BY <1>1, Mined_Facts DEF Settled
    <3>2. mined[i].until <= lastSince \/ i = job.nonce
      BY DEF CoordInv, InOrder
    <3> QED
      BY <1>3, <3>1, <3>2
  <2> QED
    BY <1>2, <2>1, <2>2 DEF CoordInv, InOrder, Settled
<1> QED
  BY <1>4, <1>5, <1>6, <1>7 DEF CoordInv

LEMMA Driver_Inv ==
  ASSUME CoordInv, Driver
  PROVE  CoordInv'
<1>1. CoordTypeOK
  BY DEF CoordInv
<1>2. CASE WaitReverted
  <2>1. /\ phase = "waiting" /\ job.nonce \in DOMAIN mined /\ job.nonce \notin Settled
        /\ ~ (job.nonce > Len(mined))
    BY <1>1, <1>2, Mined_Facts DEF WaitReverted
  <2>2. ~ disturbed => mempool = {}
    BY <2>1 DEF CoordInv, InOrder, NoStaleNonce
  <2>3. disturbed' = disturbed
    BY <1>2 DEF WaitReverted, historyVars
  <2> QED
    BY <2>1, <2>2, <2>3, <1>2, GiveUp_Inv DEF WaitReverted, chainVars
<1>3. CASE WaitTimesOut
  <2>1. /\ phase = "waiting" /\ job.nonce \notin Settled
    BY <1>1, <1>3, Mined_Facts DEF WaitTimesOut, Settled
  <2>2. ~ disturbed /\ job \notin mempool => mempool = {}
    BY DEF CoordInv, InOrder
  <2>3. disturbed' = (disturbed \/ job \in mempool)
    BY <1>3 DEF WaitTimesOut
  <2> QED
    BY <2>1, <2>2, <2>3, <1>3, GiveUp_Inv DEF WaitTimesOut, chainVars
<1> QED
  BY <1>2, <1>3, Tick_Inv, Sign_Inv, Send_Inv, WaitSucceeds_Inv DEF Driver

(***************************************************************************)
(* Failures and restarts.                                                  *)
(***************************************************************************)
LEMMA SendUnconfirmed_Inv ==
  ASSUME CoordInv, SendUnconfirmed
  PROVE  CoordInv'
<1>1. CoordTypeOK /\ IsFiniteSet(mempool) /\ mempool \subseteq Job /\ job \in Job
  BY DEF CoordInv, CoordTypeOK
<1>2. /\ phase = "signed" /\ phase' = "idle" /\ job' = NoJob
      /\ mempool' = mempool \cup {job} /\ disturbed'
      /\ UNCHANGED <<lastSince, now, nonces, inflight, store, mined>>
  BY DEF SendUnconfirmed, Abandon, porVars
<1>3. job.nonce > Len(mined) /\ InWindow(job) /\ \A tx \in mempool : tx.nonce # job.nonce
  BY <1>2 DEF CoordInv, AttemptSound, NoStaleNonce
<1>4. CoordTypeOK'
  BY <1>1, <1>2 DEF CoordTypeOK, NoJob, Job
<1>5. IsFiniteSet(mempool')
  BY <1>1, <1>2, FS_AddElement
<1>6. NoStaleNonce' /\ AttemptSound' /\ InOrder'
  BY <1>2, <1>3 DEF CoordInv, NoStaleNonce, AttemptSound, InOrder
<1>7. WindowsSound' /\ CursorOnlyPassesSettledTime'
  BY <1>2, <1>3 DEF CoordInv, WindowsSound, InWindow, CursorOnlyPassesSettledTime, Settled
<1> QED
  BY <1>4, <1>5, <1>6, <1>7 DEF CoordInv

LEMMA Restart_Inv ==
  ASSUME CoordInv, Restart
  PROVE  CoordInv'
<1>1. /\ phase' = "idle" /\ job' = NoJob /\ lastSince' = InitialSince /\ disturbed'
      /\ UNCHANGED <<now, nonces, inflight, store, mempool, mined>>
  BY DEF Restart, porVars, chainVars
<1>2. CoordTypeOK'
  BY <1>1 DEF CoordInv, CoordTypeOK, NoJob, Job
<1>3. NoStaleNonce' /\ AttemptSound' /\ WindowsSound' /\ InOrder' /\ IsFiniteSet(mempool)'
  BY <1>1 DEF CoordInv, NoStaleNonce, AttemptSound, WindowsSound, InWindow, InOrder
<1>4. CursorOnlyPassesSettledTime'
  BY <1>1, CursorAssumption DEF CursorOnlyPassesSettledTime
<1> QED
  BY <1>2, <1>3, <1>4 DEF CoordInv

LEMMA Faults_Inv ==
  ASSUME CoordInv, Faults
  PROVE  CoordInv'
<1>1. CASE RpcFails
  <2>1. /\ phase # "waiting" /\ phase' = "idle" /\ job' = NoJob
        /\ UNCHANGED <<lastSince, porVars, mempool, mined, disturbed>>
    BY <1>1 DEF RpcFails, Abandon, chainVars
  <2>2. ~ disturbed => mempool = {}
    BY <2>1 DEF CoordInv, InOrder
  <2> QED
    BY <2>1, <2>2, GiveUp_Inv
<1>2. CASE WaitFails
  BY <1>2, GiveUp_Inv DEF WaitFails, Abandon, chainVars
<1> QED
  BY <1>1, <1>2, SendUnconfirmed_Inv, Restart_Inv DEF Faults

(***************************************************************************)
(* The chain.                                                              *)
(***************************************************************************)
LEMMA Mine_Inv ==
  ASSUME CoordInv, NEW tx \in mempool, NEW ok \in BOOLEAN, Mine(tx, ok)
  PROVE  CoordInv'
<1> DEFINE L == Len(mined)
           m == [since |-> tx.since, until |-> tx.until, receipts |-> tx.receipts, ok |-> ok]
           Mined == [since : Int, until : Nat, receipts : SUBSET Receipt, ok : BOOLEAN]
<1>1. CoordTypeOK /\ IsFiniteSet(mempool) /\ mempool \subseteq Job
  BY DEF CoordInv, CoordTypeOK
<1>2. /\ tx.nonce = L + 1
      /\ mempool' = mempool \ {tx}
      /\ mined' = Append(mined, m)
      /\ UNCHANGED <<phase, lastSince, job, now, nonces, inflight, store, disturbed>>
  BY DEF Mine, porVars, driverVars
<1>3. m \in Mined
  BY <1>1 DEF Job
<1>4. L \in Nat /\ DOMAIN mined = 1..L
  BY <1>1, Mined_Facts
<1>5. /\ mined' \in Seq(Mined)
      /\ Len(mined') = L + 1 /\ DOMAIN mined' = 1..(L + 1)
      /\ mined'[L + 1] = m
      /\ \A i \in DOMAIN mined : mined'[i] = mined[i]
  BY <1>1, <1>2, <1>3 DEF CoordTypeOK
<1>6. Settled' = IF ok THEN Settled \cup {L + 1} ELSE Settled
  BY <1>4, <1>5 DEF Settled
<1>7. CoordTypeOK'
  BY <1>1, <1>2, <1>5 DEF CoordTypeOK
<1>8. IsFiniteSet(mempool')
  BY <1>1, <1>2, FS_RemoveElement
<1>9. \A t \in mempool : t.nonce \in Nat /\ (t # tx => t.nonce > L + 1)
  <2> TAKE t \in mempool
  <2>1. t.nonce \in Nat /\ t.nonce > L /\ (t.nonce = tx.nonce => t = tx)
    BY <1>1 DEF CoordInv, NoStaleNonce, Job
  <2> QED
    BY <1>2, <1>4, <2>1
<1>10. NoStaleNonce'
  BY <1>2, <1>5, <1>9 DEF CoordInv, NoStaleNonce
<1>11. WindowsSound'
  <2>1. InWindow(m)
    BY DEF CoordInv, WindowsSound, InWindow
  <2> QED
    BY <2>1, <1>2, <1>4, <1>5 DEF CoordInv, WindowsSound
<1>12. CursorOnlyPassesSettledTime'
  <2>1. \A i \in Settled : i \in Settled' /\ mined'[i] = mined[i]
    BY <1>5, <1>6 DEF Settled
  <2> QED
    BY <1>2, <2>1 DEF CoordInv, CursorOnlyPassesSettledTime
<1>13. job.nonce \in Nat
  BY <1>1, Mined_Facts
<1>14. AttemptSound'
  <2>1. phase = "signed" => job.nonce > L + 1
    BY <1>2, <1>4, <1>13 DEF CoordInv, AttemptSound, NoStaleNonce
  <2>2. ASSUME phase = "waiting"
        PROVE  (\/ /\ job.nonce > Len(mined)
                   /\ \A t \in mempool : t.nonce = job.nonce => t = job
                \/ /\ job.nonce \in DOMAIN mined
                   /\ mined[job.nonce].since = job.since
                   /\ mined[job.nonce].until = job.until)'
    <3>1. CASE job.nonce > L /\ \A t \in mempool : t.nonce = job.nonce => t = job
      <4>1. CASE job.nonce = L + 1
        <5>1. tx = job
          BY <3>1, <4>1, <1>2
        <5>2. job.nonce \in DOMAIN mined' /\ mined'[job.nonce] = m
          BY <4>1, <1>4, <1>5
        <5> QED
          BY <5>1, <5>2, <1>2
      <4>2. CASE job.nonce # L + 1
        BY <3>1, <4>2, <1>2, <1>4, <1>5, <1>13
      <4> QED
        BY <4>1, <4>2
    <3>2. CASE /\ job.nonce \in DOMAIN mined
               /\ mined[job.nonce].since = job.since
               /\ mined[job.nonce].until = job.until
      BY <3>2, <1>2, <1>4, <1>5
    <3> QED
      BY <2>2, <3>1, <3>2 DEF CoordInv, AttemptSound
  <2> QED
    BY <2>1, <2>2, <1>2, <1>5 DEF CoordInv, AttemptSound, InWindow
<1>15. InOrder'
  <2> SUFFICES ASSUME ~ disturbed PROVE InOrder'
    BY <1>2 DEF InOrder
  <2>1. phase = "waiting" /\ tx = job /\ mempool' = {} /\ job.nonce = L + 1
    BY <1>2 DEF CoordInv, InOrder
  <2>2. tx.since = lastSince
    BY <2>1 DEF CoordInv, AttemptSound
  <2>3. \A i \in Settled : i \in 1..L /\ mined'[i] = mined[i] /\ mined[i].until <= tx.since
    <3> TAKE i \in Settled
    <3>1. i \in 1..L /\ i # job.nonce
      BY <2>1, <1>4 DEF Settled
    <3> QED
      BY <3>1, <2>2, <1>4, <1>5 DEF CoordInv, InOrder
  <2>4. \A i \in Settled' : mined'[i].until <= lastSince \/ i = job.nonce
    BY <2>1, <2>2, <2>3, <1>6
  <2>5. \A i, j \in Settled' : i < j => mined'[i].until <= mined'[j].since
    <3> SUFFICES ASSUME NEW i \in Settled', NEW j \in Settled', i < j
                 PROVE  mined'[i].until <= mined'[j].since
      OBVIOUS
    <3>1. CASE i \in Settled /\ j \in Settled
      BY <3>1, <2>3 DEF CoordInv, InOrder
    <3>2. CASE i \in Settled /\ j = L + 1
      <4>1. mined'[j] = m /\ m.since = tx.since
        BY <3>2, <1>5
      <4>2. mined'[i].until <= tx.since
        BY <3>2, <2>3
      <4> HIDE DEF m
      <4> QED
        BY <4>1, <4>2
    <3>3. CASE i = L + 1
      <4>1. j \in 1..L \/ j = L + 1
        BY <2>3, <1>6
      <4> QED
        BY <3>3, <4>1, <1>4
    <3> QED
      BY <3>1, <3>2, <3>3, <1>6
  <2> QED
    BY <2>1, <2>4, <2>5, <1>2 DEF InOrder
<1> QED
  BY <1>7, <1>8, <1>10, <1>11, <1>12, <1>14, <1>15 DEF CoordInv

LEMMA Drop_Inv ==
  ASSUME CoordInv, NEW tx \in mempool, Drop(tx)
  PROVE  CoordInv'
<1>1. /\ mempool' = mempool \ {tx}
      /\ UNCHANGED <<phase, lastSince, job, now, nonces, inflight, store, mined, disturbed>>
  BY DEF Drop, porVars, driverVars
<1>2. IsFiniteSet(mempool')
  BY <1>1, FS_RemoveElement DEF CoordInv
<1>3. CoordTypeOK'
  BY <1>1 DEF CoordInv, CoordTypeOK
<1>4. NoStaleNonce' /\ AttemptSound' /\ WindowsSound'
  BY <1>1 DEF CoordInv, NoStaleNonce, AttemptSound, WindowsSound, InWindow
<1>5. CursorOnlyPassesSettledTime' /\ InOrder'
  BY <1>1 DEF CoordInv, CursorOnlyPassesSettledTime, InOrder, Settled
<1> QED
  BY <1>2, <1>3, <1>4, <1>5 DEF CoordInv

(***************************************************************************)
(* The theorems.                                                           *)
(***************************************************************************)
LEMMA CoordNext_Inv == CoordInv /\ [CoordNext]_coordVars => CoordInv'
<1> SUFFICES ASSUME CoordInv, [CoordNext]_coordVars PROVE CoordInv'
  OBVIOUS
<1>1. CASE Chain
  BY <1>1, Mine_Inv, Drop_Inv DEF Chain
<1>2. CASE UNCHANGED coordVars
  <2>1. UNCHANGED <<phase, lastSince, job, now, nonces, inflight, store, mempool, mined, disturbed>>
    BY <1>2 DEF coordVars, porVars, driverVars, chainVars, historyVars
  <2> QED
    BY <2>1 DEF CoordInv, CoordTypeOK, NoStaleNonce, AttemptSound, WindowsSound,
         InWindow, CursorOnlyPassesSettledTime, InOrder, Settled
<1> QED
  BY <1>1, <1>2, Driver_Inv, Faults_Inv, Receipts_Inv DEF CoordNext

LEMMA CoordInvariant == CoordInit /\ [][CoordNext]_coordVars => []CoordInv
BY CoordInit_Inv, CoordNext_Inv, PTL

\* Whatever fails, times out, is dropped or restarts: no attempt reuses a nonce
\* (NonceAt, client.go:71) and the cursor never passes time that no settlement
\* on chain covers (TickOnce, driver.go:102).
THEOREM AttemptsAreSound == CoordSpec => []AttemptsSound
<1>1. CoordInv => AttemptsSound
  BY DEF CoordInv, AttemptsSound
<1> QED
  BY <1>1, CoordInvariant, PTL DEF CoordSpec

\* No receipt is in two settlements unless an attempt was given up while its
\* transaction could still be mined, or the coordinator was restarted: the
\* cursor makes the windows of SettleOnce follow one another.
THEOREM NoDoubleSettlement == CoordSpec => []SettledOnceUndisturbed
<1>1. ASSUME CoordInv PROVE SettledOnceUndisturbed
  <2> SUFFICES ASSUME ~ disturbed, NEW i \in Settled, NEW j \in Settled, i # j,
                      NEW r \in mined[i].receipts, r \in mined[j].receipts
               PROVE  FALSE
    BY DEF SettledOnceUndisturbed, SettledAtMostOnce
  <2>1. CoordTypeOK /\ i \in DOMAIN mined /\ j \in DOMAIN mined
    BY <1>1 DEF CoordInv, Settled
  <2>2. /\ mined[i].since \in Int /\ mined[i].until \in Int
        /\ mined[j].since \in Int /\ mined[j].until \in Int
        /\ i \in Int /\ j \in Int
    BY <2>1, Mined_Facts
  <2>3. r.ts \in Int
    BY <2>1, Mined_Facts, ClockAssumption DEF Receipt
  <2>4. /\ mined[i].since <= r.ts /\ r.ts < mined[i].until
        /\ mined[j].since <= r.ts /\ r.ts < mined[j].until
    BY <1>1, <2>1 DEF CoordInv, WindowsSound, InWindow
  <2>5. mined[i].until <= mined[j].since \/ mined[j].until <= mined[i].since
    BY <1>1, <2>2 DEF CoordInv, InOrder
  <2> QED
    BY <2>2, <2>3, <2>4, <2>5
<1> QED
  BY <1>1, CoordInvariant, PTL DEF CoordSpec

-----------------------------------------------------------------------------
(***************************************************************************)
(* The loop: from receipts to rewards.                                     *)
(*                                                                         *)
(* The n-th element of a finite set of integers exists and is unique: the  *)
(* number of smaller elements tells the elements apart, so that it takes   *)
(* every value below the cardinality.                                      *)
(***************************************************************************)
Below(S, i) == {j \in S : j < i}

LEMMA BelowGrows ==
  ASSUME NEW S, IsFiniteSet(S), S \subseteq Int, NEW i \in S, NEW k \in S, i < k
  PROVE  /\ Cardinality(Below(S, i)) \in Nat
         /\ Cardinality(Below(S, k)) \in Nat
         /\ Cardinality(Below(S, i)) < Cardinality(Below(S, k))
<1>1. IsFiniteSet(Below(S, i)) /\ IsFiniteSet(Below(S, k))
  BY FS_Subset DEF Below
<1>2. Cardinality(Below(S, i)) \in Nat /\ Cardinality(Below(S, k)) \in Nat
  BY <1>1, FS_CardinalityType
<1>3. Below(S, i) \subseteq Below(S, k) /\ Below(S, i) # Below(S, k)
  <2>1. i \in Int /\ k \in Int /\ \A j \in S : j \in Int
    OBVIOUS
  <2>2. i \in Below(S, k) /\ i \notin Below(S, i)
    BY <2>1 DEF Below
  <2>3. \A j \in S : j < i => j < k
    BY <2>1
  <2>4. Below(S, i) \subseteq Below(S, k)
    BY <2>3 DEF Below
  <2> QED
    BY <2>2, <2>4
<1>4. /\ Cardinality(Below(S, i)) <= Cardinality(Below(S, k))
      /\ Cardinality(Below(S, k)) = Cardinality(Below(S, i)) => Below(S, k) = Below(S, i)
  BY <1>1, <1>3, FS_Subset
<1> QED
  BY <1>2, <1>3, <1>4

LEMMA BelowBound ==
  ASSUME NEW S, IsFiniteSet(S), S \subseteq Int, NEW i \in S
  PROVE  /\ Cardinality(S) \in Nat
         /\ Cardinality(Below(S, i)) \in 0 .. Cardinality(S) - 1
<1>1. Below(S, i) \subseteq S /\ i \notin Below(S, i)
  BY DEF Below
<1>2. IsFiniteSet(Below(S, i)) /\ Cardinality(Below(S, i)) <= Cardinality(S)
      /\ Cardinality(S) # Cardinality(Below(S, i))
  BY <1>1, FS_Subset
<1>3. Cardinality(S) \in Nat /\ Cardinality(Below(S, i)) \in Nat
  BY <1>2, FS_CardinalityType
<1> QED
  BY <1>2, <1>3

\* Every element is the n-th one for exactly one n.
LEMMA NthIs ==
  ASSUME NEW S, IsFiniteSet(S), S \subseteq Int, NEW i \in S,
         NEW n, Cardinality(Below(S, i)) = n - 1
  PROVE  Nth(S, n) = i
<1>1. \A k \in S : Cardinality(Below(S, k)) = n - 1 => k = i
  <2> SUFFICES ASSUME NEW k \in S, Cardinality(Below(S, k)) = n - 1, k # i
               PROVE  FALSE
    OBVIOUS
  <2>1. k < i \/ i < k
    OBVIOUS
  <2> DEFINE x == Cardinality(Below(S, i))
             y == Cardinality(Below(S, k))
  <2>2. x = y
    OBVIOUS
  <2>3. x \in Nat /\ y \in Nat /\ (x < y \/ y < x)
    BY <2>1, BelowGrows
  <2> HIDE DEF x, y
  <2> QED
    BY <2>2, <2>3
<1>2. Nth(S, n) = CHOOSE k \in S : Cardinality(Below(S, k)) = n - 1
  BY DEF Nth, Below
<1> QED
  BY <1>1, <1>2

LEMMA NthOf ==
  ASSUME NEW S, IsFiniteSet(S), S \subseteq Int, NEW n \in 1..Cardinality(S)
  PROVE  Nth(S, n) \in S /\ Cardinality(Below(S, Nth(S, n))) = n - 1
<1> DEFINE c == Cardinality(S)
           f == [i \in S |-> Cardinality(Below(S, i))]
<1>1. c \in Nat
  BY FS_CardinalityType
<1>2. IsFiniteSet(0..c - 1) /\ Cardinality(0..c - 1) = c
  <2> HIDE DEF c
  <2>1. c - 1 \in Int /\ 0 \in Int /\ (0 > c - 1 => c = 0) /\ c - 1 - 0 + 1 = c
    BY <1>1
  <2>2. /\ IsFiniteSet(0..c - 1)
        /\ Cardinality(0..c - 1) = IF 0 > c - 1 THEN 0 ELSE c - 1 - 0 + 1
    BY <2>1, FS_Interval
  <2> QED
    BY <2>1, <2>2
<1>3. f \in [S -> 0..c - 1]
  BY BelowBound
<1>4. \A i, k \in S : f[i] = f[k] => i = k
  <2> SUFFICES ASSUME NEW i \in S, NEW k \in S, f[i] = f[k], i # k
               PROVE  FALSE
    OBVIOUS
  <2>1. i < k \/ k < i
    OBVIOUS
  <2> DEFINE x == Cardinality(Below(S, i))
             y == Cardinality(Below(S, k))
  <2>2. x = y
    OBVIOUS
  <2>3. x \in Nat /\ y \in Nat /\ (x < y \/ y < x)
    BY <2>1, BelowGrows
  <2> HIDE DEF x, y
  <2> QED
    BY <2>2, <2>3
<1> HIDE DEF f
<1>5. f \in Injection(S, 0..c - 1)
  BY <1>3, <1>4 DEF Injection, IsInjective
<1>6. f \in Surjection(S, 0..c - 1)
  BY <1>2, <1>5, FS_Injection
<1>7. n - 1 \in 0..c - 1
  BY <1>1
<1>8. PICK i \in S : f[i] = n - 1
  BY <1>6, <1>7 DEF Surjection
<1>9. Cardinality(Below(S, i)) = n - 1
  BY <1>8 DEF f
<1>10. Nth(S, n) = i
  BY <1>9, NthIs
<1> QED
  BY <1>9, <1>10

(***************************************************************************)
(* BuildSettlement lists every provider of the receipts once.              *)
(***************************************************************************)

\* Sets of receipts that SettleOnce can turn into a transaction.
Payable(R) ==
  IsFiniteSet(R) /\ R \subseteq Receipt /\ \A r \in R : r.provider \in Registered

LEMMA ProvidersListed ==
  ASSUME NEW R, Payable(R)
  PROVE  \E c \in Nat :
           /\ DOMAIN SettlementProviders(R) = 1..c
           /\ Len(SettlementProviders(R)) = c
           /\ \A n \in 1..c : SettlementProviders(R)[n] \in Registered
           /\ \A m, n \in 1..c :
                SettlementProviders(R)[m] = SettlementProviders(R)[n] => m = n
           /\ \A r \in R : \E n \in 1..c : SettlementProviders(R)[n] = r.provider
<1> DEFINE S == Places(R)
           c == Cardinality(S)
           s == SettlementProviders(R)
<1>1. IsFiniteSet(S) /\ S \subseteq Int /\ S \subseteq DOMAIN PeerOrder
  <2>1. Len(PeerOrder) \in Nat /\ DOMAIN PeerOrder = 1..Len(PeerOrder)
    BY PeerAssumption
  <2>2. S \subseteq 1..Len(PeerOrder)
    BY <2>1 DEF Places
  <2>3. IsFiniteSet(1..Len(PeerOrder))
    BY <2>1, FS_Interval
  <2>4. IsFiniteSet(S)
    BY <2>2, <2>3, FS_Subset
  <2> QED
    BY <2>1, <2>2, <2>4
<1>2. c \in Nat
  BY <1>1, FS_CardinalityType
<1>3. s = [n \in 1..c |-> PeerOrder[Nth(S, n)]]
  BY DEF SettlementProviders
<1>4. \A i \in S : PeerOrder[i] \in Registered
  BY DEF Places, Payable
<1>5. \A r \in R : \E i \in S : PeerOrder[i] = r.provider
  BY PeerAssumption DEF Payable, Receipt, Places
<1> HIDE DEF s, S
<1>6. \A n \in 1..c : Nth(S, n) \in S /\ Cardinality(Below(S, Nth(S, n))) = n - 1
  BY <1>1, NthOf
<1>7. DOMAIN s = 1..c /\ Len(s) = c
  BY <1>2, <1>3
<1>8. \A n \in 1..c : s[n] \in Registered
  BY <1>3, <1>4, <1>6
<1>9. ASSUME NEW m \in 1..c, NEW n \in 1..c, s[m] = s[n]
      PROVE  m = n
  <2>1. Nth(S, m) = Nth(S, n)
    BY <1>1, <1>3, <1>6, <1>9, PeerAssumption
  <2>2. m - 1 = n - 1
    BY <1>6, <2>1
  <2> QED
    BY <2>2, <1>2
<1>10. ASSUME NEW r \in R
       PROVE  \E n \in 1..c : s[n] = r.provider
  <2>1. PICK i \in S : PeerOrder[i] = r.provider
    BY <1>5
  <2> DEFINE k == Cardinality(Below(S, i))
             n == k + 1
  <2>2. n \in 1..c /\ k = n - 1
    <3>1. k \in 0..c - 1
      BY <1>1, BelowBound
    <3> HIDE DEF c, k
    <3> QED
      BY <3>1, <1>2
  <2> HIDE DEF n
  <2>3. Nth(S, n) = i
    BY <1>1, <2>2, NthIs
  <2> QED
    BY <1>3, <2>1, <2>2, <2>3
<1> QED
  BY <1>2, <1>7, <1>8, <1>9, <1>10 DEF s

(***************************************************************************)
(* Adding up by provider and then over providers is adding up the receipts *)
(* of those providers, as long as no provider is listed twice.             *)
(***************************************************************************)
Sizes(R) == [r \in R |-> r.size]

LEMMA ServedBySize ==
  ASSUME NEW R, IsFiniteSet(R), \A r \in R : r.size \in Nat, NEW p
  PROVE  /\ ServedBy(R, p) = SumFunctionOnSet(Sizes(R), {r \in R : r.provider = p})
         /\ ServedBy(R, p) \in Nat
<1> DEFINE own == {r \in R : r.provider = p}
           f == [r \in own |-> r.size]
           g == Sizes(R)
<1>1. IsFiniteSet(own)
  BY FS_Subset
<1>2. \A r \in own : f[r] \in Nat /\ f[r] = g[r]
  BY DEF Sizes
<1>3. ServedBy(R, p) = SumFunctionOnSet(f, own)
  BY DEF ServedBy
<1> HIDE DEF own, f, g
<1>4. SumFunctionOnSet(f, own) = SumFunctionOnSet(g, own) /\ SumFunctionOnSet(f, own) \in Nat
  BY <1>1, <1>2, SumSame, SumNat
<1> QED
  BY <1>3, <1>4 DEF own, g

LEMMA GroupedSum ==
  ASSUME NEW R, IsFiniteSet(R), \A r \in R : r.size \in Nat,
         NEW s, NEW b, NEW B, IsFiniteSet(B),
         \A i, j \in B : s[i] = s[j] => i = j,
         \A i \in B : b[i] = ServedBy(R, s[i])
  PROVE  /\ \A i \in B : b[i] \in Nat
         /\ SumFunctionOnSet(b, B)
              = SumFunctionOnSet(Sizes(R), {r \in R : \E i \in B : r.provider = s[i]})
<1> DEFINE Of(T) == {r \in R : \E i \in T : r.provider = s[i]}
           g == Sizes(R)
           G == {T \in SUBSET B : SumFunctionOnSet(b, T) = SumFunctionOnSet(g, Of(T))}
<1>1. \A i \in B : b[i] \in Nat
  <2> TAKE i \in B
  <2> DEFINE p == s[i]
  <2>1. b[i] = ServedBy(R, p)
    OBVIOUS
  <2> HIDE DEF p
  <2>2. ServedBy(R, p) \in Nat
    BY ServedBySize
  <2> QED
    BY <2>1, <2>2
<1>2. \A r \in R : g[r] \in Nat
  BY DEF Sizes
<1>3. ASSUME NEW T \in SUBSET B, \A U \in SUBSET T : U # T => U \in G
      PROVE  T \in G
  <2>1. CASE T = {}
    <3>1. Of(T) = {}
      BY <2>1
    <3> QED
      BY <2>1, <3>1, SumEmpty
  <2>2. CASE T # {}
    <3>1. PICK c \in T : TRUE
      BY <2>2
    <3> DEFINE U == T \ {c}
               own == {r \in R : r.provider = s[c]}
    <3>2. U \in G
      BY <1>3, <3>1
    <3>3. SumFunctionOnSet(b, U) = SumFunctionOnSet(g, Of(U))
      BY <3>2
    <3>4. b[c] = SumFunctionOnSet(g, own)
      BY <3>1, ServedBySize
    <3>5. IsFiniteSet(T) /\ IsFiniteSet(own) /\ IsFiniteSet(Of(U))
      BY FS_Subset
    <3>6. SumFunctionOnSet(b, T) = b[c] + SumFunctionOnSet(b, U)
      BY <1>1, <3>1, <3>5, SumRemove
    <3>7. Of(T) = Of(U) \cup own /\ Of(U) \cap own = {}
      <4>1. Of(T) = Of(U) \cup own
        BY <3>1
      <4>2. \A r \in Of(U) : r.provider # s[c]
        BY <3>1
      <4> QED
        BY <4>1, <4>2
    <3>8. SumFunctionOnSet(g, Of(U) \cup own)
            = SumFunctionOnSet(g, Of(U)) + SumFunctionOnSet(g, own)
      <4>1. \A r \in Of(U) \cup own : g[r] \in Nat
        BY <1>2
      <4> DEFINE A == Of(U)
      <4> HIDE DEF A, own, g
      <4> QED
        BY <3>5, <3>7, <4>1, SumDisjointUnion DEF A
    <3>9. SumFunctionOnSet(g, Of(U)) \in Nat /\ SumFunctionOnSet(g, own) \in Nat
      BY <1>2, <3>5, SumNat
    <3>10. SumFunctionOnSet(b, T) = SumFunctionOnSet(g, Of(T))
      <4> HIDE DEF Of, own, g, U
      <4> QED
        BY <3>3, <3>4, <3>6, <3>7, <3>8, <3>9
    <3> QED
      BY <3>10
  <2> QED
    BY <2>1, <2>2
<1> HIDE DEF G
<1>4. B \in G
  BY <1>3, FiniteSubsetInduction
<1> QED
  BY <1>1, <1>4 DEF G

(***************************************************************************)
(* What submitSettlement computes from the arrays SettleOnce encodes.      *)
(***************************************************************************)
LEMMA PayableSizes ==
  ASSUME NEW R, Payable(R)
  PROVE  IsFiniteSet(R) /\ \A r \in R : r.size \in Nat
BY PeerAssumption DEF Payable, Receipt

LEMMA EncodedArrays ==
  ASSUME NEW R, Payable(R)
  PROVE  \E c \in Nat :
           /\ Resolved(R) \in [1..c -> Address]
           /\ PerProviderBytes(R) \in [1..c -> Nat]
           /\ Len(Resolved(R)) = c
<1> DEFINE s == SettlementProviders(R)
<1>1. PICK c \in Nat : /\ DOMAIN s = 1..c
                       /\ \A n \in 1..c : s[n] \in Registered
  BY ProvidersListed
<1>2. Resolved(R) = [n \in 1..c |-> Resolve[s[n]]]
  BY <1>1 DEF Resolved
<1>3. PerProviderBytes(R) = [n \in 1..c |-> ServedBy(R, s[n])]
  BY <1>1 DEF PerProviderBytes
<1> HIDE DEF s
<1>4. Resolved(R) \in [1..c -> Address] /\ Len(Resolved(R)) = c
  BY <1>1, <1>2, ResolverAssumption
<1>5. \A n \in 1..c : ServedBy(R, s[n]) \in Nat
  BY PayableSizes, ServedBySize
<1>6. PerProviderBytes(R) \in [1..c -> Nat]
  BY <1>3, <1>5
<1> QED
  BY <1>4, <1>6

LEMMA BytesForSize ==
  ASSUME NEW R, Payable(R), NEW a
  PROVE  /\ BytesFor(R, a) = SumFunctionOnSet(Sizes(R), {r \in R : Resolve[r.provider] = a})
         /\ BytesFor(R, a) \in Nat
<1> DEFINE own == {r \in R : r.provider \in Registered /\ Resolve[r.provider] = a}
           f == [r \in own |-> r.size]
           g == Sizes(R)
<1>1. IsFiniteSet(own) /\ own = {r \in R : Resolve[r.provider] = a}
  <2>1. IsFiniteSet(R) /\ own \in SUBSET R
    BY PayableSizes
  <2>2. IsFiniteSet(own)
    BY <2>1, FS_Subset
  <2> QED
    BY <2>2 DEF Payable
<1>2. \A r \in own : f[r] \in Nat /\ f[r] = g[r]
  BY PayableSizes DEF Sizes
<1>3. BytesFor(R, a) = SumFunctionOnSet(f, own)
  BY DEF BytesFor, Sum
<1> HIDE DEF own, f, g
<1>4. SumFunctionOnSet(f, own) = SumFunctionOnSet(g, own) /\ SumFunctionOnSet(f, own) \in Nat
  BY <1>1, <1>2, SumSame, SumNat
<1> QED
  BY <1>1, <1>3, <1>4 DEF g

LEMMA TotalBytesAreAll ==
  ASSUME NEW R, Payable(R)
  PROVE  TotalBytes(PerProviderBytes(R)) = AllBytes(R) /\ AllBytes(R) \in Nat
<1> DEFINE s == SettlementProviders(R)
           b == PerProviderBytes(R)
<1>1. PICK c \in Nat : /\ DOMAIN s = 1..c
                       /\ \A m, n \in 1..c : s[m] = s[n] => m = n
                       /\ \A r \in R : \E n \in 1..c : s[n] = r.provider
  BY ProvidersListed
<1>2. DOMAIN b = 1..c /\ \A i \in 1..c : b[i] = ServedBy(R, s[i])
  BY <1>1 DEF PerProviderBytes
<1>3. IsFiniteSet(1..c)
  BY FS_Interval
<1>4. IsFiniteSet(R) /\ \A r \in R : r.size \in Nat
  BY PayableSizes
<1> HIDE DEF s, b
<1>5. SumFunctionOnSet(b, 1..c)
        = SumFunctionOnSet(Sizes(R), {r \in R : \E i \in 1..c : r.provider = s[i]})
  BY <1>1, <1>2, <1>3, <1>4, GroupedSum
<1>6. {r \in R : \E i \in 1..c : r.provider = s[i]} = R
  BY <1>1
<1>7. TotalBytes(b) = SumFunctionOnSet(b, 1..c)
  BY <1>2 DEF TotalBytes, Sum
<1>8. AllBytes(R) = SumFunctionOnSet(Sizes(R), R)
  BY DEF AllBytes, Sum, Sizes
<1>9. SumFunctionOnSet(Sizes(R), R) \in Nat
  <2>1. \A r \in R : Sizes(R)[r] \in Nat
    BY <1>4 DEF Sizes
  <2> QED
    BY <1>4, <2>1, SumNat
<1> QED
  BY <1>5, <1>6, <1>7, <1>8, <1>9 DEF b

LEMMA BytesOfAreBytesFor ==
  ASSUME NEW R, Payable(R), NEW a
  PROVE  BytesOf(Resolved(R), PerProviderBytes(R), a) = BytesFor(R, a)
<1> DEFINE s == SettlementProviders(R)
           b == PerProviderBytes(R)
           B == Positions(Resolved(R), a)
<1>1. PICK c \in Nat : /\ DOMAIN s = 1..c
                       /\ \A m, n \in 1..c : s[m] = s[n] => m = n
                       /\ \A r \in R : \E n \in 1..c : s[n] = r.provider
  BY ProvidersListed
<1>2. \A i \in 1..c : b[i] = ServedBy(R, s[i])
  BY <1>1 DEF PerProviderBytes
<1>3. B = {i \in 1..c : Resolve[s[i]] = a}
  BY <1>1 DEF Positions, Resolved
<1>4. IsFiniteSet(B)
  <2>1. IsFiniteSet(1..c) /\ B \in SUBSET (1..c)
    BY <1>3, FS_Interval
  <2> HIDE DEF B
  <2> QED
    BY <2>1, FS_Subset
<1>5. IsFiniteSet(R) /\ \A r \in R : r.size \in Nat
  BY PayableSizes
<1> HIDE DEF s, b, B
<1>6. SumFunctionOnSet(b, B)
        = SumFunctionOnSet(Sizes(R), {r \in R : \E i \in B : r.provider = s[i]})
  <2>1. /\ \A i, j \in B : s[i] = s[j] => i = j
        /\ \A i \in B : b[i] = ServedBy(R, s[i])
    BY <1>1, <1>2, <1>3
  <2> QED
    BY <1>4, <1>5, <2>1, GroupedSum
<1>7. {r \in R : \E i \in B : r.provider = s[i]} = {r \in R : Resolve[r.provider] = a}
  BY <1>1, <1>3
<1>8. BytesOf(Resolved(R), b, a) = SumFunctionOnSet(b, B)
  BY DEF BytesOf, Sum, B
<1> QED
  BY <1>6, <1>7, <1>8, BytesForSize DEF b

\* Every provider has an address of its own.  Where two share one, the contract
\* keeps the allocation of the last and drops the others' (PersistencePool.sol:212).
OneNodeEach == \A p, q \in Registered : Resolve[p] = Resolve[q] => p = q

LEMMA AllocatedByReceipts ==
  ASSUME OneNodeEach, NEW R, Payable(R), NEW a \in Address, AllBytes(R) # 0
  PROVE  Allocated(Resolved(R), PerProviderBytes(R), TotalRewards)[a]
           = Share(TotalRewards, BytesFor(R, a), AllBytes(R))
<1> DEFINE s == SettlementProviders(R)
           b == PerProviderBytes(R)
           B == Positions(Resolved(R), a)
<1>1. PICK c \in Nat : /\ DOMAIN s = 1..c
                       /\ \A n \in 1..c : s[n] \in Registered
                       /\ \A m, n \in 1..c : s[m] = s[n] => m = n
  BY ProvidersListed
<1>2. B = {i \in 1..c : Resolve[s[i]] = a}
  BY <1>1 DEF Positions, Resolved
<1>3. BytesFor(R, a) = SumFunctionOnSet(b, B)
  BY BytesOfAreBytesFor DEF BytesOf, Sum
<1>4. TotalBytes(b) = AllBytes(R) /\ AllBytes(R) \in Nat
  BY TotalBytesAreAll
<1>5. Allocated(Resolved(R), b, TotalRewards)[a]
        = IF B = {} THEN 0
          ELSE Share(TotalRewards, b[LastPosition(Resolved(R), a)], AllBytes(R))
  BY <1>4 DEF Allocated
<1>6. CASE B = {}
  <2>1. BytesFor(R, a) = 0
    BY <1>3, <1>6, SumEmpty
  <2>2. Share(TotalRewards, 0, AllBytes(R)) = 0
    <3> DEFINE t == AllBytes(R)
    <3>1. t \in Nat /\ t # 0 /\ TotalRewards \in Nat
      BY <1>4, ResolverAssumption
    <3> HIDE DEF t
    <3>2. TotalRewards * 0 = 0 /\ 0 \div t = 0
      BY <3>1
    <3> QED
      BY <3>2 DEF Share, t
  <2> QED
    BY <1>5, <1>6, <2>1, <2>2
<1>7. CASE B # {}
  <2>1. PICK i \in B : TRUE
    BY <1>7
  <2>2. \A j \in B : j = i
    BY <1>1, <1>2, <2>1 DEF OneNodeEach
  <2>3. B = {i}
    BY <2>1, <2>2
  <2>4. LastPosition(Resolved(R), a) = i
    <3>1. i \in Int
      BY <1>2, <2>1
    <3>2. \A j \in B : j <= i
      BY <2>2, <3>1
    <3>3. LastPosition(Resolved(R), a) = CHOOSE k \in B : \A j \in B : j <= k
      BY DEF LastPosition
    <3> HIDE DEF B
    <3> QED
      BY <2>1, <2>2, <3>2, <3>3
  <2>5. SumFunctionOnSet(b, B) = b[i]
    <3>1. b[i] \in Nat
      <4>1. PICK d \in Nat : Resolved(R) \in [1..d -> Address] /\ b \in [1..d -> Nat]
        BY EncodedArrays
      <4>2. i \in 1..d
        BY <4>1, <2>1 DEF Positions
      <4> QED
        BY <4>1, <4>2
    <3>2. IsFiniteSet({i}) /\ {i} \ {i} = {}
      BY FS_Singleton
    <3> HIDE DEF b
    <3>3. SumFunctionOnSet(b, {i}) = b[i] + SumFunctionOnSet(b, {i} \ {i})
      BY <3>1, <3>2, SumRemove
    <3>4. SumFunctionOnSet(b, {i}) = b[i] + 0
      BY <3>2, <3>3, SumEmpty
    <3> QED
      BY <2>3, <3>1, <3>4
  <2> QED
    BY <1>3, <1>5, <1>7, <2>4, <2>5
<1> QED
  BY <1>6, <1>7

\* One more settlement is one more n-th settlement; the others stay.
LEMMA NthAfterAppend ==
  ASSUME NEW S, IsFiniteSet(S), S \subseteq Int, NEW x \in Int, \A i \in S : i < x
  PROVE  LET T == S \cup {x}
         IN  /\ IsFiniteSet(T)
             /\ Cardinality(S) \in Nat
             /\ Cardinality(T) = Cardinality(S) + 1
             /\ \A n \in 1..Cardinality(S) : Nth(T, n) = Nth(S, n) /\ Nth(S, n) \in S
             /\ Nth(T, Cardinality(S) + 1) = x
<1> DEFINE T == S \cup {x}
           c == Cardinality(S)
<1>1. x \notin S
  OBVIOUS
<1>2. IsFiniteSet(T) /\ Cardinality(T) = c + 1
  BY <1>1, FS_AddElement
<1>3. c \in Nat
  BY FS_CardinalityType
<1>4. \A i \in S : Below(T, i) = Below(S, i)
  <2> TAKE i \in S
  <2>1. ~(x < i)
    OBVIOUS
  <2> QED
    BY <2>1 DEF Below
<1>5. Below(T, x) = S
  <2>1. ~(x < x)
    OBVIOUS
  <2> QED
    BY <2>1 DEF Below
<1>6. T \subseteq Int /\ x \in T /\ \A i \in S : i \in T
  OBVIOUS
<1> HIDE DEF T, c
<1>7. ASSUME NEW n \in 1..c
      PROVE  Nth(T, n) = Nth(S, n) /\ Nth(S, n) \in S
  <2>1. Nth(S, n) \in S /\ Cardinality(Below(S, Nth(S, n))) = n - 1
    BY NthOf DEF c
  <2> DEFINE i == Nth(S, n)
  <2>2. i \in T /\ Cardinality(Below(T, i)) = n - 1
    BY <1>4, <1>6, <2>1
  <2> HIDE DEF i
  <2>3. Nth(T, n) = i
    BY <1>2, <1>6, <2>2, NthIs
  <2> QED
    BY <2>1, <2>3 DEF i
<1>8. Nth(T, c + 1) = x
  <2> DEFINE n == c + 1
  <2>1. Cardinality(Below(T, x)) = n - 1
    BY <1>3, <1>5 DEF c
  <2> HIDE DEF n
  <2>2. Nth(T, n) = x
    BY <1>2, <1>6, <2>1, NthIs
  <2> QED
    BY <2>2 DEF n
<1> QED
  BY <1>2, <1>3, <1>7, <1>8 DEF T, c

(***************************************************************************)
(* The inductive invariant of the loop.                                    *)
(***************************************************************************)

\* Every window that was read, whether its attempt is running, pending or
\* mined, holds finitely many receipts, all of registered providers: Tick stops
\* at a provider the resolver does not know.
ReceiptsKnown ==
  /\ IsFiniteSet(store)
  /\ Payable(job.receipts)
  /\ \A tx \in mempool : Payable(tx.receipts)
  /\ \A i \in DOMAIN mined : Payable(mined[i].receipts)

LoopInv ==
  /\ CoordInv
  /\ ReceiptsKnown
  /\ cumulativeBytesServed \in [Address -> Nat]
  /\ BytesCountedOnce

\* With an address for each provider the allocations are the shares by receipts.
PaidInv ==
  /\ allocations \in Seq([Address -> Nat])
  /\ PaidByReceipts

LEMMA LoopIsCoord ==
  ASSUME [LoopNext]_loopVars
  PROVE  [CoordNext]_coordVars
BY DEF LoopNext, loopVars, OffChain, MineSettled, MineReverted, Evict, Fund, Pull,
       CoordNext, Chain

LEMMA WindowPayable ==
  ASSUME CoordTypeOK, IsFiniteSet(store), Tick
  PROVE  Payable(job'.receipts)
<1> DEFINE W == Window(lastSince, now)
<1>1. job'.receipts = W /\ \A r \in W : r.provider \in Registered
  BY DEF Tick
<1>2. W \in SUBSET store /\ store \subseteq Receipt
  BY DEF Window, CoordTypeOK
<1>3. IsFiniteSet(W)
  BY <1>2, FS_Subset
<1> QED
  BY <1>1, <1>2, <1>3 DEF Payable

LEMMA NothingPayable == Payable(NoJob.receipts)
BY FS_EmptySet DEF Payable, NoJob

LEMMA Receipts_Known ==
  ASSUME CoordTypeOK, ReceiptsKnown, Receipts
  PROVE  ReceiptsKnown'
<1>1. UNCHANGED <<driverVars, chainVars>>
  BY DEF Receipts, CoordClock, CoordIssue, CoordAck, CoordAckLost, historyVars
<1>2. IsFiniteSet(store')
  <2>1. CASE UNCHANGED store
    BY <2>1 DEF ReceiptsKnown
  <2>2. ASSUME NEW r \in inflight, Ack(r)
        PROVE  IsFiniteSet(store')
    <3> DEFINE kept == {s \in store : ReceiptKey(s) # ReceiptKey(r)}
    <3>1. store' = kept \cup {r} /\ kept \in SUBSET store
      BY <2>2 DEF Ack
    <3>2. IsFiniteSet(kept)
      BY <3>1, FS_Subset DEF ReceiptsKnown
    <3> HIDE DEF kept
    <3> QED
      BY <3>1, <3>2, FS_AddElement
  <2> QED
    BY <2>1, <2>2 DEF Receipts, CoordClock, ClockAdvances, CoordIssue, Issue, CoordAck,
       CoordAckLost, AckLost
<1> QED
  BY <1>1, <1>2 DEF ReceiptsKnown, driverVars, chainVars

LEMMA Driver_Known ==
  ASSUME CoordTypeOK, ReceiptsKnown, Driver
  PROVE  ReceiptsKnown'
<1> USE DEF porVars, chainVars
<1>1. CASE Tick
  <2>1. UNCHANGED <<store, mempool, mined>>
    BY <1>1 DEF Tick
  <2>2. Payable(job'.receipts)
    BY <1>1, WindowPayable DEF ReceiptsKnown
  <2> QED
    BY <2>1, <2>2 DEF ReceiptsKnown
<1>2. CASE Sign
  <2>1. UNCHANGED <<store, mempool, mined>> /\ job'.receipts = job.receipts
    BY <1>2 DEF Sign, CoordTypeOK, Job
  <2> QED
    BY <2>1 DEF ReceiptsKnown
<1>3. CASE Send
  BY <1>3 DEF Send, ReceiptsKnown
<1>4. CASE WaitSucceeds \/ WaitReverted \/ WaitTimesOut
  <2>1. UNCHANGED <<store, mempool, mined>> /\ job' = NoJob
    BY <1>4 DEF WaitSucceeds, WaitReverted, WaitTimesOut
  <2> QED
    BY <2>1, NothingPayable DEF ReceiptsKnown
<1> QED
  BY <1>1, <1>2, <1>3, <1>4 DEF Driver

LEMMA Faults_Known ==
  ASSUME ReceiptsKnown, Faults
  PROVE  ReceiptsKnown'
<1>1. /\ UNCHANGED <<store, mined>> /\ job' = NoJob
      /\ mempool' \subseteq mempool \cup {job}
  BY DEF Faults, RpcFails, SendUnconfirmed, WaitFails, Restart, Abandon, porVars, chainVars
<1> QED
  BY <1>1, NothingPayable DEF ReceiptsKnown

LEMMA Chain_Known ==
  ASSUME CoordTypeOK, ReceiptsKnown, Chain
  PROVE  ReceiptsKnown'
<1>1. PICK tx \in mempool : Mine(tx, TRUE) \/ Mine(tx, FALSE) \/ Drop(tx)
  BY DEF Chain
<1>2. UNCHANGED <<store, job>> /\ mempool' \subseteq mempool
  BY <1>1 DEF Mine, Drop, porVars, driverVars
<1>3. CASE Drop(tx)
  BY <1>2, <1>3 DEF Drop, ReceiptsKnown
<1>4. ASSUME NEW ok \in BOOLEAN, Mine(tx, ok)
      PROVE  ReceiptsKnown'
  <2> DEFINE m == [since |-> tx.since, until |-> tx.until, receipts |-> tx.receipts, ok |-> ok]
  <2>1. mined' = Append(mined, m) /\ Payable(m.receipts)
    BY <1>4 DEF Mine, ReceiptsKnown
  <2>2. \A i \in DOMAIN mined' : mined'[i] = m \/ (i \in DOMAIN mined /\ mined'[i] = mined[i])
    <3>1. mined \in Seq([since : Int, until : Nat, receipts : SUBSET Receipt, ok : BOOLEAN])
      BY DEF CoordTypeOK
    <3> HIDE DEF m
    <3> QED
      BY <2>1, <3>1
  <2> HIDE DEF m
  <2> QED
    BY <1>2, <2>1, <2>2 DEF ReceiptsKnown
<1> QED
  BY <1>1, <1>3, <1>4

LEMMA ReceiptsKnown_Step ==
  ASSUME CoordTypeOK, ReceiptsKnown, [CoordNext]_coordVars
  PROVE  ReceiptsKnown'
<1>1. CASE UNCHANGED coordVars
  BY <1>1 DEF ReceiptsKnown, coordVars, porVars, driverVars, chainVars
<1> QED
  BY <1>1, Receipts_Known, Driver_Known, Faults_Known, Chain_Known DEF CoordNext

\* A step that settles nothing leaves the settlements and the contract's
\* allocations and byte counters alone, and never takes a disturbance back.
LEMMA NothingSettled ==
  ASSUME CoordTypeOK, [LoopNext]_loopVars, ~ \E tx \in mempool : MineSettled(tx)
  PROVE  /\ Settled' = Settled
         /\ \A i \in Settled : mined'[i] = mined[i]
         /\ UNCHANGED <<cumulativeBytesServed, allocations>>
         /\ disturbed => disturbed'
<1>1. CASE OffChain
  <2>1. UNCHANGED vars /\ (Driver \/ Faults \/ Receipts)
    BY <1>1 DEF OffChain
  <2>2. CASE Driver
    <3>1. CASE WaitTimesOut
      <4>1. UNCHANGED mined
        BY <3>1 DEF WaitTimesOut, chainVars
      <4>2. disturbed => disturbed'
        BY <3>1, Zenon DEF WaitTimesOut
      <4> QED
        BY <2>1, <4>1, <4>2 DEF vars, Settled
    <3>2. CASE Tick \/ Sign \/ Send \/ WaitSucceeds \/ WaitReverted
      <4>1. UNCHANGED <<mined, disturbed>>
        BY <3>2 DEF Tick, Sign, Send, WaitSucceeds, WaitReverted, chainVars, historyVars
      <4> QED
        BY <2>1, <4>1 DEF vars, Settled
    <3> QED
      BY <2>2, <3>1, <3>2 DEF Driver
  <2>3. CASE Faults
    <3>1. UNCHANGED mined /\ (disturbed' = TRUE \/ UNCHANGED disturbed)
      BY <2>3 DEF Faults, RpcFails, SendUnconfirmed, WaitFails, Restart, Abandon, chainVars
    <3> QED
      BY <2>1, <3>1 DEF vars, Settled
  <2>4. CASE Receipts
    <3>1. UNCHANGED <<mined, disturbed>>
      BY <2>4 DEF Receipts, CoordClock, CoordIssue, CoordAck, CoordAckLost, chainVars,
         historyVars
    <3> QED
      BY <2>1, <3>1 DEF vars, Settled
  <2> QED
    BY <2>1, <2>2, <2>3, <2>4
<1>2. ASSUME NEW tx \in mempool, Evict(tx)
      PROVE  UNCHANGED <<mined, disturbed, cumulativeBytesServed, allocations>>
  BY <1>2 DEF Evict, Drop, vars
<1>3. ASSUME NEW tx \in mempool, MineReverted(tx)
      PROVE  /\ Settled' = Settled
             /\ \A i \in Settled : mined'[i] = mined[i]
             /\ UNCHANGED <<disturbed, cumulativeBytesServed, allocations>>
  <2> DEFINE m == [since |-> tx.since, until |-> tx.until, receipts |-> tx.receipts, ok |-> FALSE]
  <2>1. /\ mined' = Append(mined, m) /\ m.ok = FALSE
        /\ UNCHANGED <<disturbed, cumulativeBytesServed, allocations>>
    BY <1>3 DEF MineReverted, Mine, vars
  <2>2. mined \in Seq([since : Int, until : Nat, receipts : SUBSET Receipt, ok : BOOLEAN])
    BY DEF CoordTypeOK
  <2> HIDE DEF m
  <2>3. /\ \A i \in DOMAIN mined : i \in DOMAIN mined' /\ mined'[i] = mined[i]
        /\ \A i \in DOMAIN mined' : i \in DOMAIN mined \/ mined'[i] = m
    BY <2>1, <2>2
  <2> QED
    BY <2>1, <2>3 DEF Settled
<1>4. ASSUME NEW sender, NEW manifestCid, NEW amount, Fund(sender, manifestCid, amount)
      PROVE  UNCHANGED <<mined, disturbed, cumulativeBytesServed, allocations>>
  BY <1>4 DEF Fund, Deposit, books, coordVars, chainVars, historyVars
<1>5. ASSUME NEW sender, NEW id, Pull(sender, id)
      PROVE  UNCHANGED <<mined, disturbed, cumulativeBytesServed, allocations>>
  BY <1>5 DEF Pull, Claim, coordVars, chainVars, historyVars
<1>6. CASE UNCHANGED loopVars
  BY <1>6 DEF loopVars, vars, coordVars, chainVars, historyVars, Settled
<1>7. CASE UNCHANGED <<mined, disturbed, cumulativeBytesServed, allocations>>
  BY <1>7 DEF Settled
<1> QED
  BY <1>1, <1>2, <1>3, <1>4, <1>5, <1>6, <1>7 DEF LoopNext

(***************************************************************************)
(* A settlement is mined.                                                  *)
(***************************************************************************)
LEMMA SettledFinite ==
  ASSUME CoordTypeOK
  PROVE  /\ Len(mined) \in Nat
         /\ IsFiniteSet(Settled) /\ Settled \subseteq 1..Len(mined)
         /\ Settled \subseteq Int /\ Settled \subseteq DOMAIN mined
<1>1. Len(mined) \in Nat /\ DOMAIN mined = 1..Len(mined)
  BY Mined_Facts
<1>2. Settled \in SUBSET (1..Len(mined)) /\ IsFiniteSet(1..Len(mined))
  BY <1>1, FS_Interval DEF Settled
<1>3. IsFiniteSet(Settled)
  BY <1>2, FS_Subset
<1> QED
  BY <1>1, <1>2, <1>3

LEMMA MineSettledEffect ==
  ASSUME CoordInv, ReceiptsKnown, NEW tx \in mempool, MineSettled(tx)
  PROVE  LET L == Len(mined)
         IN  /\ L \in Nat
             /\ Settled' = Settled \cup {L + 1}
             /\ \A i \in Settled : i \in Int /\ i < L + 1 /\ mined'[i] = mined[i]
             /\ mined'[L + 1].receipts = tx.receipts
             /\ Payable(tx.receipts)
             /\ UNCHANGED disturbed
<1> DEFINE L == Len(mined)
           m == [since |-> tx.since, until |-> tx.until, receipts |-> tx.receipts, ok |-> TRUE]
<1>1. /\ mined' = Append(mined, m) /\ m.ok = TRUE /\ m.receipts = tx.receipts
      /\ UNCHANGED disturbed
  BY DEF MineSettled, Mine
<1>2. mined \in Seq([since : Int, until : Nat, receipts : SUBSET Receipt, ok : BOOLEAN])
  BY DEF CoordInv, CoordTypeOK
<1>3. L \in Nat /\ Settled \subseteq 1..L
  BY SettledFinite DEF CoordInv
<1> HIDE DEF m
<1>4. /\ DOMAIN mined' = DOMAIN mined \cup {L + 1}
      /\ \A i \in DOMAIN mined : mined'[i] = mined[i]
      /\ mined'[L + 1] = m
  BY <1>1, <1>2
<1>5. Settled' = Settled \cup {L + 1}
  <2>1. DOMAIN mined = 1..L
    BY <1>2
  <2>2. L + 1 \notin DOMAIN mined
    BY <1>3, <2>1
  <2> HIDE DEF L
  <2> QED
    BY <1>1, <1>4, <2>2 DEF Settled
<1>6. \A i \in Settled : i \in Int /\ i < L + 1 /\ mined'[i] = mined[i]
  <2>1. \A i \in Settled : mined'[i] = mined[i]
    BY <1>4 DEF Settled
  <2>2. \A i \in Settled : i \in Int /\ i < L + 1
    BY <1>3
  <2> QED
    BY <2>1, <2>2
<1>7. Payable(tx.receipts)
  BY DEF ReceiptsKnown
<1> QED
  BY <1>1, <1>3, <1>4, <1>5, <1>6, <1>7

\* The call that ran: the arguments of the transaction's receipts.
LEMMA ExecutesEffect ==
  ASSUME NEW R, Payable(R),
         NEW merkleRoot,
         SubmitSettlement(InitialCoordinator, merkleRoot, Resolved(R),
                          PerProviderBytes(R), TotalRewards),
         cumulativeBytesServed \in [Address -> Nat]
  PROVE  /\ AllBytes(R) # 0
         /\ allocations' = Append(allocations,
              Allocated(Resolved(R), PerProviderBytes(R), TotalRewards))
         /\ cumulativeBytesServed' =
              [a \in Address |-> cumulativeBytesServed[a] + BytesFor(R, a)]
         /\ cumulativeBytesServed' \in [Address -> Nat]
<1>1. /\ TotalBytes(PerProviderBytes(R)) # 0
      /\ allocations' = Append(allocations,
           Allocated(Resolved(R), PerProviderBytes(R), TotalRewards))
      /\ cumulativeBytesServed' =
           [a \in Address |-> cumulativeBytesServed[a]
                                + BytesOf(Resolved(R), PerProviderBytes(R), a)]
  BY DEF SubmitSettlement
<1>2. \A a \in Address : BytesOf(Resolved(R), PerProviderBytes(R), a) = BytesFor(R, a)
  BY BytesOfAreBytesFor
<1>3. \A a \in Address : BytesFor(R, a) \in Nat
  BY BytesForSize
<1>4. AllBytes(R) # 0
  BY <1>1, TotalBytesAreAll
<1>5. cumulativeBytesServed' =
        [a \in Address |-> cumulativeBytesServed[a] + BytesFor(R, a)]
  BY <1>1, <1>2
<1>6. cumulativeBytesServed' \in [Address -> Nat]
  BY <1>3, <1>5
<1> QED
  BY <1>1, <1>4, <1>5, <1>6

\* All receipts settled so far.
Paid == UNION {mined[i].receipts : i \in Settled}

LEMMA PaidPayable ==
  ASSUME CoordTypeOK, ReceiptsKnown
  PROVE  Payable(Paid)
<1> DEFINE f == [i \in Settled |-> mined[i].receipts]
           F == {mined[i].receipts : i \in Settled}
<1>1. IsFiniteSet(Settled) /\ Settled \subseteq DOMAIN mined
  BY SettledFinite
<1>2. f \in Surjection(Settled, F)
  BY DEF Surjection
<1>3. \A i \in Settled : Payable(mined[i].receipts)
  BY <1>1 DEF ReceiptsKnown
<1>4. \A T \in F : Payable(T)
  BY <1>3
<1>5. Paid = UNION F
  BY DEF Paid
<1> HIDE DEF f, F
<1>6. IsFiniteSet(F)
  BY <1>1, <1>2, FS_Surjection
<1>7. \A T \in F : IsFiniteSet(T)
  BY <1>4 DEF Payable
<1>8. IsFiniteSet(Paid)
  BY <1>5, <1>6, <1>7, FS_UNION
<1> QED
  BY <1>4, <1>5, <1>8 DEF Payable

LEMMA BytesForUnion ==
  ASSUME NEW Q, Payable(Q), NEW R, Payable(R), Q \cap R = {}, NEW a
  PROVE  /\ Payable(Q \cup R)
         /\ BytesFor(Q \cup R, a) = BytesFor(Q, a) + BytesFor(R, a)
<1> DEFINE V == Q \cup R
           At(T) == {r \in T : Resolve[r.provider] = a}
<1>1. Payable(V)
  <2>1. IsFiniteSet(V)
    BY FS_Union DEF Payable
  <2> QED
    BY <2>1 DEF Payable
<1>2. IsFiniteSet(At(Q)) /\ IsFiniteSet(At(R))
  <2>1. IsFiniteSet(Q) /\ IsFiniteSet(R) /\ At(Q) \in SUBSET Q /\ At(R) \in SUBSET R
    BY DEF Payable
  <2> HIDE DEF At
  <2> QED
    BY <2>1, FS_Subset
<1>3. At(V) = At(Q) \cup At(R) /\ At(Q) \cap At(R) = {}
  OBVIOUS
<1>4. /\ \A r \in V : Sizes(V)[r] \in Nat
      /\ \A r \in Q : Sizes(V)[r] = Sizes(Q)[r]
      /\ \A r \in R : Sizes(V)[r] = Sizes(R)[r]
  BY <1>1, PayableSizes DEF Sizes
<1>5. /\ BytesFor(V, a) = SumFunctionOnSet(Sizes(V), At(V))
      /\ BytesFor(Q, a) = SumFunctionOnSet(Sizes(Q), At(Q))
      /\ BytesFor(R, a) = SumFunctionOnSet(Sizes(R), At(R))
  BY <1>1, BytesForSize
<1>6. /\ \A r \in At(Q) : Sizes(V)[r] \in Nat /\ Sizes(V)[r] = Sizes(Q)[r]
      /\ \A r \in At(R) : Sizes(V)[r] \in Nat /\ Sizes(V)[r] = Sizes(R)[r]
  BY <1>4
<1>7. \A r \in At(Q) \cup At(R) : Sizes(V)[r] \in Nat
  BY <1>6
<1> DEFINE A == At(Q)
           B == At(R)
           h == Sizes(V)
<1> HIDE DEF V, At, A, B, h
<1>8. SumFunctionOnSet(h, A) = SumFunctionOnSet(Sizes(Q), A)
  BY <1>2, <1>6, SumSame DEF A, h
<1>9. SumFunctionOnSet(h, B) = SumFunctionOnSet(Sizes(R), B)
  BY <1>2, <1>6, SumSame DEF B, h
<1>10. SumFunctionOnSet(h, A \cup B) = SumFunctionOnSet(h, A) + SumFunctionOnSet(h, B)
  BY <1>2, <1>3, <1>7, SumDisjointUnion DEF A, B, h
<1>11. BytesFor(V, a) = BytesFor(Q, a) + BytesFor(R, a)
  BY <1>3, <1>5, <1>8, <1>9, <1>10 DEF A, B, h
<1> QED
  BY <1>1, <1>11 DEF V

\* Undisturbed, the transaction being mined is the one being waited for, and
\* its window starts where every earlier settlement had ended.
LEMMA FreshReceipts ==
  ASSUME CoordInv, NEW tx \in mempool, tx.nonce = Len(mined) + 1, ~ disturbed
  PROVE  Paid \cap tx.receipts = {}
<1>1. /\ phase = "waiting" /\ tx = job
      /\ \A i \in Settled : mined[i].until <= lastSince \/ i = job.nonce
  BY DEF CoordInv, InOrder
<1>2. tx.since = lastSince /\ InWindow(tx)
  BY <1>1 DEF CoordInv, AttemptSound
<1>3. Len(mined) \in Nat /\ Settled \subseteq 1..Len(mined) /\ Settled \subseteq DOMAIN mined
  BY SettledFinite DEF CoordInv
<1> SUFFICES ASSUME NEW i \in Settled, NEW r \in mined[i].receipts, r \in tx.receipts
             PROVE  FALSE
  BY DEF Paid
<1>4. mined[i].until <= lastSince
  BY <1>1, <1>3
<1>5. InWindow(mined[i])
  BY <1>3 DEF CoordInv, WindowsSound
<1>6. r.ts < mined[i].until /\ lastSince <= r.ts
  BY <1>2, <1>5 DEF InWindow
<1>7. mined[i].until \in Int /\ lastSince \in Int
  BY <1>3, Mined_Facts DEF CoordInv
<1>8. r.ts \in Int
  <2>1. tx.receipts \subseteq Receipt
    BY DEF CoordInv, CoordTypeOK, Job
  <2> QED
    BY <2>1, ClockAssumption DEF Receipt
<1> QED
  BY <1>4, <1>6, <1>7, <1>8

LEMMA CountedAsPaid ==
  BytesCountedOnce <=>
    (~ disturbed => \A a \in Address : cumulativeBytesServed[a] = BytesFor(Paid, a))
BY DEF BytesCountedOnce, Paid

LEMMA SettledCounted ==
  ASSUME LoopInv, NEW tx \in mempool, MineSettled(tx)
  PROVE  cumulativeBytesServed' \in [Address -> Nat] /\ BytesCountedOnce'
<1> DEFINE L == Len(mined)
           R == tx.receipts
<1>1. CoordInv /\ ReceiptsKnown /\ CoordTypeOK /\ cumulativeBytesServed \in [Address -> Nat]
  BY DEF LoopInv, CoordInv
<1>2. /\ L \in Nat /\ Settled' = Settled \cup {L + 1}
      /\ \A i \in Settled : mined'[i] = mined[i]
      /\ mined'[L + 1].receipts = R
      /\ Payable(R) /\ UNCHANGED disturbed
  BY <1>1, MineSettledEffect
<1>3. PICK merkleRoot \in Root :
        SubmitSettlement(InitialCoordinator, merkleRoot, Resolved(R),
                         PerProviderBytes(R), TotalRewards)
  BY DEF MineSettled, Executes
<1>4. /\ cumulativeBytesServed' =
           [a \in Address |-> cumulativeBytesServed[a] + BytesFor(R, a)]
      /\ cumulativeBytesServed' \in [Address -> Nat]
  BY <1>1, <1>2, <1>3, ExecutesEffect
<1>5. Paid' = Paid \cup R
  <2> HIDE DEF L, R
  <2> QED
    BY <1>2 DEF Paid
<1>6. ASSUME ~ disturbed, NEW a \in Address
      PROVE  cumulativeBytesServed'[a] = BytesFor(Paid \cup R, a)
  <2>1. tx.nonce = L + 1
    BY DEF MineSettled, Mine
  <2>2. Paid \cap R = {}
    BY <1>1, <1>6, <2>1, FreshReceipts
  <2>3. Payable(Paid)
    BY <1>1, PaidPayable
  <2>4. cumulativeBytesServed[a] = BytesFor(Paid, a)
    BY <1>6, CountedAsPaid DEF LoopInv
  <2>5. BytesFor(Paid \cup R, a) = BytesFor(Paid, a) + BytesFor(R, a)
    <3> DEFINE Q == Paid
    <3>1. Payable(Q) /\ Payable(R) /\ Q \cap R = {}
      BY <1>2, <2>2, <2>3
    <3> HIDE DEF Q, R
    <3>2. BytesFor(Q \cup R, a) = BytesFor(Q, a) + BytesFor(R, a)
      BY ONLY <3>1, BytesForUnion
    <3> QED
      BY <3>2 DEF Q
  <2> QED
    BY <1>4, <2>4, <2>5
<1>7. BytesCountedOnce'
  <2> SUFFICES ASSUME ~ disturbed', NEW a \in Address
               PROVE  cumulativeBytesServed'[a] = BytesFor(Paid', a)
    BY DEF BytesCountedOnce, Paid
  <2> QED
    BY <1>2, <1>5, <1>6
<1> QED
  BY <1>4, <1>7

LEMMA LoopInit_Inv == LoopInit => LoopInv
<1> SUFFICES ASSUME LoopInit PROVE LoopInv
  OBVIOUS
<1>1. CoordInv
  BY CoordInit_Inv DEF LoopInit
<1>2. ReceiptsKnown
  BY NothingPayable, FS_EmptySet DEF LoopInit, CoordInit, PorInit, ReceiptsKnown
<1>3. cumulativeBytesServed = [a \in Address |-> 0]
  BY DEF LoopInit, Init
<1>4. ASSUME NEW a \in Address PROVE BytesFor(Paid, a) = 0
  <2>1. Paid = {}
    BY DEF LoopInit, CoordInit, Paid, Settled
  <2>2. BytesFor({}, a) = SumFunctionOnSet([r \in {} |-> r.size], {})
    BY DEF BytesFor, Sum
  <2> QED
    BY <2>1, <2>2, SumEmpty
<1>5. BytesCountedOnce
  BY <1>3, <1>4, CountedAsPaid
<1> QED
  BY <1>1, <1>2, <1>3, <1>5 DEF LoopInv

LEMMA LoopNext_Inv == LoopInv /\ [LoopNext]_loopVars => LoopInv'
<1> SUFFICES ASSUME LoopInv, [LoopNext]_loopVars PROVE LoopInv'
  OBVIOUS
<1>1. CoordInv /\ ReceiptsKnown /\ CoordTypeOK /\ [CoordNext]_coordVars
  BY LoopIsCoord DEF LoopInv, CoordInv
<1>2. CoordInv' /\ ReceiptsKnown'
  BY <1>1, CoordNext_Inv, ReceiptsKnown_Step
<1>3. CASE \E tx \in mempool : MineSettled(tx)
  BY <1>2, <1>3, SettledCounted DEF LoopInv
<1>4. CASE ~ \E tx \in mempool : MineSettled(tx)
  <2>1. /\ Settled' = Settled
        /\ \A i \in Settled : mined'[i] = mined[i]
        /\ UNCHANGED cumulativeBytesServed
        /\ disturbed => disturbed'
    BY <1>1, <1>4, NothingSettled
  <2>2. Paid' = Paid
    BY <2>1 DEF Paid
  <2>3. BytesCountedOnce'
    <3> SUFFICES ASSUME ~ disturbed', NEW a \in Address
                 PROVE  cumulativeBytesServed'[a] = BytesFor(Paid', a)
      BY DEF BytesCountedOnce, Paid
    <3>1. ~ disturbed
      BY <2>1
    <3> QED
      BY <2>1, <2>2, <3>1, CountedAsPaid DEF LoopInv
  <2> QED
    BY <1>2, <2>1, <2>3 DEF LoopInv
<1> QED
  BY <1>3, <1>4

LEMMA LoopInvariant == LoopSpec => []LoopInv
BY LoopInit_Inv, LoopNext_Inv, PTL DEF LoopSpec

\* The contract's byte counters are the sums of the distinct receipts that were
\* settled, whoever operates how many nodes, as long as no attempt was given up
\* with its transaction alive and the coordinator was not restarted
\* (settler.go:123-190, PersistencePool.sol:214).
THEOREM BytesAreCountedOnce == LoopSpec => []BytesCountedOnce
<1>1. LoopInv => BytesCountedOnce
  BY DEF LoopInv
<1> QED
  BY <1>1, LoopInvariant, PTL

(***************************************************************************)
(* The allocations, with an address for each provider.                     *)
(***************************************************************************)
LEMMA SettledPaid ==
  ASSUME OneNodeEach, LoopInv, PaidInv, NEW tx \in mempool, MineSettled(tx)
  PROVE  PaidInv'
<1> DEFINE L == Len(mined)
           R == tx.receipts
           c == Cardinality(Settled)
           A == Allocated(Resolved(R), PerProviderBytes(R), TotalRewards)
<1>1. CoordInv /\ ReceiptsKnown /\ CoordTypeOK /\ cumulativeBytesServed \in [Address -> Nat]
  BY DEF LoopInv, CoordInv
<1>2. /\ L \in Nat /\ Settled' = Settled \cup {L + 1}
      /\ \A i \in Settled : i \in Int /\ i < L + 1 /\ mined'[i] = mined[i]
      /\ mined'[L + 1].receipts = R
      /\ Payable(R)
  BY <1>1, MineSettledEffect
<1>3. PICK merkleRoot \in Root :
        SubmitSettlement(InitialCoordinator, merkleRoot, Resolved(R),
                         PerProviderBytes(R), TotalRewards)
  BY DEF MineSettled, Executes
<1>4. AllBytes(R) # 0 /\ allocations' = Append(allocations, A)
  BY <1>1, <1>2, <1>3, ExecutesEffect
<1>5. \A a \in Address : A[a] = Share(TotalRewards, BytesFor(R, a), AllBytes(R))
  BY <1>2, <1>4, AllocatedByReceipts
<1>6. A \in [Address -> Nat]
  <2>1. PICK n \in Nat : /\ Resolved(R) \in [1..n -> Address]
                         /\ PerProviderBytes(R) \in [1..n -> Nat]
    BY <1>2, EncodedArrays
  <2>2. TotalBytes(PerProviderBytes(R)) # 0
    BY <1>2, <1>4, TotalBytesAreAll
  <2>3. Resolved(R) \in [1..n -> Address \cup {ZeroAddress}]
    BY <2>1
  <2>4. TotalRewards \in Nat
    BY ResolverAssumption
  <2> QED
    BY <2>1, <2>2, <2>3, <2>4, AllocatedBound
<1>7. IsFiniteSet(Settled) /\ Settled \subseteq Int
  BY <1>1, SettledFinite
<1> HIDE DEF A, R, L
<1>8. /\ c \in Nat
      /\ Cardinality(Settled') = c + 1
      /\ \A n \in 1..c : Nth(Settled', n) = Nth(Settled, n) /\ Nth(Settled, n) \in Settled
      /\ Nth(Settled', c + 1) = L + 1
  <2>1. L + 1 \in Int
    BY <1>2
  <2> QED
    BY <1>2, <1>7, <2>1, NthAfterAppend
<1> HIDE DEF c
<1>9. /\ SettledTxs = [n \in 1..c |-> mined[Nth(Settled, n)]]
      /\ SettledTxs' = [n \in 1..(c + 1) |-> mined'[Nth(Settled', n)]]
  BY <1>8 DEF SettledTxs, c
<1>10. /\ Len(SettledTxs) = c /\ Len(SettledTxs') = c + 1
       /\ \A n \in 1..c : SettledTxs'[n] = SettledTxs[n]
       /\ SettledTxs'[c + 1].receipts = R
  <2>1. Len(SettledTxs) = c /\ Len(SettledTxs') = c + 1
    BY <1>8, <1>9
  <2>2. \A n \in 1..c : n \in 1..(c + 1)
    BY <1>8
  <2>3. \A n \in 1..c : SettledTxs'[n] = SettledTxs[n]
    BY <1>2, <1>8, <1>9, <2>2
  <2>4. c + 1 \in 1..(c + 1)
    BY <1>8
  <2>5. SettledTxs'[c + 1] = mined'[L + 1]
    BY <1>8, <1>9, <2>4
  <2> QED
    BY <1>2, <2>1, <2>3, <2>5
<1>11. /\ allocations \in Seq([Address -> Nat]) /\ Len(allocations) = c
       /\ \A id \in DOMAIN allocations : \A a \in Address :
            allocations[id][a] =
              Share(TotalRewards, BytesFor(SettledTxs[id].receipts, a),
                    AllBytes(SettledTxs[id].receipts))
  BY <1>10 DEF PaidInv, PaidByReceipts
<1>12. /\ allocations' \in Seq([Address -> Nat]) /\ Len(allocations') = c + 1
       /\ DOMAIN allocations' = DOMAIN allocations \cup {c + 1}
       /\ DOMAIN allocations = 1..c
       /\ \A id \in DOMAIN allocations : allocations'[id] = allocations[id]
       /\ allocations'[c + 1] = A
  <2> DEFINE S == [Address -> Nat]
  <2>1. allocations \in Seq(S) /\ A \in S
    BY <1>6, <1>11
  <2> HIDE DEF S
  <2>2. DOMAIN allocations = 1..c
    BY <1>11, <2>1
  <2> QED
    BY <1>4, <1>11, <2>1, <2>2, SeqAppend DEF S
<1>13. ASSUME NEW id \in DOMAIN allocations', NEW a \in Address
       PROVE  allocations'[id][a] =
                Share(TotalRewards, BytesFor(SettledTxs'[id].receipts, a),
                      AllBytes(SettledTxs'[id].receipts))
  <2>1. CASE id \in DOMAIN allocations
    <3>1. allocations'[id] = allocations[id] /\ SettledTxs'[id] = SettledTxs[id]
      BY <2>1, <1>10, <1>12
    <3> QED
      BY <2>1, <3>1, <1>11
  <2>2. CASE id = c + 1
    BY <2>2, <1>5, <1>10, <1>12
  <2> QED
    BY <2>1, <2>2, <1>12
<1> QED
  BY <1>10, <1>12, <1>13 DEF PaidInv, PaidByReceipts

LEMMA PaidInit == LoopInit => PaidInv
<1> SUFFICES ASSUME LoopInit PROVE PaidInv
  OBVIOUS
<1>1. allocations = <<>> /\ Settled = {}
  BY DEF LoopInit, Init, CoordInit, Settled
<1>2. Cardinality(Settled) = 0
  BY <1>1, FS_EmptySet
<1>3. Len(SettledTxs) = 0
  BY <1>2 DEF SettledTxs
<1> QED
  BY <1>1, <1>3 DEF PaidInv, PaidByReceipts

LEMMA PaidNext ==
  ASSUME OneNodeEach
  PROVE  LoopInv /\ PaidInv /\ [LoopNext]_loopVars => PaidInv'
<1> SUFFICES ASSUME LoopInv, PaidInv, [LoopNext]_loopVars PROVE PaidInv'
  OBVIOUS
<1>1. CASE \E tx \in mempool : MineSettled(tx)
  BY <1>1, SettledPaid
<1>2. CASE ~ \E tx \in mempool : MineSettled(tx)
  <2>1. CoordTypeOK
    BY DEF LoopInv, CoordInv
  <2>2. /\ Settled' = Settled
        /\ \A i \in Settled : mined'[i] = mined[i]
        /\ UNCHANGED allocations
    BY <1>2, <2>1, NothingSettled
  <2>3. \A n \in 1..Cardinality(Settled) : Nth(Settled, n) \in Settled
    BY <2>1, SettledFinite, NthOf
  <2>4. SettledTxs' = SettledTxs
    BY <2>2, <2>3 DEF SettledTxs
  <2> QED
    BY <2>2, <2>4 DEF PaidInv, PaidByReceipts
<1> QED
  BY <1>1, <1>2

\* From the viewers' receipts to the chain, with an address for each provider:
\* every settlement shares TotalRewards by the receipts it was built from, and
\* the byte counters add each receipt once (settler.go:123-190,
\* PersistencePool.sol:207-214).
THEOREM ReceiptsArePaid ==
  ASSUME OneNodeEach
  PROVE  LoopSpec => []ReceiptsPaidAndCounted
<1>1. LoopInit => PaidInv
  BY PaidInit
<1>2. LoopInv /\ PaidInv /\ [LoopNext]_loopVars => PaidInv'
  BY PaidNext
<1>3. LoopInv /\ PaidInv => ReceiptsPaidAndCounted
  BY DEF LoopInv, PaidInv, ReceiptsPaidAndCounted
<1> QED
  BY <1>1, <1>2, <1>3, LoopInvariant, PTL DEF LoopSpec
=============================================================================
