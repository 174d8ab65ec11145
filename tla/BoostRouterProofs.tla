------------------------- MODULE BoostRouterProofs --------------------------
(***************************************************************************)
(* Proofs about ContentRegistry, for every set of accounts, CIDs, flags and *)
(* chain ids, and any number of signatures and forks; then about           *)
(* BoostRouter together with ContentRegistry and RiskOracle: where the     *)
(* money of a boost goes and which content can be boosted, for every split, *)
(* every amount and any coincidence of sender, creator and treasuries.     *)
(***************************************************************************)
EXTENDS BoostRouter, SumTheorems

(***************************************************************************)
(* The registry.                                                           *)
(***************************************************************************)
\* The variables of the block the contract reads.
BlockOK == timestamp \in Nat /\ chainid \in ChainId

\* No authorisation was consumed for a CID without a record.
ConsumedOnlyByRecords ==
  \A c \in Cid : ~ IsRegistered(c) => consumed[c] = {}

\* The inductive invariant: RecordsSound, the types of the block's variables
\* and the converse of RegisteredAsSigned.
RegistryInv ==
  /\ BlockOK
  /\ RegistryTypeOK
  /\ ConsumedOnlyByRecords
  /\ RegisteredAsSigned
  /\ NoncesUsedOnce
  /\ ParentsWellFounded

LEMMA RegistryInit_Inv == Deployed => RegistryInv
<1> SUFFICES ASSUME Deployed PROVE RegistryInv
  OBVIOUS
<1> USE DEF Deployed, BlocksInit, RegistryInit
<1>1. BlockOK
  BY DEF BlockOK
<1>2. RegistryTypeOK
  BY DEF RegistryTypeOK
<1>3. Registered = {}
  BY DEF Registered, IsRegistered, NoRecord
<1>4. ConsumedOnlyByRecords
  BY DEF ConsumedOnlyByRecords
<1>5. RegisteredAsSigned
  BY <1>3 DEF RegisteredAsSigned
<1>6. NoncesUsedOnce
  BY DEF NoncesUsedOnce
<1>7. ParentsWellFounded
  BY <1>3 DEF ParentsWellFounded
<1> QED
  BY <1>1, <1>2, <1>4, <1>5, <1>6, <1>7 DEF RegistryInv

\* A client's signature adds to `signed` only.
LEMMA SignRegistration_Inv ==
  ASSUME RegistryInv,
         NEW o \in Address, NEW c \in Cid \cup {ZeroCid},
         NEW p \in Cid \cup {ZeroCid}, NEW f \in Flags,
         SignRegistration(o, c, p, f), UNCHANGED blockVars
  PROVE  RegistryInv'
<1> USE DEF SignRegistration, blockVars
<1> DEFINE d == Digest(o, c, p, f)
<1>1. d \in Authorisation
  BY DEF RegistryInv, RegistryTypeOK, BlockOK, Digest, Authorisation
<1>2. RegistryTypeOK'
  BY <1>1 DEF RegistryInv, RegistryTypeOK
<1>3. RegisteredAsSigned'
  BY DEF RegistryInv, RegisteredAsSigned, Registered, IsRegistered
<1>4. BlockOK' /\ ConsumedOnlyByRecords' /\ NoncesUsedOnce' /\ ParentsWellFounded'
  BY DEF RegistryInv, BlockOK, ConsumedOnlyByRecords, NoncesUsedOnce,
         ParentsWellFounded, Registered, IsRegistered
<1> QED
  BY <1>2, <1>3, <1>4 DEF RegistryInv

(***************************************************************************)
(* registerContent: the new record belongs to a CID that had none, its     *)
(* authorisation carries a nonce no consumed one carries, and no older     *)
(* record has the new one as its parent.                                   *)
(***************************************************************************)
LEMMA RegisterContent_Inv ==
  ASSUME RegistryInv,
         NEW o \in Address \cup {ZeroAddress}, NEW c \in Cid \cup {ZeroCid},
         NEW p \in Cid \cup {ZeroCid}, NEW f \in Flags,
         RegisterContent(o, c, p, f), UNCHANGED blockVars
  PROVE  RegistryInv'
<1> DEFINE d == Digest(o, c, p, f)
           r == [owner |-> o, timestamp |-> timestamp,
                 policyFlags |-> f, parentCid |-> p]
<1>1. o \in Address /\ c \in Cid /\ p # c /\ f \notin Reserved
      /\ ~ IsRegistered(c) /\ (p # ZeroCid => p \in Registered)
  BY DEF RegisterContent, ShapeOK, Registered, IsRegistered
<1>2. /\ records' = [records EXCEPT ![c] = r]
      /\ nonces' = [nonces EXCEPT ![o] = nonces[o] + 1]
      /\ consumed' = [consumed EXCEPT ![c] = consumed[c] \cup {d}]
      /\ signed' = signed
      /\ d \in signed
  BY DEF RegisterContent
<1>3. r \in Record
  BY <1>1 DEF Record, RegistryInv, BlockOK
<1>4. d \in Authorisation
  BY <1>2 DEF RegistryInv, RegistryTypeOK
<1>5. RegistryTypeOK
  BY DEF RegistryInv
<1>6. BlockOK'
  BY DEF RegistryInv, BlockOK, blockVars
<1>7. RegistryTypeOK'
  <2>1. records' \in [Cid -> Record \cup {NoRecord}]
    BY <1>2, <1>3, <1>5 DEF RegistryTypeOK
  <2>2. nonces' \in [Address -> Nat]
    BY <1>1, <1>2, <1>5 DEF RegistryTypeOK
  <2>3. consumed' \in [Cid -> SUBSET Authorisation]
    BY <1>1, <1>2, <1>4, <1>5 DEF RegistryTypeOK
  <2> QED
    BY <2>1, <2>2, <2>3, <1>2, <1>5 DEF RegistryTypeOK
<1>8. /\ records'[c] = r
      /\ \A x \in Cid : x # c => records'[x] = records[x]
  BY <1>1, <1>2, <1>5 DEF RegistryTypeOK
<1>9. Registered' = Registered \cup {c}
  BY <1>1, <1>8, BlockAssumption DEF Registered, IsRegistered
<1>10. consumed[c] = {}
  BY <1>1 DEF RegistryInv, ConsumedOnlyByRecords
<1>11. /\ consumed'[c] = {d}
       /\ \A x \in Cid : x # c => consumed'[x] = consumed[x]
  BY <1>1, <1>2, <1>5, <1>10 DEF RegistryTypeOK
<1>12. ConsumedOnlyByRecords'
  BY <1>8, <1>9, <1>11 DEF RegistryInv, ConsumedOnlyByRecords, Registered, IsRegistered
<1>13. d.owner = o /\ d.manifestCid = c /\ d.parentCid = p /\ d.policyFlags = f
       /\ d.nonce = nonces[o]
  BY DEF Digest
<1>14. RegisteredAsSigned'
  <2> SUFFICES ASSUME NEW x \in Registered'
               PROVE  (\E a \in consumed[x] :
                         /\ consumed[x] = {a}
                         /\ a \in signed
                         /\ a.owner = records[x].owner
                         /\ a.manifestCid = x
                         /\ a.parentCid = records[x].parentCid
                         /\ a.policyFlags = records[x].policyFlags)'
    BY DEF RegisteredAsSigned
  <2>1. CASE x = c
    BY <2>1, <1>2, <1>8, <1>11, <1>13
  <2>2. CASE x # c
    <3>1. x \in Registered /\ x \in Cid
      BY <2>2, <1>9 DEF Registered
    <3> QED
      BY <3>1, <2>2, <1>2, <1>8, <1>11 DEF RegistryInv, RegisteredAsSigned
  <2> QED
    BY <2>1, <2>2
<1>15. NoncesUsedOnce'
  <2> SUFFICES ASSUME NEW x \in Cid, NEW y \in Cid,
                      NEW a \in consumed'[x], NEW b \in consumed'[y]
               PROVE  /\ a.nonce < nonces'[a.owner]
                      /\ a.owner = b.owner /\ a.nonce = b.nonce => a = b
    BY DEF NoncesUsedOnce
  <2>1. ASSUME NEW z \in Cid, NEW e \in consumed'[z]
        PROVE  e = d \/ e \in consumed[z]
    BY <1>11, <2>1
  <2>2. \A z \in Cid : \A e \in consumed[z] :
          e \in Authorisation /\ e.nonce < nonces[e.owner]
    BY <1>5 DEF RegistryInv, NoncesUsedOnce, RegistryTypeOK
  <2>3. \A z \in Cid : \A e \in consumed[z] :
          e.owner \in Address /\ e.nonce \in Nat /\ e.nonce < nonces[e.owner]
    BY <2>2 DEF Authorisation
  <2>4. nonces \in [Address -> Nat]
    BY <1>5 DEF RegistryTypeOK
  <2>5. nonces'[o] = nonces[o] + 1 /\ \A q \in Address : q # o => nonces'[q] = nonces[q]
    BY <1>1, <1>2, <2>4
  <2>6. a.nonce < nonces'[a.owner]
    BY <2>1, <2>3, <2>4, <2>5, <1>1, <1>13
  <2>7. ASSUME a.owner = b.owner, a.nonce = b.nonce PROVE a = b
    <3>1. CASE a \in consumed[x] /\ b \in consumed[y]
      BY <3>1, <2>7 DEF RegistryInv, NoncesUsedOnce
    <3>2. CASE a \in consumed[x] /\ b = d
      BY <3>2, <2>7, <2>3, <2>4, <1>1, <1>13
    <3>3. CASE a = d /\ b \in consumed[y]
      BY <3>3, <2>7, <2>3, <2>4, <1>1, <1>13
    <3> QED
      BY <3>1, <3>2, <3>3, <2>1
  <2> QED
    BY <2>6, <2>7
<1>16. ParentsWellFounded'
  <2>1. \A x \in Registered' :
          records'[x].parentCid # ZeroCid => records'[x].parentCid \in Registered
    <3> TAKE x \in Registered'
    <3>1. CASE x = c
      BY <3>1, <1>1, <1>8
    <3>2. CASE x # c
      <4>1. x \in Registered /\ x \in Cid
        BY <3>2, <1>9 DEF Registered
      <4> QED
        BY <4>1, <3>2, <1>8 DEF RegistryInv, ParentsWellFounded
    <3> QED
      BY <3>1, <3>2
  <2>2. ASSUME NEW S \in SUBSET Registered', S # {}
        PROVE  \E x \in S : records'[x].parentCid \notin S
    <3>1. CASE S = {c}
      BY <3>1, <1>1, <1>8
    <3>2. CASE S # {c}
      <4> DEFINE T == S \ {c}
      <4>1. T # {} /\ T \in SUBSET Registered
        BY <3>2, <2>2, <1>9
      <4>2. PICK x \in T : records[x].parentCid \notin T
        BY <4>1 DEF RegistryInv, ParentsWellFounded
      <4>3. x \in Cid /\ x # c /\ x \in Registered /\ x \in S
        BY <4>1, <4>2 DEF Registered
      <4>4. records[x].parentCid # c
        BY <4>3, <1>1, CidAssumption DEF RegistryInv, ParentsWellFounded, Registered
      <4> QED
        BY <4>2, <4>3, <4>4, <1>8
    <3> QED
      BY <3>1, <3>2
  <2> QED
    BY <2>1, <2>2, <1>9 DEF ParentsWellFounded
<1> QED
  BY <1>6, <1>7, <1>12, <1>14, <1>15, <1>16 DEF RegistryInv

LEMMA RegistryNext_Inv ==
  RegistryInv /\ [RegistryNext]_<<blockVars, registryVars>> => RegistryInv'
<1> SUFFICES ASSUME RegistryInv, [RegistryNext]_<<blockVars, registryVars>>
             PROVE  RegistryInv'
  OBVIOUS
<1>1. CASE Registrations /\ UNCHANGED blockVars
  BY <1>1, SignRegistration_Inv, RegisterContent_Inv DEF Registrations
<1>2. ASSUME UNCHANGED registryVars, BlockOK' PROVE RegistryInv'
  BY <1>2 DEF registryVars, RegistryInv, RegistryTypeOK, ConsumedOnlyByRecords,
       RegisteredAsSigned, NoncesUsedOnce, ParentsWellFounded, Registered, IsRegistered
<1>3. CASE (NextBlock \/ Fork) /\ UNCHANGED registryVars
  <2>1. BlockOK'
    BY <1>3 DEF RegistryInv, BlockOK, NextBlock, Fork
  <2> QED
    BY <1>2, <1>3, <2>1
<1>4. CASE UNCHANGED <<blockVars, registryVars>>
  BY <1>4, <1>2 DEF RegistryInv, BlockOK, blockVars
<1> QED
  BY <1>1, <1>3, <1>4 DEF RegistryNext

LEMMA RegistryInvariant == RegistrySpec => []RegistryInv
BY RegistryInit_Inv, RegistryNext_Inv, PTL DEF RegistrySpec

\* Whoever submits registrations, in whatever order, and however often the chain
\* forks: every record is what its owner signed, by a signature that is good for
\* no other record, and following parents always ends (registerContent,
\* ContentRegistry.sol:155-205).
THEOREM RecordsAreSound == RegistrySpec => []RecordsSound
<1>1. RegistryInv => RecordsSound
  BY DEF RegistryInv, RecordsSound
<1> QED
  BY <1>1, RegistryInvariant, PTL

LEMMA RecordKept ==
  ASSUME RegistryInv, [RegistryNext]_<<blockVars, registryVars>>, NEW c \in Registered
  PROVE  records'[c] = records[c]
<1>1. CASE Registrations
  <2>1. ASSUME NEW o, NEW x, NEW p, NEW f, RegisterContent(o, x, p, f)
        PROVE  records'[c] = records[c]
    BY <2>1 DEF RegisterContent, ShapeOK, Registered, RegistryInv, RegistryTypeOK
  <2> QED
    BY <1>1, <2>1 DEF Registrations, SignRegistration
<1>2. CASE UNCHANGED registryVars
  BY <1>2 DEF registryVars
<1> QED
  BY <1>1, <1>2 DEF RegistryNext, registryVars

\* No step of the contract changes a record that exists (the AlreadyRegistered
\* guard of registerContent).
THEOREM RecordsAreFinal == RegistrySpec => RecordsFinal
<1>1. RegistryInv /\ [RegistryNext]_<<blockVars, registryVars>>
        => [\A c \in Registered : records'[c] = records[c]]_<<blockVars, registryVars>>
  BY RecordKept
<1> QED
  BY <1>1, RegistryInvariant, PTL DEF RegistrySpec, RecordsFinal

(***************************************************************************)
(* The split of one amount.                                                *)
(***************************************************************************)

\* A portion loses less than one unit to rounding.
LEMMA PortionBounds ==
  ASSUME NEW amount \in Nat, NEW bps \in Nat
  PROVE  /\ Portion(amount, bps) \in Nat
         /\ amount * bps \in Nat
         /\ Portion(amount, bps) * BPS_TOTAL <= amount * bps
         /\ amount * bps < Portion(amount, bps) * BPS_TOTAL + BPS_TOTAL
<1>1. BPS_TOTAL \in Nat /\ BPS_TOTAL # 0
  BY RouterAssumption
<1>2. amount * bps \in Nat
  OBVIOUS
<1>3. ASSUME NEW x \in Nat
      PROVE  /\ x \div BPS_TOTAL \in Nat
             /\ (x \div BPS_TOTAL) * BPS_TOTAL <= x
             /\ x < (x \div BPS_TOTAL) * BPS_TOTAL + BPS_TOTAL
  BY <1>1
<1> DEFINE x == amount * bps
<1>4. x \in Nat /\ Portion(amount, bps) = x \div BPS_TOTAL
  BY <1>2 DEF Portion
<1> HIDE DEF x
<1>5. /\ Portion(amount, bps) \in Nat
      /\ Portion(amount, bps) * BPS_TOTAL <= x
      /\ x < Portion(amount, bps) * BPS_TOTAL + BPS_TOTAL
  BY <1>3, <1>4
<1> QED
  BY <1>2, <1>5 DEF x

\* All of the amount is split, no part is negative, and the creator's part
\* lies between its basis points and three units above them.
LEMMA SplitSound ==
  ASSUME split \in Split, Valid(split), NEW amount \in Nat
  PROVE  LET parts == PreviewSplit(amount)
         IN  /\ parts.creator \in Nat /\ parts.pool \in Nat
             /\ parts.llc \in Nat /\ parts.council \in Nat
             /\ parts.creator + parts.pool + parts.llc + parts.council = amount
             /\ parts.creator * BPS_TOTAL >= amount * split.creator
             /\ parts.creator * BPS_TOTAL < amount * split.creator + 3 * BPS_TOTAL
<1> DEFINE B == BPS_TOTAL
           p == Portion(amount, split.pool)
           l == Portion(amount, split.llc)
           k == Portion(amount, split.council)
           c == amount - p - l - k
           xc == amount * split.creator
           xp == amount * split.pool
           xl == amount * split.llc
           xk == amount * split.council
<1>1. B \in Nat /\ B # 0
  BY RouterAssumption
<1>2. /\ split.creator \in Nat /\ split.pool \in Nat
      /\ split.llc \in Nat /\ split.council \in Nat
      /\ split.creator + split.pool + split.llc + split.council = B
  BY DEF Split, Valid
<1>3. /\ p \in Nat /\ xp \in Nat /\ p * B <= xp /\ xp < p * B + B
      /\ l \in Nat /\ xl \in Nat /\ l * B <= xl /\ xl < l * B + B
      /\ k \in Nat /\ xk \in Nat /\ k * B <= xk /\ xk < k * B + B
  BY <1>2, PortionBounds
<1>4. xc \in Nat
  BY <1>2
<1>5. amount * B = xc + xp + xl + xk
  <2>1. ASSUME NEW a \in Nat, NEW x \in Nat, NEW y \in Nat, NEW z \in Nat, NEW w \in Nat
        PROVE  a * (x + y + z + w) = a * x + a * y + a * z + a * w
    OBVIOUS
  <2> QED
    BY <1>2, <2>1
<1>6. PreviewSplit(amount) = [pool |-> p, llc |-> l, council |-> k, creator |-> c]
  BY DEF PreviewSplit
<1> HIDE DEF B, p, l, k, xc, xp, xl, xk
<1>7. amount * B \in Nat /\ p * B \in Nat /\ l * B \in Nat /\ k * B \in Nat
  BY <1>1, <1>3
<1>8. c \in Int /\ c * B = amount * B - p * B - l * B - k * B
  <2>1. ASSUME NEW a \in Nat, NEW x \in Nat, NEW y \in Nat, NEW z \in Nat, NEW b \in Nat
        PROVE  (a - x - y - z) \in Int /\ (a - x - y - z) * b = a * b - x * b - y * b - z * b
    OBVIOUS
  <2> QED
    BY <1>1, <1>3, <2>1
<1> HIDE DEF c
<1>9. c * B >= xc /\ c * B < xc + 3 * B
  BY ONLY <1>1, <1>3, <1>4, <1>5, <1>7, <1>8
<1>10. c \in Nat
  <2> DEFINE x == p + l + k
  <2>1. x \in Nat /\ x * B = p * B + l * B + k * B
    <3>1. ASSUME NEW t \in Nat, NEW y \in Nat, NEW z \in Nat, NEW b \in Nat
          PROVE  (t + y + z) \in Nat /\ (t + y + z) * b = t * b + y * b + z * b
      OBVIOUS
    <3> QED
      BY <1>1, <1>3, <3>1
  <2> HIDE DEF x
  <2>2. x * B <= amount * B
    BY ONLY <1>3, <1>4, <1>5, <1>7, <2>1
  <2>3. x <= amount
    BY <1>1, <2>1, <2>2, CancelFactor
  <2> QED
    BY <1>3, <2>3 DEF c, x
<1>11. c + p + l + k = amount
  BY <1>3 DEF c
<1> QED
  BY <1>3, <1>6, <1>9, <1>10, <1>11 DEF B, xc

(***************************************************************************)
(* Balances: what one transfer, and the five of a boost, do to an account. *)
(***************************************************************************)
At(a, b, amount) == IF a = b THEN amount ELSE 0

\* An amount left one account for another, or for itself.
Transferred(bal, from, to, amount, after) ==
  /\ after \in [Holder -> Int]
  /\ \A a \in Holder : after[a] = bal[a] - At(from, a, amount) + At(to, a, amount)

LEMMA MovedAt ==
  ASSUME NEW bal \in [Holder -> Int], NEW from \in Holder, NEW to \in Holder,
         NEW amount \in Int
  PROVE  Transferred(bal, from, to, amount, Moved(bal, from, to, amount))
<1> DEFINE mid == [bal EXCEPT ![from] = bal[from] - amount]
           end == [mid EXCEPT ![to] = mid[to] + amount]
<1>1. /\ mid \in [Holder -> Int]
      /\ \A a \in Holder : mid[a] = bal[a] - At(from, a, amount)
  <2>1. mid \in [Holder -> Int]
    OBVIOUS
  <2>2. ASSUME NEW a \in Holder PROVE mid[a] = bal[a] - At(from, a, amount)
    <3>1. CASE a = from
      BY <3>1 DEF At
    <3>2. CASE a # from
      BY <3>2 DEF At
    <3> QED
      BY <3>1, <3>2
  <2> QED
    BY <2>1, <2>2
<1>2. Moved(bal, from, to, amount) = end
  BY DEF Moved
<1> HIDE DEF mid
<1>3. /\ end \in [Holder -> Int]
      /\ \A a \in Holder : end[a] = mid[a] + At(to, a, amount)
  BY <1>1 DEF At
<1> HIDE DEF end
<1>4. \A a \in Holder : end[a] = bal[a] - At(from, a, amount) + At(to, a, amount)
  BY <1>1, <1>3
<1> QED
  BY <1>2, <1>3, <1>4 DEF Transferred

\* What an event says account a received and gave.
Got(e, a) ==
  At(e.creator, a, e.parts.creator) + At(PersistencePool, a, e.parts.pool)
  + At(LlcTreasury, a, e.parts.llc) + At(CouncilFund, a, e.parts.council)

Gave(e, a) == At(e.from, a, e.amount)

\* The router passes on all it pulled, whoever the five parties are.
LEMMA DisbursedAt ==
  ASSUME NEW bal \in [Holder -> Nat], NEW e \in Boosted, CanPay(bal, e.from, e.amount),
         e.parts.creator + e.parts.pool + e.parts.llc + e.parts.council = e.amount
  PROVE  LET after == Disbursed(bal, e.from, e.creator, e.amount, e.parts)
         IN  /\ after \in [Holder -> Nat]
             /\ \A a \in Holder : after[a] = bal[a] + Got(e, a) - Gave(e, a)
<1> DEFINE c == e.parts.creator
           p == e.parts.pool
           l == e.parts.llc
           k == e.parts.council
           n == e.amount
           b1 == Moved(bal, e.from, Router, n)
           b2 == Moved(b1, Router, e.creator, c)
           b3 == Moved(b2, Router, PersistencePool, p)
           b4 == Moved(b3, Router, LlcTreasury, l)
           b5 == Moved(b4, Router, CouncilFund, k)
<1>1. c \in Nat /\ p \in Nat /\ l \in Nat /\ k \in Nat /\ n \in Nat /\ c + p + l + k = n
  BY DEF Boosted
<1>0. c \in Int /\ p \in Int /\ l \in Int /\ k \in Int /\ n \in Int
  BY <1>1
<1>2. /\ e.from \in Holder /\ e.creator \in Holder /\ Router \in Holder
      /\ PersistencePool \in Holder /\ LlcTreasury \in Holder /\ CouncilFund \in Holder
  BY DEF Boosted, Holder
<1>3. Disbursed(bal, e.from, e.creator, e.amount, e.parts) = b5
  BY DEF Disbursed
<1>4. bal[e.from] >= n
  BY DEF CanPay
<1> HIDE DEF c, p, l, k, n
<1>40. bal \in [Holder -> Int]
  OBVIOUS
<1>5. Transferred(bal, e.from, Router, n, b1) /\ b1 \in [Holder -> Int]
  <2>1. Transferred(bal, e.from, Router, n, b1)
    BY <1>0, <1>2, <1>40, MovedAt, Zenon
  <2> QED
    BY <2>1 DEF Transferred
<1> HIDE DEF b1
<1>6. Transferred(b1, Router, e.creator, c, b2) /\ b2 \in [Holder -> Int]
  <2>1. Transferred(b1, Router, e.creator, c, b2)
    BY <1>0, <1>2, <1>5, MovedAt, Zenon
  <2> QED
    BY <2>1 DEF Transferred
<1> HIDE DEF b2
<1>7. Transferred(b2, Router, PersistencePool, p, b3) /\ b3 \in [Holder -> Int]
  <2>1. Transferred(b2, Router, PersistencePool, p, b3)
    BY <1>0, <1>2, <1>6, MovedAt, Zenon
  <2> QED
    BY <2>1 DEF Transferred
<1> HIDE DEF b3
<1>8. Transferred(b3, Router, LlcTreasury, l, b4) /\ b4 \in [Holder -> Int]
  <2>1. Transferred(b3, Router, LlcTreasury, l, b4)
    BY <1>0, <1>2, <1>7, MovedAt, Zenon
  <2> QED
    BY <2>1 DEF Transferred
<1> HIDE DEF b4
<1>9. Transferred(b4, Router, CouncilFund, k, b5) /\ b5 \in [Holder -> Int]
  <2>1. Transferred(b4, Router, CouncilFund, k, b5)
    BY <1>0, <1>2, <1>8, MovedAt, Zenon
  <2> QED
    BY <2>1 DEF Transferred
<1> HIDE DEF b5
<1>10. ASSUME NEW a \in Holder
       PROVE  /\ b5[a] = bal[a] + Got(e, a) - Gave(e, a)
              /\ b5[a] \in Nat
  <2> DEFINE gc == At(e.creator, a, c)
             gp == At(PersistencePool, a, p)
             gl == At(LlcTreasury, a, l)
             gk == At(CouncilFund, a, k)
             f == At(e.from, a, n)
             rn == At(Router, a, n)
             rc == At(Router, a, c)
             rp == At(Router, a, p)
             rl == At(Router, a, l)
             rk == At(Router, a, k)
  <2>1. /\ gc \in Nat /\ gp \in Nat /\ gl \in Nat /\ gk \in Nat /\ f \in Nat
        /\ rn \in Nat /\ rc \in Nat /\ rp \in Nat /\ rl \in Nat /\ rk \in Nat
    BY <1>1 DEF At
  <2>2. rn = rc + rp + rl + rk
    BY <1>1 DEF At
  <2>3. bal[a] \in Nat /\ f <= bal[a]
    BY <1>1, <1>4 DEF At
  <2>4. Got(e, a) = gc + gp + gl + gk /\ Gave(e, a) = f
    BY DEF Got, Gave, c, p, l, k, n
  <2>5. /\ b1[a] = bal[a] - f + rn
        /\ b2[a] = b1[a] - rc + gc
        /\ b3[a] = b2[a] - rp + gp
        /\ b4[a] = b3[a] - rl + gl
        /\ b5[a] = b4[a] - rk + gk
    BY <1>5, <1>6, <1>7, <1>8, <1>9 DEF Transferred
  <2> HIDE DEF gc, gp, gl, gk, f, rn, rc, rp, rl, rk
  <2>6. b5[a] = bal[a] - f + gc + gp + gl + gk
    BY <2>1, <2>2, <2>3, <2>5
  <2> QED
    BY <2>1, <2>3, <2>4, <2>6
<1>11. b5 \in [Holder -> Nat]
  BY <1>9, <1>10
<1> QED
  BY <1>3, <1>10, <1>11

(***************************************************************************)
(* The sums over the events.                                               *)
(***************************************************************************)
GotColumn(es, a) == [i \in DOMAIN es |-> Got(es[i], a)]
GaveColumn(es, a) == [i \in DOMAIN es |-> Gave(es[i], a)]

LEMMA SumsAsColumns ==
  ASSUME NEW a
  PROVE  /\ Received(a) = SumFunctionOnSet(GotColumn(events, a), DOMAIN events)
         /\ Sent(a) = SumFunctionOnSet(GaveColumn(events, a), DOMAIN events)
BY DEF Received, Sent, SumOverEvents, GotColumn, GaveColumn, Got, Gave, At

\* One more event adds what it says to both sums.
LEMMA ColumnsAfterBoost ==
  ASSUME NEW es \in Seq(Boosted), NEW e \in Boosted, NEW a
  PROVE  LET after == Append(es, e)
         IN  /\ SumFunctionOnSet(GotColumn(after, a), DOMAIN after)
                  = SumFunctionOnSet(GotColumn(es, a), DOMAIN es) + Got(e, a)
             /\ SumFunctionOnSet(GaveColumn(after, a), DOMAIN after)
                  = SumFunctionOnSet(GaveColumn(es, a), DOMAIN es) + Gave(e, a)
             /\ SumFunctionOnSet(GotColumn(es, a), DOMAIN es) \in Nat
             /\ SumFunctionOnSet(GaveColumn(es, a), DOMAIN es) \in Nat
             /\ Got(e, a) \in Nat /\ Gave(e, a) \in Nat
<1> DEFINE after == Append(es, e)
           D == DOMAIN es
           n == Len(es) + 1
           gf == GotColumn(es, a)
           gg == GotColumn(after, a)
           hf == GaveColumn(es, a)
           hg == GaveColumn(after, a)
<1>1. ASSUME NEW x \in Boosted PROVE Got(x, a) \in Nat /\ Gave(x, a) \in Nat
  <2>1. /\ x.amount \in Nat /\ x.parts.creator \in Nat /\ x.parts.pool \in Nat
        /\ x.parts.llc \in Nat /\ x.parts.council \in Nat
    BY <1>1 DEF Boosted
  <2>2. ASSUME NEW b, NEW v \in Nat PROVE At(b, a, v) \in Nat
    BY DEF At
  <2>3. /\ At(x.creator, a, x.parts.creator) \in Nat
        /\ At(PersistencePool, a, x.parts.pool) \in Nat
        /\ At(LlcTreasury, a, x.parts.llc) \in Nat
        /\ At(CouncilFund, a, x.parts.council) \in Nat
        /\ At(x.from, a, x.amount) \in Nat
    BY <2>1, <2>2
  <2> QED
    BY <2>3 DEF Got, Gave
<1>2. /\ DOMAIN after = D \cup {n} /\ n \notin D /\ IsFiniteSet(D)
      /\ \A i \in D : after[i] = es[i]
      /\ after[n] = e
  BY SeqAppend
<1>3. \A i \in D : es[i] \in Boosted
  BY SeqElement
<1> HIDE DEF after, n
<1>4. /\ \A i \in D : gf[i] = Got(es[i], a) /\ gg[i] = Got(es[i], a)
      /\ \A i \in D : hf[i] = Gave(es[i], a) /\ hg[i] = Gave(es[i], a)
      /\ gg[n] = Got(e, a) /\ hg[n] = Gave(e, a)
  BY <1>2 DEF GotColumn, GaveColumn
<1> HIDE DEF gf, gg, hf, hg, D
<1>5. /\ \A i \in D : gf[i] \in Nat /\ gg[i] = gf[i]
      /\ \A i \in D : hf[i] \in Nat /\ hg[i] = hf[i]
      /\ gg[n] \in Nat /\ hg[n] \in Nat
  BY <1>1, <1>3, <1>4
<1>6. SumFunctionOnSet(gg, D \cup {n}) = SumFunctionOnSet(gf, D) + gg[n]
  <2>1. (\A x \in D : gf[x] \in Nat /\ gg[x] = gf[x]) /\ gg[n] \in Nat
    BY <1>5
  <2>2. IsFiniteSet(D) /\ n \notin D
    BY <1>2
  <2> QED
    BY ONLY <2>1, <2>2, SumExtend, ZenonT(60)
<1>7. SumFunctionOnSet(hg, D \cup {n}) = SumFunctionOnSet(hf, D) + hg[n]
  <2>1. (\A x \in D : hf[x] \in Nat /\ hg[x] = hf[x]) /\ hg[n] \in Nat
    BY <1>5
  <2>2. IsFiniteSet(D) /\ n \notin D
    BY <1>2
  <2> QED
    BY ONLY <2>1, <2>2, SumExtend, ZenonT(60)
<1>8. SumFunctionOnSet(gf, D) \in Nat /\ SumFunctionOnSet(hf, D) \in Nat
  BY <1>2, <1>5, SumNat
<1> QED
  BY <1>1, <1>2, <1>4, <1>6, <1>7, <1>8 DEF after, D, gf, gg, hf, hg

(***************************************************************************)
(* The inductive invariant.  The registry's own invariant holds because    *)
(* every step is a step of RegistrySpec.  An event's creator is the owner  *)
(* of record, which never changes; an absolute score is the highest one,   *)
(* so the feed threshold always stops it.                                  *)
(***************************************************************************)
AbsoluteIsMax == \A m \in Manifest : scores[m].isAbsolute => scores[m].r = BPS_MAX

EventsOfRegistered ==
  \A i \in DOMAIN events :
    IsRegistered(events[i].manifest) /\ events[i].creator = OwnerOf(events[i].manifest)

EditorialInv ==
  /\ RegistryInv
  /\ RouterTypeOK
  /\ AbsoluteIsMax
  /\ EventsOfRegistered
  /\ BalancesFromEvents

LEMMA EditorialInit_Inv == EditorialInit => EditorialInv
<1> SUFFICES ASSUME EditorialInit PROVE EditorialInv
  OBVIOUS
<1> USE DEF EditorialInit
<1>1. RegistryInv
  BY RegistryInit_Inv DEF Deployed
<1>2. RouterTypeOK
  <2>1. OracleTypeOK
    BY OracleAssumption DEF OracleInit, OracleTypeOK
  <2> QED
    BY <2>1, RouterAssumption DEF RouterInit, RouterTypeOK
<1>3. AbsoluteIsMax
  BY DEF OracleInit, AbsoluteIsMax, NoScore
<1>4. DOMAIN events = {}
  BY DEF RouterInit
<1>5. EventsOfRegistered
  BY <1>4 DEF EventsOfRegistered
<1>6. BalancesFromEvents
  <2>1. ASSUME NEW a PROVE Received(a) = 0 /\ Sent(a) = 0
    BY <1>4, SumsAsColumns, SumEmpty
  <2> QED
    BY <2>1, RouterAssumption DEF RouterInit, BalancesFromEvents
<1> QED
  BY <1>1, <1>2, <1>3, <1>5, <1>6 DEF EditorialInv

\* Whatever the four contracts do, the registry takes a step of its own.
LEMMA EditorialRegistryStep ==
  [EditorialNext]_editorialVars => [RegistryNext]_<<blockVars, registryVars>>
BY DEF EditorialNext, RegistryNext, editorialVars

\* An event's creator stays the owner of record.
LEMMA OwnersKept ==
  ASSUME RegistryInv, [RegistryNext]_<<blockVars, registryVars>>,
         NEW m, IsRegistered(m)
  PROVE  IsRegistered(m)' /\ OwnerOf(m)' = OwnerOf(m)
<1>1. m \in Registered
  BY DEF Registered, IsRegistered
<1>2. records'[m] = records[m]
  BY <1>1, RecordKept
<1> QED
  BY <1>2 DEF IsRegistered, OwnerOf

\* A step that touches neither the money nor the events.
LEMMA MoneyUntouched ==
  ASSUME EditorialInv, [RegistryNext]_<<blockVars, registryVars>>,
         UNCHANGED <<usdc, events>>
  PROVE  EventsOfRegistered' /\ BalancesFromEvents'
<1>1. EventsOfRegistered'
  BY OwnersKept DEF EditorialInv, EventsOfRegistered
<1>2. ASSUME NEW a PROVE Received(a)' = Received(a) /\ Sent(a)' = Sent(a)
  BY DEF Received, Sent, SumOverEvents
<1> QED
  BY <1>1, <1>2 DEF EditorialInv, BalancesFromEvents

LEMMA Scoring_Inv ==
  ASSUME OracleTypeOK, AbsoluteIsMax, Scoring
  PROVE  OracleTypeOK' /\ AbsoluteIsMax'
<1>1. Submissions \subseteq Score
  BY OracleAssumption, BlockAssumption DEF Submissions, Score
<1>2. ASSUME NEW m \in Manifest, NEW s \in Submissions, ValidScore(s),
             scores' = [scores EXCEPT ![m] = s]
      PROVE  /\ scores' \in [Manifest -> Score \cup {NoScore}]
             /\ AbsoluteIsMax'
  BY <1>1, <1>2 DEF OracleTypeOK, AbsoluteIsMax, ValidScore
<1>3. ASSUME NEW sender \in Address, NEW m \in Manifest, NEW s \in Submissions,
             PublishScore(sender, m, s)
      PROVE  OracleTypeOK' /\ AbsoluteIsMax'
  <2>1. scores' \in [Manifest -> Score \cup {NoScore}] /\ AbsoluteIsMax'
    BY <1>2, <1>3 DEF PublishScore
  <2> QED
    BY <1>3, <2>1 DEF PublishScore, OracleTypeOK
<1>4. ASSUME NEW sender \in Address, NEW m \in Manifest, NEW s \in Submissions,
             NEW id \in ContestId \cup {ZeroContest}, ResolveContest(sender, m, id, s)
      PROVE  OracleTypeOK' /\ AbsoluteIsMax'
  <2>1. scores' \in [Manifest -> Score \cup {NoScore}] /\ AbsoluteIsMax'
    BY <1>2, <1>4 DEF ResolveContest
  <2> QED
    BY <1>4, <2>1 DEF ResolveContest, OracleTypeOK
<1>5. ASSUME NEW sender \in Address, NEW m \in Manifest,
             NEW id \in ContestId \cup {ZeroContest}, ContestScore(sender, m, id)
      PROVE  OracleTypeOK' /\ AbsoluteIsMax'
  BY <1>5 DEF ContestScore, OracleTypeOK, AbsoluteIsMax
<1>6. ASSUME NEW sender \in Address, NEW a \in Address \cup {ZeroAddress},
             RotateScoringServiceKey(sender, a) \/ SetOracleCouncil(sender, a)
      PROVE  OracleTypeOK' /\ AbsoluteIsMax'
  BY <1>6 DEF RotateScoringServiceKey, SetOracleCouncil, OracleTypeOK, AbsoluteIsMax
<1> QED
  BY <1>3, <1>4, <1>5, <1>6 DEF Scoring

\* The event a boost emits.
Emitted(sender, m, amount) ==
  [manifest |-> m, from |-> sender, creator |-> OwnerOf(m),
   amount |-> amount, parts |-> PreviewSplit(amount)]

LEMMA EmittedSound ==
  ASSUME EditorialInv, NEW sender \in Address, NEW m \in Manifest,
         NEW amount \in BoostAmount, Boost(sender, m, amount)
  PROVE  LET e == Emitted(sender, m, amount)
         IN  /\ e \in Boosted
             /\ e.manifest = m /\ e.from = sender /\ e.creator = OwnerOf(m)
             /\ e.amount = amount /\ e.parts = PreviewSplit(amount)
             /\ e.parts.creator + e.parts.pool + e.parts.llc + e.parts.council = e.amount
<1> DEFINE e == Emitted(sender, m, amount)
<1>1. amount \in Nat
  BY RouterAssumption
<1>2. OwnerOf(m) \in Address
  BY DEF Boost, IsRegistered, OwnerOf, EditorialInv, RegistryInv, RegistryTypeOK, Record, NoRecord
<1>3. /\ PreviewSplit(amount) \in [creator : Nat, pool : Nat, llc : Nat, council : Nat]
      /\ PreviewSplit(amount).creator + PreviewSplit(amount).pool + PreviewSplit(amount).llc
           + PreviewSplit(amount).council = amount
  <2>1. split \in Split /\ Valid(split)
    BY DEF EditorialInv, RouterTypeOK
  <2>2. /\ PreviewSplit(amount).creator \in Nat /\ PreviewSplit(amount).pool \in Nat
        /\ PreviewSplit(amount).llc \in Nat /\ PreviewSplit(amount).council \in Nat
        /\ PreviewSplit(amount).creator + PreviewSplit(amount).pool + PreviewSplit(amount).llc
             + PreviewSplit(amount).council = amount
    BY <1>1, <2>1, SplitSound
  <2> QED
    BY <2>2 DEF PreviewSplit
<1>4. /\ e.manifest = m /\ e.from = sender /\ e.creator = OwnerOf(m)
      /\ e.amount = amount /\ e.parts = PreviewSplit(amount)
  BY DEF Emitted
<1>5. e \in Boosted
  BY <1>1, <1>2, <1>3 DEF Emitted, Boosted
<1> HIDE DEF e
<1> QED
  BY <1>3, <1>4, <1>5 DEF e

LEMMA Boost_Inv ==
  ASSUME EditorialInv, NEW sender \in Address, NEW m \in Manifest,
         NEW amount \in BoostAmount, Boost(sender, m, amount),
         UNCHANGED <<blockVars, registryVars, oracleVars>>
  PROVE  EditorialInv'
<1> DEFINE e == Emitted(sender, m, amount)
<1>1. /\ e \in Boosted
      /\ e.manifest = m /\ e.from = sender /\ e.creator = OwnerOf(m)
      /\ e.amount = amount /\ e.parts = PreviewSplit(amount)
      /\ e.parts.creator + e.parts.pool + e.parts.llc + e.parts.council = e.amount
  BY EmittedSound
<1>2. events' = Append(events, e) /\ UNCHANGED <<routerCouncil, split>>
  BY DEF Boost, Emitted
<1> HIDE DEF e
<1>3. /\ usdc' = Disbursed(usdc, e.from, e.creator, e.amount, e.parts)
      /\ CanPay(usdc, e.from, e.amount) /\ IsRegistered(m)
  BY <1>1 DEF Boost
<1>4. usdc \in [Holder -> Nat] /\ events \in Seq(Boosted)
  BY DEF EditorialInv, RouterTypeOK
<1>5. /\ usdc' \in [Holder -> Nat]
      /\ \A a \in Holder : usdc'[a] = usdc[a] + Got(e, a) - Gave(e, a)
  BY <1>1, <1>3, <1>4, DisbursedAt
<1>6. /\ events' \in Seq(Boosted)
      /\ DOMAIN events' = DOMAIN events \cup {Len(events) + 1}
      /\ \A i \in DOMAIN events : events'[i] = events[i]
      /\ events'[Len(events) + 1] = e
  BY <1>1, <1>2, <1>4, SeqAppend
<1>7. [RegistryNext]_<<blockVars, registryVars>>
  OBVIOUS
<1>8. RegistryInv'
  BY <1>7, RegistryNext_Inv DEF EditorialInv
<1>9. RouterTypeOK'
  BY <1>2, <1>5, <1>6 DEF EditorialInv, RouterTypeOK, OracleTypeOK, oracleVars, Valid
<1>10. AbsoluteIsMax'
  BY DEF EditorialInv, AbsoluteIsMax, oracleVars
<1>11. EventsOfRegistered'
  <2> SUFFICES ASSUME NEW i \in DOMAIN events'
               PROVE  (IsRegistered(events[i].manifest)
                        /\ events[i].creator = OwnerOf(events[i].manifest))'
    BY DEF EventsOfRegistered
  <2>1. records' = records
    BY DEF registryVars
  <2>2. CASE i \in DOMAIN events
    BY <1>6, <2>1, <2>2 DEF EditorialInv, EventsOfRegistered, IsRegistered, OwnerOf
  <2>3. CASE i = Len(events) + 1
    BY <1>1, <1>3, <1>6, <2>1, <2>3 DEF IsRegistered, OwnerOf
  <2> QED
    BY <1>6, <2>2, <2>3
<1>12. BalancesFromEvents'
  <2> SUFFICES ASSUME NEW a \in Holder
               PROVE  usdc'[a] = UsdcBalance[a] + Received(a)' - Sent(a)'
    BY DEF BalancesFromEvents
  <2> DEFINE R == SumFunctionOnSet(GotColumn(events, a), DOMAIN events)
             S == SumFunctionOnSet(GaveColumn(events, a), DOMAIN events)
             R2 == SumFunctionOnSet(GotColumn(events', a), DOMAIN events')
             S2 == SumFunctionOnSet(GaveColumn(events', a), DOMAIN events')
             g == Got(e, a)
             v == Gave(e, a)
  <2>1. Received(a) = R /\ Sent(a) = S
    BY SumsAsColumns
  <2>2. Received(a)' = R2 /\ Sent(a)' = S2
    BY DEF Received, Sent, SumOverEvents, GotColumn, GaveColumn, Got, Gave, At
  <2>3. /\ R2 = R + g /\ S2 = S + v
        /\ R \in Nat /\ S \in Nat /\ g \in Nat /\ v \in Nat
    BY <1>1, <1>2, <1>4, ColumnsAfterBoost
  <2>4. usdc[a] = UsdcBalance[a] + R - S
    BY <2>1 DEF EditorialInv, BalancesFromEvents
  <2>5. usdc'[a] = usdc[a] + g - v
    BY <1>5
  <2>6. usdc[a] \in Nat /\ UsdcBalance[a] \in Nat
    BY <1>4, RouterAssumption
  <2> HIDE DEF R, S, R2, S2, g, v
  <2> QED
    BY <2>2, <2>3, <2>4, <2>5, <2>6
<1> QED
  BY <1>8, <1>9, <1>10, <1>11, <1>12 DEF EditorialInv

LEMMA EditorialNext_Inv == EditorialInv /\ [EditorialNext]_editorialVars => EditorialInv'
<1> SUFFICES ASSUME EditorialInv, [EditorialNext]_editorialVars PROVE EditorialInv'
  OBVIOUS
<1>1. [RegistryNext]_<<blockVars, registryVars>>
  BY EditorialRegistryStep
<1>2. RegistryInv'
  BY <1>1, RegistryNext_Inv DEF EditorialInv
<1>3. OracleTypeOK /\ AbsoluteIsMax /\ RouterTypeOK
  BY DEF EditorialInv, RouterTypeOK
<1>4. ASSUME OracleTypeOK', AbsoluteIsMax', UNCHANGED routerVars
      PROVE  EditorialInv'
  <2>1. UNCHANGED <<usdc, events>>
    BY <1>4 DEF routerVars
  <2>2. EventsOfRegistered' /\ BalancesFromEvents'
    BY <1>1, <2>1, MoneyUntouched
  <2>3. RouterTypeOK'
    BY <1>3, <1>4 DEF RouterTypeOK, routerVars, Valid
  <2> QED
    BY <1>2, <1>4, <2>2, <2>3 DEF EditorialInv
<1>5. ASSUME UNCHANGED oracleVars PROVE OracleTypeOK' /\ AbsoluteIsMax'
  BY <1>3, <1>5 DEF OracleTypeOK, AbsoluteIsMax, oracleVars
<1>6. CASE Boosting /\ UNCHANGED <<blockVars, registryVars, oracleVars>>
  <2>1. ASSUME NEW sender \in Address, NEW m \in Manifest, NEW amount \in BoostAmount,
               Boost(sender, m, amount)
        PROVE  EditorialInv'
    BY <1>6, <2>1, Boost_Inv
  <2>2. ASSUME UNCHANGED <<usdc, events>>, split' \in Split /\ Valid(split)',
               routerCouncil' \in Address
        PROVE  EditorialInv'
    <3>1. EventsOfRegistered' /\ BalancesFromEvents'
      BY <1>1, <2>2, MoneyUntouched
    <3>2. OracleTypeOK' /\ AbsoluteIsMax'
      BY <1>5, <1>6
    <3>3. RouterTypeOK'
      BY <1>3, <2>2, <3>2 DEF RouterTypeOK
    <3> QED
      BY <1>2, <3>1, <3>2, <3>3 DEF EditorialInv
  <2>3. ASSUME NEW sender \in Address, NEW s \in Splits, SetSplit(sender, s)
        PROVE  EditorialInv'
    BY <1>3, <2>2, <2>3, RouterAssumption DEF SetSplit, RouterTypeOK, Valid
  <2>4. ASSUME NEW sender \in Address, NEW a \in Address \cup {ZeroAddress},
               SetRouterCouncil(sender, a)
        PROVE  EditorialInv'
    BY <1>3, <2>2, <2>4 DEF SetRouterCouncil, RouterTypeOK, Valid
  <2> QED
    BY <1>6, <2>1, <2>3, <2>4 DEF Boosting
<1>7. CASE Scoring /\ UNCHANGED <<blockVars, registryVars, routerVars>>
  BY <1>3, <1>4, <1>7, Scoring_Inv
<1>8. CASE UNCHANGED <<oracleVars, routerVars>>
  BY <1>4, <1>5, <1>8
<1> QED
  BY <1>6, <1>7, <1>8 DEF EditorialNext, editorialVars

LEMMA EditorialInvariant == EditorialSpec => []EditorialInv
BY EditorialInit_Inv, EditorialNext_Inv, PTL DEF EditorialSpec

\* For every split the Council may set, every amount and every coincidence of
\* sender, creator and treasuries: the balances are those the Boost events
\* account for, the router keeps nothing, and the events of a manifest name its
\* one registered owner (BoostRouter.sol:204-255).
THEOREM MoneyIsAccounted == EditorialSpec => []MoneyFollowsEvents
<1>1. EditorialInv => MoneyFollowsEvents
  BY DEF EditorialInv, MoneyFollowsEvents, OneCreatorPerManifest, EventsOfRegistered
<1> QED
  BY <1>1, EditorialInvariant, PTL

(***************************************************************************)
(* The rules about steps.                                                  *)
(***************************************************************************)

\* Only a boost emits an event, and the event is its own.
LEMMA EventsOnlyOfBoosts ==
  ASSUME EditorialInv, EditorialNext, events' # events
  PROVE  \E sender \in Address, m \in Manifest, amount \in BoostAmount :
           /\ Boost(sender, m, amount)
           /\ events'[Len(events')] = Emitted(sender, m, amount)
<1>1. PICK sender \in Address, m \in Manifest, amount \in BoostAmount :
        Boost(sender, m, amount)
  BY DEF EditorialNext, Boosting, SetSplit, SetRouterCouncil, routerVars
<1> DEFINE e == Emitted(sender, m, amount)
<1>2. events' = Append(events, e)
  BY <1>1 DEF Boost, Emitted
<1>3. e \in Boosted
  BY <1>1, EmittedSound
<1> HIDE DEF e
<1>4. events \in Seq(Boosted)
  BY DEF EditorialInv, RouterTypeOK
<1>5. events'[Len(events')] = e
  BY <1>2, <1>3, <1>4, SeqAppend
<1> QED
  BY <1>1, <1>5 DEF e

LEMMA FrozenWhileContestedStep ==
  ASSUME EditorialInv, [EditorialNext]_editorialVars, NEW m \in Manifest, IsContested(m),
         oracleVars' # oracleVars
  PROVE  \/ activeContest'[m] = ZeroContest
         \/ activeContest'[m] = activeContest[m] /\ scores'[m] = scores[m]
<1>1. OracleTypeOK
  BY DEF EditorialInv, RouterTypeOK
<1>2. Scoring
  BY DEF EditorialNext, editorialVars
<1> QED
  BY <1>1, <1>2 DEF Scoring, PublishScore, ContestScore, ResolveContest,
       RotateScoringServiceKey, SetOracleCouncil, IsContested, OracleTypeOK

\* In every behaviour of the four contracts a contested score stands, content
\* under an absolute exclusion is not boosted, and rounding never costs the
\* creator (RiskOracle.sol:239, BoostRouter.sol:211, 227).
THEOREM EditorialRulesHold == EditorialSpec => EditorialRules
<1>1. EditorialInv /\ [EditorialNext]_editorialVars
        => [\A m \in Manifest :
              IsContested(m) =>
                \/ activeContest'[m] = ZeroContest
                \/ activeContest'[m] = activeContest[m] /\ scores'[m] = scores[m]]_oracleVars
  BY FrozenWhileContestedStep
<1>2. EditorialInv /\ [EditorialNext]_editorialVars
        => [\A m \in Manifest :
              scores[m].isAbsolute /\ events' # events =>
                events'[Len(events')].manifest # m]_editorialVars
  <2> SUFFICES ASSUME EditorialInv, EditorialNext, NEW m \in Manifest,
                      scores[m].isAbsolute, events' # events
               PROVE  events'[Len(events')].manifest # m
    BY DEF editorialVars
  <2>1. PICK sender \in Address, b \in Manifest, amount \in BoostAmount :
          Boost(sender, b, amount) /\ events'[Len(events')] = Emitted(sender, b, amount)
    BY EventsOnlyOfBoosts
  <2>2. scores[b].r < THETA_FEED_BPS /\ events'[Len(events')].manifest = b
    BY <2>1 DEF Boost, ScoreBps, Emitted
  <2>3. scores[m].r = BPS_MAX
    BY DEF EditorialInv, AbsoluteIsMax
  <2> QED
    BY <2>2, <2>3, RouterAssumption, OracleAssumption
<1>3. EditorialInv /\ [EditorialNext]_editorialVars
        => [events' # events =>
              LET e == events'[Len(events')] IN
              /\ e.parts.creator * BPS_TOTAL >= e.amount * split.creator
              /\ e.parts.creator * BPS_TOTAL < e.amount * split.creator + 3 * BPS_TOTAL]_editorialVars
  <2> SUFFICES ASSUME EditorialInv, EditorialNext, events' # events
               PROVE  LET e == events'[Len(events')] IN
                      /\ e.parts.creator * BPS_TOTAL >= e.amount * split.creator
                      /\ e.parts.creator * BPS_TOTAL < e.amount * split.creator + 3 * BPS_TOTAL
    OBVIOUS
  <2>1. PICK sender \in Address, b \in Manifest, amount \in BoostAmount :
          Boost(sender, b, amount) /\ events'[Len(events')] = Emitted(sender, b, amount)
    BY EventsOnlyOfBoosts
  <2> DEFINE e == events'[Len(events')]
  <2>2. e.amount = amount /\ e.parts = PreviewSplit(amount)
    BY <2>1 DEF Emitted
  <2>3. split \in Split /\ Valid(split) /\ amount \in Nat
    BY RouterAssumption DEF EditorialInv, RouterTypeOK
  <2>4. /\ PreviewSplit(amount).creator * BPS_TOTAL >= amount * split.creator
        /\ PreviewSplit(amount).creator * BPS_TOTAL < amount * split.creator + 3 * BPS_TOTAL
    BY <2>3, SplitSound
  <2> QED
    BY <2>2, <2>4
<1> QED
  BY <1>1, <1>2, <1>3, EditorialInvariant, PTL
  DEF EditorialSpec, EditorialRules, FrozenWhileContested, AbsoluteNeverBoosted, CreatorShareFair
=============================================================================
