---------------------------- MODULE RewardLedger ----------------------------
(***************************************************************************)
(* What a reward pool promises, with no settlements in it: a fund, what    *)
(* each provider is owed and what it was paid.  The fund grows by money    *)
(* that comes in; awards made in one step are together covered by the fund *)
(* as it stands; a payment takes from the fund exactly what it takes off   *)
(* one provider's claim and adds to what that provider was paid.           *)
(***************************************************************************)
EXTENDS Integers, FiniteSets, Functions

CONSTANT Provider

VARIABLES funds, owed, paid

ledger == <<funds, owed, paid>>

Total(f) == SumFunctionOnSet(f, Provider)

LedgerInit ==
  /\ funds = 0
  /\ owed = [p \in Provider |-> 0]
  /\ paid = [p \in Provider |-> 0]

Fund ==
  /\ funds' > funds
  /\ UNCHANGED <<owed, paid>>

Award ==
  /\ \A p \in Provider : owed'[p] >= owed[p]
  /\ Total(owed') - Total(owed) <= funds
  /\ UNCHANGED <<funds, paid>>

Pay(p) ==
  LET amount == owed[p] - owed'[p] IN
  /\ amount > 0
  /\ amount <= funds
  /\ owed' = [owed EXCEPT ![p] = @ - amount]
  /\ paid' = [paid EXCEPT ![p] = @ + amount]
  /\ funds' = funds - amount

LedgerNext ==
  \/ Fund
  \/ Award
  \/ \E p \in Provider : Pay(p)

LedgerSpec == LedgerInit /\ [][LedgerNext]_ledger
=============================================================================
