----------------------------- MODULE EvmBlocks -----------------------------
(***************************************************************************)
(* What a contract reads of the block it runs in (external): the time, and *)
(* the chain id, which changes when the chain forks and the contract lives *)
(* on under another id.                                                    *)
(***************************************************************************)
EXTENDS Integers

CONSTANTS
  Address,       \* accounts that call contracts
  ZeroAddress,   \* address(0)
  ChainId,
  MaxTime        \* bound: block.timestamp

ASSUME BlockAssumption ==
  /\ ZeroAddress \notin Address
  /\ MaxTime \in Nat

VARIABLES timestamp, chainid

blockVars == <<timestamp, chainid>>

BlocksInit ==
  /\ timestamp = 0
  /\ chainid \in ChainId

NextBlock ==
  /\ timestamp < MaxTime
  /\ timestamp' = timestamp + 1
  /\ UNCHANGED chainid

Fork ==
  /\ \E id \in ChainId \ {chainid} : chainid' = id
  /\ UNCHANGED timestamp
============================================================================
