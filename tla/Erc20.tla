------------------------------- MODULE Erc20 -------------------------------
(***************************************************************************)
(* The reward token (cUSDC) as the contracts use it: balances that only    *)
(* move.  The token contract is external to the repository; transfer and   *)
(* transferFrom revert when the payer's balance is too small, and the      *)
(* approvals the callers give beforehand are taken as given.               *)
(***************************************************************************)
EXTENDS Integers

\* The guard under which a transfer does not revert.
CanPay(bal, from, amount) == bal[from] >= amount

\* The balances after `amount` moved from one account to another.
Moved(bal, from, to, amount) ==
  [[bal EXCEPT ![from] = @ - amount] EXCEPT ![to] = @ + amount]
============================================================================
