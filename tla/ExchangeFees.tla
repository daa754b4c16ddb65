---------------------------- MODULE ExchangeFees ----------------------------
(***************************************************************************)
(* The fee arithmetic of @cocore/exchange: the split of one receipt's      *)
(* price between provider and treasury, once as the published settlement   *)
(* computes it (exchange.ts) and once as the token ledger computes it      *)
(* (token-balance.ts).  Amounts are integer minor units (tokens).          *)
(*                                                                         *)
(* A policy is a record                                                    *)
(*   [bps, minMinor, feeWaived, selfLoopMin]                               *)
(* of the basis points of the fee, its floor, the self-loop waiver and the *)
(* flat self-loop floor.  The services container passes the same bps,      *)
(* floor and waiver to both sides (infra/services/src/main.ts) and leaves  *)
(* the self-loop floor at its default, 0.                                  *)
(***************************************************************************)
EXTENDS Integers

Larger(a, b)  == IF a >= b THEN a ELSE b
Smaller(a, b) == IF a <= b THEN a ELSE b

(* The bps fee, raised to the floor, then clamped to the price.            *)
ComputeFee(amount, policy) ==
  Smaller(Larger((amount * policy.bps) \div 10000, policy.minMinor), amount)

(* What the settlement record states as exchangeFee.                       *)
ComputeFeeWithSelfLoop(amount, policy, isSelfLoop) ==
  IF ~isSelfLoop THEN ComputeFee(amount, policy)
  ELSE IF policy.feeWaived THEN 0
  ELSE Smaller(policy.selfLoopMin, amount)

SettlementFee(amount, policy, proBono, isSelfLoop) ==
  IF proBono THEN 0 ELSE ComputeFeeWithSelfLoop(amount, policy, isSelfLoop)

(* A bug to be caught: the ledger's share without the floor.               *)
ShareWithoutFloor(amount, policy, isSelfLoop) ==
  IF isSelfLoop /\ policy.feeWaived THEN 0 ELSE (amount * policy.bps) \div 10000

(* What the ledger credits to the treasury.                                *)
TreasuryShare(amount, policy, isSelfLoop) ==
  IF isSelfLoop /\ policy.feeWaived THEN 0 ELSE ComputeFee(amount, policy)

(* The signed movement of one receipt, one entry per DID: the requester,   *)
(* the provider and the treasury may coincide, so their shares are added.  *)
ReceiptDelta(did, requester, provider, treasury, amount, share) ==
    (IF did = requester THEN -amount ELSE 0)
  + (IF did = provider THEN amount - share ELSE 0)
  + (IF did = treasury THEN share ELSE 0)
=============================================================================
