------------------------- MODULE ExchangeFees_proofs -------------------------
(* What the fee arithmetic guarantees for every price and every policy.    *)
EXTENDS ExchangeFees, TLAPS

(* The ledger's share of a price lies between nothing and the price        *)
(* (exchange.ts, computeFee; the clamp called M5).                         *)
LEMMA ShareBounds ==
  ASSUME NEW amount \in Nat, NEW isSelfLoop \in BOOLEAN,
         NEW policy, policy.bps \in Nat, policy.minMinor \in Nat
  PROVE  TreasuryShare(amount, policy, isSelfLoop) \in 0..amount
<1>1. amount * policy.bps \in Nat
  OBVIOUS
<1>2. (amount * policy.bps) \div 10000 \in Nat
  BY <1>1
<1>3. ComputeFee(amount, policy) \in 0..amount
  <2> DEFINE x == (amount * policy.bps) \div 10000
  <2>1. x \in Nat BY <1>2
  <2> HIDE DEF x
  <2>2. ComputeFee(amount, policy) =
          IF (IF x >= policy.minMinor THEN x ELSE policy.minMinor) <= amount
          THEN (IF x >= policy.minMinor THEN x ELSE policy.minMinor) ELSE amount
    BY DEF ComputeFee, Larger, Smaller, x
  <2> QED BY <2>1, <2>2
<1> QED BY <1>3 DEF TreasuryShare

(* The record and the ledger agree whenever the self-loop fee is waived    *)
(* and a pro-bono receipt has no price: the two computations may differ    *)
(* only for a self-loop whose fee is kept (exchange.ts:347).               *)
THEOREM RecordAgreesWithLedger ==
  ASSUME NEW amount \in Nat, NEW isSelfLoop \in BOOLEAN, NEW proBono \in BOOLEAN,
         NEW policy, policy.bps \in Nat, policy.minMinor \in Nat,
         isSelfLoop => policy.feeWaived,
         proBono => amount = 0
  PROVE  SettlementFee(amount, policy, proBono, isSelfLoop)
           = TreasuryShare(amount, policy, isSelfLoop)
<1>1. CASE proBono
  <2>1. TreasuryShare(amount, policy, isSelfLoop) \in 0..0
    BY <1>1, ShareBounds
  <2> QED BY <1>1, <2>1 DEF SettlementFee
<1>2. CASE ~proBono
  BY <1>2 DEF SettlementFee, ComputeFeeWithSelfLoop, TreasuryShare
<1> QED BY <1>1, <1>2
=============================================================================
