---------------------------- MODULE MutualCredit ----------------------------
(***************************************************************************)
(* What the ledger promises its members, without a log, rows, months,      *)
(* admission or rounding: tokens come into being by mints only; a receipt  *)
(* takes its price from its payer once, and nothing from anybody else; a   *)
(* window's payout takes from the treasury once, and nothing from anybody  *)
(* else.  TokenLedger is shown to implement it.                            *)
(***************************************************************************)
EXTENDS Integers, FiniteSetsExt

CONSTANTS
  Members, Treasury,
  Receipts,
  Payer, Price,  \* per receipt
  Windows        \* of the payouts

VARIABLES
  balance,
  minted,        \* all that was ever issued
  applied,       \* receipts whose price has been taken
  paid           \* windows paid out

vars == <<balance, minted, applied, paid>>

Init ==
  /\ balance = [m \in Members |-> 0] /\ minted = 0
  /\ applied = {} /\ paid = {}

(* Only the losers may have less than before.                              *)
Keeps(losers) == \A m \in Members \ losers : balance'[m] >= balance[m]

Mint ==
  /\ Keeps({})
  /\ UNCHANGED <<applied, paid>>

Transfer(r) ==
  /\ r \notin applied
  /\ applied' = applied \cup {r}
  /\ Keeps({Payer[r]})
  /\ balance'[Payer[r]] >= balance[Payer[r]] - Price[r]
  /\ UNCHANGED paid

Payout(w) ==
  /\ w \notin paid
  /\ paid' = paid \cup {w}
  /\ Keeps({Treasury})
  /\ UNCHANGED <<minted, applied>>

(* Nobody is overdrawn, and what changes hands is neither made nor lost.   *)
Balanced ==
  /\ balance' \in [Members -> Nat]
  /\ minted' >= minted
  /\ SumFunctionOnSet(balance', Members) - SumFunctionOnSet(balance, Members)
       = minted' - minted

Next ==
  /\ Balanced
  /\ \/ Mint
     \/ \E r \in Receipts : Transfer(r)
     \/ \E w \in Windows : Payout(w)

Spec == Init /\ [][Next]_vars
=============================================================================
