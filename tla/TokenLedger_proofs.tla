------------------------- MODULE TokenLedger_proofs -------------------------
(***************************************************************************)
(* Proofs about TokenLedger for every set of members and receipts, every   *)
(* policy and every number of months.                                      *)
(***************************************************************************)
EXTENDS TokenLedger, ExchangeFees_proofs, SumLemmas

(* What flows through a member before a month only grows with the month.   *)
Monotone ==
  \A m, n \in Months : m <= n =>
    /\ turnover[m] <= turnover[n]
    /\ \A d \in Dids : volume[m][d] <= volume[n][d]

IndInv == TypeOK /\ Monotone /\ BalancesMatchLog
-----------------------------------------------------------------------------
LEMMA ReceiptFacts ==
  ASSUME NEW r \in Receipts
  PROVE  /\ Terms[r].requester \in Dids /\ Terms[r].provider \in Dids
         /\ Terms[r].price \in Nat \ {0}
         /\ Share(r) \in 0..Terms[r].price
         /\ Parties(r) \subseteq Dids
<1>1. /\ Terms[r].requester \in Dids /\ Terms[r].provider \in Dids
      /\ Terms[r].price \in Nat \ {0}
  BY TermsAssumption
<1>2. Policy.bps \in Nat /\ Policy.minMinor \in Nat /\ Treasury \in Dids
  BY PolicyAssumption
<1>3. (Terms[r].requester = Terms[r].provider) \in BOOLEAN
  OBVIOUS
<1>4. Share(r) \in 0..Terms[r].price
  BY <1>1, <1>2, <1>3, ShareBounds DEF Share
<1> QED BY <1>1, <1>2, <1>4 DEF Parties

(* A quotient of naturals is a natural.                                    *)
LEMMA QuotientNatural ==
  ASSUME NEW a \in Nat, NEW b \in Nat, b # 0
  PROVE  a \div b \in Nat
OBVIOUS

LEMMA ProductNatural ==
  ASSUME NEW a \in Nat, NEW b \in Nat
  PROVE  a * b \in Nat
OBVIOUS

(* What a touch writes, DID by DID.                                        *)
LEMMA TouchedAt ==
  ASSUME NEW dids, NEW due, NEW t, NEW e, Touched(dids, due, t, e), NEW d \in Dids
  PROVE  LET grant == IF d \in dids \ rows THEN Policy.grant ELSE 0
             drip  == IF d \in due THEN Policy.refresh ELSE 0
         IN  /\ tokens'[d] = (t[d] + grant) + drip
             /\ log'[d] = ((log[d] + grant) + e[d]) + drip
BY DEF Touched, Plus, Entry

(* A touch keeps the types when what it adds to is covered by the grants.  *)
LEMMA TouchedTyped ==
  ASSUME TypeOK, NEW dids \in SUBSET Dids, NEW due \in SUBSET stale,
         NEW t, NEW e, Touched(dids, due, t, e),
         \A d \in Dids : t[d] \in Int /\ e[d] \in Int,
         \A d \in Dids : t[d] + (IF d \in dids \ rows THEN Policy.grant ELSE 0) >= 0
  PROVE  /\ rows' \subseteq Dids /\ stale' \subseteq rows'
         /\ tokens' \in [Dids -> Nat] /\ log' \in [Dids -> Int] /\ minted' \in Nat
<1>1. Policy.grant \in Nat /\ Policy.refresh \in Nat /\ IsFiniteSet(Dids)
  BY PolicyAssumption
<1>2. IsFiniteSet(dids \ rows) /\ IsFiniteSet(due)
  BY <1>1, FS_Subset DEF TypeOK
<1>3. Cardinality(dids \ rows) \in Nat /\ Cardinality(due) \in Nat
  BY <1>2, FS_CardinalityType
<1>4. minted' \in Nat
  <2>1. Policy.grant * Cardinality(dids \ rows) \in Nat
    BY <1>1, <1>3, ProductNatural
  <2>2. Policy.refresh * Cardinality(due) \in Nat
    BY <1>1, <1>3, ProductNatural
  <2> QED BY <2>1, <2>2 DEF Touched, TypeOK
<1>5. \A d \in Dids : tokens'[d] \in Nat /\ log'[d] \in Int
  <2> TAKE d \in Dids
  <2>1. log[d] \in Int
    BY DEF TypeOK
  <2> QED BY <1>1, <2>1, TouchedAt
<1>6. tokens' = [d \in Dids |-> tokens'[d]] /\ log' = [d \in Dids |-> log'[d]]
  BY DEF Touched, Plus
<1> QED BY <1>4, <1>5, <1>6 DEF Touched, TypeOK

(* A touch that moves nothing else keeps balances and log together.        *)
LEMMA TouchedMatches ==
  ASSUME TypeOK, NEW dids, NEW due, NEW t, NEW e, Touched(dids, due, t, e),
         \A d \in Dids : t[d] \in Int /\ e[d] \in Int /\ t[d] = log[d] + e[d]
  PROVE  BalancesMatchLog'
<1>1. Policy.grant \in Nat /\ Policy.refresh \in Nat
  BY PolicyAssumption
<1> SUFFICES ASSUME NEW d \in Dids PROVE tokens'[d] = log'[d]
  BY DEF BalancesMatchLog
<1>2. log[d] \in Int
  BY DEF TypeOK
<1> QED BY <1>1, <1>2, TouchedAt

LEMMA PlainTouch ==
  ASSUME TypeOK, BalancesMatchLog, NEW dids \in SUBSET Dids, NEW due \in SUBSET stale,
         Touched(dids, due, tokens, NoTransfer)
  PROVE  /\ rows' \subseteq Dids /\ stale' \subseteq rows'
         /\ tokens' \in [Dids -> Nat] /\ log' \in [Dids -> Int] /\ minted' \in Nat
         /\ BalancesMatchLog'
<1>1. Policy.grant \in Nat
  BY PolicyAssumption
<1>2. \A d \in Dids : tokens[d] \in Nat /\ NoTransfer[d] = 0 /\ tokens[d] = log[d] + NoTransfer[d]
  BY DEF TypeOK, BalancesMatchLog, NoTransfer
<1>3. \A d \in Dids : /\ tokens[d] \in Int /\ NoTransfer[d] \in Int
                      /\ tokens[d] + (IF d \in dids \ rows THEN Policy.grant ELSE 0) >= 0
  BY <1>1, <1>2
<1>4. BalancesMatchLog'
  BY <1>2, <1>3, TouchedMatches
<1> HIDE DEF NoTransfer
<1> QED BY <1>3, <1>4, TouchedTyped
-----------------------------------------------------------------------------
(* Balances by net movement and log by events agree, whoever coincides.    *)
LEMMA TransferAt ==
  ASSUME TypeOK, NEW r \in Receipts, NEW d \in Dids
  PROVE  /\ Moved(r)[d] \in Int /\ Events(r)[d] \in Int
         /\ Moved(r)[d] = tokens[d] + Events(r)[d]
         /\ d # Terms[r].requester => Events(r)[d] >= 0
         /\ Moved(r)[Terms[r].requester] = tokens[Terms[r].requester] +
              ReceiptDelta(Terms[r].requester, Terms[r].requester, Terms[r].provider,
                           Treasury, Terms[r].price, Share(r))
<1> DEFINE q == Terms[r].requester
           p == Terms[r].provider
           x == Terms[r].price
           s == Share(r)
<1>1. q \in Dids /\ p \in Dids /\ x \in Nat /\ s \in 0..x /\ tokens[d] \in Nat
  BY ReceiptFacts DEF TypeOK
<1>2. Moved(r)[d] = tokens[d] + (((IF d = q THEN -x ELSE 0)
                      + (IF d = p THEN x - s ELSE 0)) + (IF d = Treasury THEN s ELSE 0))
  BY DEF Moved, ReceiptDelta
<1>3. Events(r)[d] = ((IF d = q THEN -x ELSE 0)
                      + (IF d = p THEN x - s ELSE 0)) + (IF d = Treasury THEN s ELSE 0)
  BY DEF Events, Plus, Entry
<1>4. Moved(r)[q] = tokens[q] + ReceiptDelta(q, q, p, Treasury, x, s)
  BY <1>1 DEF Moved
<1> HIDE DEF q, p, x, s
<1>5. /\ Moved(r)[d] \in Int /\ Events(r)[d] \in Int
      /\ Moved(r)[d] = tokens[d] + Events(r)[d]
      /\ d # q => Events(r)[d] >= 0
  BY <1>1, <1>2, <1>3
<1> QED BY <1>4, <1>5 DEF q, p, x, s

LEMMA ApplyReceiptStep ==
  ASSUME IndInv, NEW r \in Receipts, ApplyReceipt(r)
  PROVE  IndInv'
<1> USE DEF IndInv
<1> DEFINE q == Terms[r].requester
           p == Terms[r].provider
<1>1. /\ Terms[r].price \in Nat /\ Share(r) \in 0..Terms[r].price
      /\ q \in Dids /\ p \in Dids /\ Parties(r) \subseteq Dids /\ q \in Parties(r)
  BY ReceiptFacts DEF Parties
<1>2. \A d \in Dids : tokens[d] \in Nat /\ tokens[d] = log[d]
  BY DEF TypeOK, BalancesMatchLog
<1>3. Policy.grant \in Nat
  BY PolicyAssumption
<1>4. /\ periods' \subseteq Months \X Months /\ payouts' \in [Months \X Months -> Nat]
      /\ job' \in [Receipts -> {"none", "admitted", "unchecked"}] /\ month' \in Months
      /\ processed' \subseteq Receipts
  BY DEF ApplyReceipt, TypeOK
<1>5. CASE ~Covered(r)
  <2>1. Touched(Parties(r), {}, tokens, NoTransfer) /\ UNCHANGED <<volume, turnover>>
    BY <1>5 DEF ApplyReceipt
  <2>2. /\ rows' \subseteq Dids /\ stale' \subseteq rows'
        /\ tokens' \in [Dids -> Nat] /\ log' \in [Dids -> Int] /\ minted' \in Nat
        /\ BalancesMatchLog'
    BY <1>1, <2>1, PlainTouch
  <2> QED BY <1>4, <2>1, <2>2 DEF TypeOK, Monotone
<1>6. CASE Covered(r)
  <2> DEFINE due == Due({q, p})
  <2>1. /\ Touched(Parties(r), due, Moved(r), Events(r))
        /\ volume' = [m \in Months |-> [d \in Dids |->
                        volume[m][d] + (IF m > month THEN Flow(r, d) ELSE 0)]]
        /\ turnover' = [m \in Months |->
                          turnover[m] + (IF m > month THEN MemberFlow(r) ELSE 0)]
    BY <1>6 DEF ApplyReceipt
  <2>2. due \in SUBSET stale
    BY DEF Due
  <2>3. \A d \in Dids : /\ Moved(r)[d] \in Int /\ Events(r)[d] \in Int
                        /\ Moved(r)[d] = log[d] + Events(r)[d]
    BY <1>2, TransferAt
  <2>4. \A d \in Dids : Moved(r)[d] + (IF d \in Parties(r) \ rows THEN Policy.grant ELSE 0) >= 0
    <3> SUFFICES ASSUME NEW d \in Dids
                 PROVE Moved(r)[d] + (IF d \in Parties(r) \ rows THEN Policy.grant ELSE 0) >= 0
      OBVIOUS
    <3>1. CASE d # q
      BY <1>2, <1>3, <2>3, <3>1, TransferAt
    <3>2. CASE d = q
      <4> DEFINE delta == ReceiptDelta(q, q, p, Treasury, Terms[r].price, Share(r))
      <4>1. Granted(r)[q] = tokens[q] + (IF q \in Parties(r) \ rows THEN Policy.grant ELSE 0)
        BY <1>1 DEF Granted, Plus, Entry
      <4>2. Granted(r)[q] + delta >= 0
        BY <1>6 DEF Covered
      <4>3. Moved(r)[q] = tokens[q] + delta
        BY <1>1, TransferAt
      <4>4. delta \in Int
        <5>1. Treasury \in Dids
          BY PolicyAssumption
        <5> QED BY <1>1, <5>1 DEF ReceiptDelta
      <4> HIDE DEF delta
      <4> QED BY <1>1, <1>2, <1>3, <3>2, <4>1, <4>2, <4>3, <4>4
    <3> QED BY <3>1, <3>2
  <2> HIDE DEF due
  <2>5. /\ rows' \subseteq Dids /\ stale' \subseteq rows'
        /\ tokens' \in [Dids -> Nat] /\ log' \in [Dids -> Int] /\ minted' \in Nat
    BY <1>1, <2>1, <2>2, <2>3, <2>4, TouchedTyped
  <2>6. BalancesMatchLog'
    BY <2>1, <2>3, TouchedMatches
  <2>7. /\ \A d \in Dids : Flow(r, d) \in Nat
        /\ MemberFlow(r) \in Nat
    BY <1>1 DEF Flow, MemberFlow
  <2>8. month \in Nat /\ Months \subseteq Nat
    BY RegimeAssumption DEF TypeOK, Months
  <2>9. /\ volume' \in [Months -> [Dids -> Nat]] /\ turnover' \in [Months -> Nat]
    <3>1. \A m \in Months : turnover[m] \in Nat /\ \A d \in Dids : volume[m][d] \in Nat
      BY DEF TypeOK
    <3> QED BY <2>1, <2>7, <2>8, <3>1
  <2>10. Monotone'
    <3> SUFFICES ASSUME NEW m \in Months, NEW n \in Months, m <= n
                 PROVE  /\ turnover'[m] <= turnover'[n]
                        /\ \A d \in Dids : volume'[m][d] <= volume'[n][d]
      BY DEF Monotone, Months
    <3>1. /\ turnover[m] \in Nat /\ turnover[n] \in Nat /\ turnover[m] <= turnover[n]
          /\ m > month => n > month
      BY <2>8 DEF TypeOK, Monotone
    <3>2. turnover'[m] <= turnover'[n]
      BY <2>1, <2>7, <3>1
    <3>3. ASSUME NEW d \in Dids PROVE volume'[m][d] <= volume'[n][d]
      <4>1. /\ volume[m][d] \in Nat /\ volume[n][d] \in Nat /\ volume[m][d] <= volume[n][d]
        BY DEF TypeOK, Monotone
      <4>2. /\ volume'[m][d] = volume[m][d] + (IF m > month THEN Flow(r, d) ELSE 0)
            /\ volume'[n][d] = volume[n][d] + (IF n > month THEN Flow(r, d) ELSE 0)
        BY <2>1
      <4> QED BY <2>7, <3>1, <4>1, <4>2
    <3> QED BY <3>2, <3>3
  <2> QED BY <1>4, <2>5, <2>6, <2>9, <2>10 DEF TypeOK
<1> QED BY <1>5, <1>6
-----------------------------------------------------------------------------
(* A distribution credits naturals, and the treasury nothing.              *)
LEMMA ScoreNatural ==
  ASSUME TypeOK, Monotone, NEW start \in Months, NEW end \in Months, start <= end
  PROVE  /\ TotalScore(start, end) \in Nat /\ ToDistribute \in Nat
         /\ \A d \in Dids : Score(start, end, d) \in Nat
<1>1. /\ turnover[start] \in Nat /\ turnover[end] \in Nat /\ turnover[start] <= turnover[end]
      /\ \A d \in Dids : /\ volume[start][d] \in Nat /\ volume[end][d] \in Nat
                          /\ volume[start][d] <= volume[end][d]
  BY DEF TypeOK, Monotone
<1>2. ToDistribute \in Nat
  <2>1. tokens[Treasury] \in Nat /\ Policy.patronageBps \in Nat
    BY PolicyAssumption DEF TypeOK
  <2>2. tokens[Treasury] * Policy.patronageBps \in Nat
    BY <2>1, ProductNatural
  <2> QED BY <2>2 DEF ToDistribute
<1>3. TotalScore(start, end) \in Nat
  BY <1>1 DEF TotalScore
<1>4. \A d \in Dids : Score(start, end, d) \in Nat
  BY <1>1 DEF Score
<1> QED BY <1>2, <1>3, <1>4

LEMMA CreditNatural ==
  ASSUME TypeOK, Monotone, NEW start \in Months, NEW end \in Months, start <= end,
         TotalScore(start, end) # 0, NEW d \in Dids
  PROVE  Credits(start, end)[d] \in Nat
<1>1. /\ ToDistribute \in Nat /\ Score(start, end, d) \in Nat
      /\ TotalScore(start, end) \in Nat
  BY ScoreNatural
<1>2. ToDistribute * Score(start, end, d) \in Nat
  BY <1>1, ProductNatural
<1> QED BY <1>1, <1>2, QuotientNatural DEF Credit, Credits

LEMMA TreasuryUncredited ==
  ASSUME TypeOK, Monotone, NEW start \in Months, NEW end \in Months, start <= end,
         TotalScore(start, end) # 0
  PROVE  Credits(start, end)[Treasury] = 0
<1>1. Treasury \in Dids /\ Score(start, end, Treasury) = 0
  BY PolicyAssumption DEF Score
<1>2. TotalScore(start, end) \in Nat \ {0} /\ ToDistribute \in Nat
  BY ScoreNatural
<1>3. ToDistribute * 0 = 0
  BY <1>2
<1>4. 0 \div TotalScore(start, end) = 0
  BY <1>2
<1> QED BY <1>1, <1>3, <1>4 DEF Credit, Credits

LEMMA DistributeStep ==
  ASSUME IndInv, NEW start \in Months, NEW end \in Months, start <= end,
         Distribute(start, end)
  PROVE  /\ IndInv'
         /\ \A d \in Dids \ {Treasury} : tokens'[d] >= tokens[d]
<1> USE DEF IndInv
<1>1. Treasury \in Dids
  BY PolicyAssumption
<1>2. /\ UNCHANGED <<volume, turnover, processed, stale, job, month, rows, minted>>
      /\ periods' \subseteq Months \X Months
  BY DEF Distribute, TypeOK, books
<1>3. CASE UNCHANGED <<books, payouts>>
  BY <1>2, <1>3 DEF TypeOK, Monotone, BalancesMatchLog, books
<1>4. CASE ~UNCHANGED <<books, payouts>>
  <2> DEFINE credited == Credits(start, end)
  <2>1. TotalScore(start, end) # 0
    BY <1>4 DEF Distribute
  <2>2. PICK paid \in 0..tokens[Treasury] :
          /\ tokens' = [d \in Dids |-> IF d = Treasury THEN tokens[Treasury] - paid
                                       ELSE tokens[d] + credited[d]]
          /\ log' = Plus(Plus(log, credited), Entry(-paid, {Treasury}))
          /\ payouts' = IF paid = 0 THEN payouts
                        ELSE [payouts EXCEPT ![<<start, end>>] = @ + 1]
    BY <1>4 DEF Distribute
  <2>3. \A d \in Dids : credited[d] \in Nat /\ tokens[d] \in Nat /\ tokens[d] = log[d]
    BY <2>1, CreditNatural DEF TypeOK, BalancesMatchLog
  <2>4. credited[Treasury] = 0
    BY <2>1, TreasuryUncredited
  <2> HIDE DEF credited
  <2>5. tokens[Treasury] \in Nat /\ paid \in Nat /\ paid <= tokens[Treasury]
    BY <1>1, <2>3
  <2>6. \A d \in Dids : /\ tokens'[d] \in Nat /\ tokens'[d] = log'[d] /\ log'[d] \in Int
                        /\ d # Treasury => tokens'[d] >= tokens[d]
    <3> TAKE d \in Dids
    <3>1. log'[d] = (log[d] + credited[d]) + (IF d = Treasury THEN -paid ELSE 0)
      BY <2>2 DEF Plus, Entry
    <3>2. tokens'[d] = IF d = Treasury THEN tokens[Treasury] - paid ELSE tokens[d] + credited[d]
      BY <2>2
    <3> QED BY <2>3, <2>4, <2>5, <3>1, <3>2
  <2>7. tokens' \in [Dids -> Nat] /\ log' \in [Dids -> Int]
    BY <2>2, <2>6 DEF Plus
  <2>8. payouts' \in [Months \X Months -> Nat]
    BY <2>2 DEF TypeOK
  <2> QED BY <1>2, <2>6, <2>7, <2>8 DEF TypeOK, Monotone, BalancesMatchLog
<1> QED BY <1>3, <1>4
-----------------------------------------------------------------------------
LEMMA DispatchStep ==
  ASSUME IndInv, NEW r \in Receipts, Dispatch(r)
  PROVE  IndInv'
<1> USE DEF IndInv
<1>1. /\ UNCHANGED <<tally, processed, month>>
      /\ job' \in [Receipts -> {"none", "admitted", "unchecked"}]
  BY DEF Dispatch, TypeOK
<1>2. CASE UNCHANGED <<books, stale>>
  BY <1>1, <1>2 DEF TypeOK, Monotone, BalancesMatchLog, books, tally
<1>3. CASE Touched({Terms[r].requester}, {}, tokens, NoTransfer)
  <2>1. {Terms[r].requester} \in SUBSET Dids
    BY ReceiptFacts
  <2>2. /\ rows' \subseteq Dids /\ stale' \subseteq rows'
        /\ tokens' \in [Dids -> Nat] /\ log' \in [Dids -> Int] /\ minted' \in Nat
        /\ BalancesMatchLog'
    BY <1>3, <2>1, PlainTouch
  <2> QED BY <1>1, <2>2 DEF TypeOK, Monotone, tally
<1> QED BY <1>2, <1>3 DEF Dispatch

LEMMA GetBalanceStep ==
  ASSUME IndInv, NEW d \in Dids, GetBalance(d)
  PROVE  IndInv'
<1> USE DEF IndInv
<1>1. {d} \in SUBSET Dids /\ Due({d}) \in SUBSET stale
  BY DEF Due
<1>2. /\ rows' \subseteq Dids /\ stale' \subseteq rows'
      /\ tokens' \in [Dids -> Nat] /\ log' \in [Dids -> Int] /\ minted' \in Nat
      /\ BalancesMatchLog'
  BY <1>1, PlainTouch DEF GetBalance
<1> QED BY <1>2 DEF GetBalance, TypeOK, Monotone, tally

LEMMA WindowTyped ==
  ASSUME TypeOK
  PROVE  /\ month > 0 => month - 1 \in Months /\ month \in Months
         /\ \A e \in 0..(month + 1) : e <= MaxMonth => e \in Months
BY RegimeAssumption DEF TypeOK, Months

LEMMA InductiveInit == Init => IndInv
<1> SUFFICES ASSUME Init PROVE IndInv
  OBVIOUS
<1>1. TypeOK
  BY RegimeAssumption DEF Init, TypeOK, Months
<1>2. Monotone /\ BalancesMatchLog
  BY DEF Init, Monotone, BalancesMatchLog
<1> QED BY <1>1, <1>2 DEF IndInv

LEMMA InductiveStep == IndInv /\ [Next]_vars => IndInv'
<1> SUFFICES ASSUME IndInv, [Next]_vars PROVE IndInv'
  OBVIOUS
<1>1. ASSUME NEW r \in Receipts, Dispatch(r) PROVE IndInv'
  BY <1>1, DispatchStep
<1>2. ASSUME NEW r \in Receipts, ApplyReceipt(r) PROVE IndInv'
  BY <1>2, ApplyReceiptStep
<1>3. ASSUME NEW d \in Dids, GetBalance(d) PROVE IndInv'
  BY <1>3, GetBalanceStep
<1>4. CASE DistributePriorMonth
  <2>1. month - 1 \in Months /\ month \in Months /\ month - 1 <= month
    BY <1>4, WindowTyped DEF DistributePriorMonth, IndInv, Months
  <2> QED BY <1>4, <2>1, DistributeStep DEF DistributePriorMonth
<1>5. CASE DistributeWindow
  <2>1. PICK start, end \in 0..(month + 1) :
          start < end /\ end <= MaxMonth /\ Distribute(start, end)
    BY <1>5 DEF DistributeWindow
  <2>2. start \in Months /\ end \in Months /\ start <= end
    BY <2>1, WindowTyped, RegimeAssumption DEF IndInv, Months
  <2> QED BY <2>1, <2>2, DistributeStep
<1>6. CASE Rebuild
  BY <1>6 DEF Rebuild, IndInv, TypeOK, Monotone, BalancesMatchLog, tally
<1>7. CASE NextMonth
  BY <1>7, RegimeAssumption DEF NextMonth, IndInv, TypeOK, Months, Monotone, BalancesMatchLog,
     books, tally
<1>8. CASE UNCHANGED vars
  BY <1>8 DEF vars, books, tally, IndInv, TypeOK, Monotone, BalancesMatchLog
<1> QED BY <1>1, <1>2, <1>3, <1>4, <1>5, <1>6, <1>7, <1>8 DEF Next

(* Types and the agreement of balances and log in every reachable state.   *)
THEOREM Invariance == Spec => []IndInv
<1> QED BY InductiveInit, InductiveStep, PTL DEF Spec

(* No balance is ever negative (token-balance.ts, reconcile, invariant 3). *)
THEOREM TypeCorrect == Spec => []TypeOK
<1>1. IndInv => TypeOK
  BY DEF IndInv
<1> QED BY <1>1, Invariance, PTL

(* Every balance equals the sum of its events, for every coincidence of    *)
(* requester, provider and treasury (token-balance.ts, applyReceipt).      *)
THEOREM BooksAgree == Spec => []BalancesMatchLog
<1>1. IndInv => BalancesMatchLog
  BY DEF IndInv
<1> QED BY <1>1, Invariance, PTL
-----------------------------------------------------------------------------
(* Conservation.  The log adds up to the mints: each entry of a receipt or *)
(* a payout has a counter-entry, so only grants and refreshes change the   *)
(* sum.  Balances then add up to the same, because they match the log.     *)
Total(f) == SumFunctionOnSet(f, Dids)

LogAddsUp == Total(log) = minted

Whole(f) == \A d \in Dids : f[d] \in Int

LEMMA PlusTotal ==
  ASSUME NEW f, NEW g, Whole(f), Whole(g)
  PROVE  Whole(Plus(f, g)) /\ Total(Plus(f, g)) = Total(f) + Total(g)
<1> DEFINE h == Plus(f, g)
<1>1. \A d \in Dids : f[d] \in Int /\ g[d] \in Int /\ h[d] = f[d] + g[d]
  BY DEF Plus, Whole
<1> HIDE DEF h
<1>2. SumFunctionOnSet(h, Dids) = SumFunctionOnSet(f, Dids) + SumFunctionOnSet(g, Dids)
  BY <1>1, SumPlus, PolicyAssumption
<1>3. Whole(h)
  BY <1>1 DEF Whole
<1> QED BY <1>2, <1>3 DEF Total, h

LEMMA EntryTotal ==
  ASSUME NEW amount \in Int, NEW dids \in SUBSET Dids
  PROVE  /\ Whole(Entry(amount, dids))
         /\ Total(Entry(amount, dids)) = amount * Cardinality(dids)
<1> DEFINE f == Entry(amount, dids)
<1>1. \A d \in Dids : f[d] = IF d \in dids THEN amount ELSE 0
  BY DEF Entry
<1> HIDE DEF f
<1>2. SumFunctionOnSet(f, Dids) = amount * Cardinality(dids)
  BY <1>1, SumEntry, PolicyAssumption
<1>3. Whole(f)
  BY <1>1 DEF Whole
<1> QED BY <1>2, <1>3 DEF Total, f

LEMMA SingleEntryTotal ==
  ASSUME NEW amount \in Int, NEW d \in Dids
  PROVE  Whole(Entry(amount, {d})) /\ Total(Entry(amount, {d})) = amount
<1>1. Cardinality({d}) = 1
  BY FS_Singleton
<1>2. amount * 1 = amount
  OBVIOUS
<1> QED BY <1>1, <1>2, EntryTotal

LEMMA WholeTotal ==
  ASSUME NEW f, Whole(f)
  PROVE  Total(f) \in Int
BY SumInteger, PolicyAssumption DEF Whole, Total

(* The three events of a receipt cancel out, whoever they name.            *)
LEMMA EventsCancel ==
  ASSUME NEW r \in Receipts
  PROVE  Whole(Events(r)) /\ Total(Events(r)) = 0
<1> DEFINE x == Terms[r].price
           s == Share(r)
           out == Entry(-x, {Terms[r].requester})
           in == Entry(x - s, {Terms[r].provider})
           fee == Entry(s, {Treasury})
<1>1. x \in Int /\ s \in Int /\ -x \in Int /\ x - s \in Int
  BY ReceiptFacts
<1>2. Terms[r].requester \in Dids /\ Terms[r].provider \in Dids /\ Treasury \in Dids
  BY ReceiptFacts, PolicyAssumption
<1> HIDE DEF x, s
<1>3. /\ Whole(out) /\ Total(out) = -x
      /\ Whole(in) /\ Total(in) = x - s
      /\ Whole(fee) /\ Total(fee) = s
  BY <1>1, <1>2, SingleEntryTotal
<1>4. Events(r) = Plus(Plus(out, in), fee)
  BY DEF Events, x, s
<1> HIDE DEF out, in, fee
<1>5. Whole(Plus(out, in)) /\ Total(Plus(out, in)) = Total(out) + Total(in)
  BY <1>3, PlusTotal
<1>6. Whole(Events(r)) /\ Total(Events(r)) = Total(Plus(out, in)) + Total(fee)
  BY <1>3, <1>4, <1>5, PlusTotal
<1> QED BY <1>1, <1>3, <1>5, <1>6

LEMMA TouchedAddsUp ==
  ASSUME TypeOK, LogAddsUp, NEW dids \in SUBSET Dids, NEW due \in SUBSET stale,
         NEW t, NEW e, Touched(dids, due, t, e), Whole(e), Total(e) = 0
  PROVE  LogAddsUp'
<1> DEFINE grants == Entry(Policy.grant, dids \ rows)
           drips == Entry(Policy.refresh, due)
           granted == Policy.grant * Cardinality(dids \ rows)
           dripped == Policy.refresh * Cardinality(due)
<1>1. Policy.grant \in Int /\ Policy.refresh \in Int
  BY PolicyAssumption
<1>2. dids \ rows \in SUBSET Dids /\ due \in SUBSET Dids
  BY DEF TypeOK
<1>3. Whole(grants) /\ Total(grants) = granted
  BY <1>1, <1>2, EntryTotal
<1>4. Whole(drips) /\ Total(drips) = dripped
  BY <1>1, <1>2, EntryTotal
<1>5. log' = Plus(Plus(Plus(log, grants), e), drips) /\ minted' = minted + granted + dripped
  BY DEF Touched
<1>6. Whole(log) /\ Total(log) = minted
  BY DEF LogAddsUp, TypeOK, Whole
<1> HIDE DEF grants, drips, granted, dripped
<1>7. Whole(Plus(log, grants)) /\ Total(Plus(log, grants)) = minted + granted
  BY <1>3, <1>6, PlusTotal
<1>8. /\ Whole(Plus(Plus(log, grants), e))
      /\ Total(Plus(Plus(log, grants), e)) = (minted + granted) + 0
  BY <1>7, PlusTotal
<1>9. Total(log') = ((minted + granted) + 0) + dripped
  BY <1>4, <1>5, <1>8, PlusTotal
<1>10. Total(log) \in Int /\ Total(grants) \in Int /\ Total(drips) \in Int
  BY <1>3, <1>4, <1>6, WholeTotal
<1> QED BY <1>3, <1>4, <1>5, <1>6, <1>9, <1>10 DEF LogAddsUp

LEMMA NothingTotal == Whole(NoTransfer) /\ Total(NoTransfer) = 0
<1> DEFINE nothing == Entry(0, {})
<1>1. NoTransfer = nothing
  BY DEF NoTransfer, Entry
<1>2. Whole(nothing) /\ Total(nothing) = 0 * Cardinality({})
  BY EntryTotal
<1>3. 0 * Cardinality({}) = 0
  BY FS_EmptySet
<1> QED BY <1>1, <1>2, <1>3

(* The treasury pays what the members are credited, rounding included.     *)
LEMMA DistributeAddsUp ==
  ASSUME IndInv, LogAddsUp, NEW start \in Months, NEW end \in Months, start <= end,
         Distribute(start, end)
  PROVE  LogAddsUp'
<1> USE DEF IndInv
<1>1. CASE UNCHANGED <<books, payouts>>
  BY <1>1 DEF LogAddsUp, books
<1>2. CASE ~UNCHANGED <<books, payouts>>
  <2> DEFINE credited == Credits(start, end)
  <2>1. TotalScore(start, end) # 0 /\ UNCHANGED minted
    BY <1>2 DEF Distribute
  <2>2. PICK paid \in 0..tokens[Treasury] :
          /\ paid = Debit(credited)
          /\ log' = Plus(Plus(log, credited), Entry(-paid, {Treasury}))
    BY <1>2 DEF Distribute
  <2>3. \A d \in Dids : credited[d] \in Nat
    BY <2>1, CreditNatural
  <2> HIDE DEF credited
  <2>4. Treasury \in Dids /\ tokens[Treasury] \in Nat
    BY PolicyAssumption DEF TypeOK
  <2>5. paid \in Int /\ -paid \in Int
    BY <2>4
  <2>6. Whole(credited) /\ Total(credited) = paid
    BY <2>2, <2>3 DEF Whole, Total, Debit
  <2>7. Whole(log) /\ Total(log) = minted
    BY DEF LogAddsUp, TypeOK, Whole
  <2>8. /\ Whole(Entry(-paid, {Treasury})) /\ Total(Entry(-paid, {Treasury})) = -paid
    BY <2>4, <2>5, SingleEntryTotal
  <2>9. Whole(Plus(log, credited)) /\ Total(Plus(log, credited)) = minted + paid
    BY <2>6, <2>7, PlusTotal
  <2>10. Total(log') = (minted + paid) + (-paid)
    BY <2>2, <2>8, <2>9, PlusTotal
  <2>11. minted \in Int
    BY DEF TypeOK
  <2> QED BY <2>1, <2>5, <2>10, <2>11 DEF LogAddsUp
<1> QED BY <1>1, <1>2

LEMMA LogAddsUpInit == Init => LogAddsUp
<1> SUFFICES ASSUME Init PROVE LogAddsUp
  OBVIOUS
<1>1. log = NoTransfer /\ minted = 0
  BY DEF Init, NoTransfer
<1> QED BY <1>1, NothingTotal DEF LogAddsUp

LEMMA LogAddsUpStep == IndInv /\ LogAddsUp /\ [Next]_vars => LogAddsUp'
<1> SUFFICES ASSUME IndInv, LogAddsUp, [Next]_vars PROVE LogAddsUp'
  OBVIOUS
<1> USE DEF IndInv
<1>0. \A dids : Due(dids) \in SUBSET stale
  BY DEF Due
<1>1. ASSUME NEW r \in Receipts, Dispatch(r) PROVE LogAddsUp'
  <2>1. CASE UNCHANGED books
    BY <2>1 DEF books, LogAddsUp
  <2>2. CASE Touched({Terms[r].requester}, {}, tokens, NoTransfer)
    <3>1. {Terms[r].requester} \in SUBSET Dids /\ {} \in SUBSET stale
      BY ReceiptFacts
    <3> QED BY <2>2, <3>1, TouchedAddsUp, NothingTotal
  <2> QED BY <1>1, <2>1, <2>2 DEF Dispatch
<1>2. ASSUME NEW r \in Receipts, ApplyReceipt(r) PROVE LogAddsUp'
  <2>1. Parties(r) \in SUBSET Dids /\ {} \in SUBSET stale
    BY ReceiptFacts
  <2>2. CASE Touched(Parties(r), {}, tokens, NoTransfer)
    BY <2>1, <2>2, TouchedAddsUp, NothingTotal
  <2>3. CASE Touched(Parties(r), Due({Terms[r].requester, Terms[r].provider}),
                     Moved(r), Events(r))
    BY <1>0, <2>1, <2>3, TouchedAddsUp, EventsCancel
  <2> QED BY <1>2, <2>2, <2>3 DEF ApplyReceipt
<1>3. ASSUME NEW d \in Dids, GetBalance(d) PROVE LogAddsUp'
  <2>1. {d} \in SUBSET Dids /\ Touched({d}, Due({d}), tokens, NoTransfer)
    BY <1>3 DEF GetBalance
  <2> QED BY <1>0, <2>1, TouchedAddsUp, NothingTotal
<1>4. CASE DistributePriorMonth
  <2>1. month - 1 \in Months /\ month \in Months /\ month - 1 <= month
    BY <1>4, WindowTyped DEF DistributePriorMonth, Months
  <2> QED BY <1>4, <2>1, DistributeAddsUp DEF DistributePriorMonth
<1>5. CASE DistributeWindow
  <2>1. PICK start, end \in 0..(month + 1) :
          start < end /\ end <= MaxMonth /\ Distribute(start, end)
    BY <1>5 DEF DistributeWindow
  <2>2. start \in Months /\ end \in Months /\ start <= end
    BY <2>1, WindowTyped, RegimeAssumption DEF Months
  <2> QED BY <2>1, <2>2, DistributeAddsUp
<1>6. CASE Rebuild \/ NextMonth \/ UNCHANGED vars
  BY <1>6 DEF Rebuild, NextMonth, vars, books, LogAddsUp
<1> QED BY <1>1, <1>2, <1>3, <1>4, <1>5, <1>6 DEF Next

LEMMA BalancesAddUp == IndInv /\ LogAddsUp => SystemTotal
<1> SUFFICES ASSUME IndInv, LogAddsUp PROVE SystemTotal
  OBVIOUS
<1>1. \A d \in Dids : tokens[d] \in Int /\ tokens[d] = log[d]
  BY DEF IndInv, TypeOK, BalancesMatchLog
<1>2. SumFunctionOnSet(tokens, Dids) = SumFunctionOnSet(log, Dids)
  BY <1>1, SumAgrees, PolicyAssumption
<1> QED BY <1>2 DEF LogAddsUp, Total, SystemTotal

(* The balances add up to the grants and refreshes: no receipt, fee,       *)
(* self-loop, payout or rebuild makes or loses a token, rounding included  *)
(* (token-balance.ts, reconcile, invariants 1 and 5).                      *)
THEOREM TokensConserved == Spec => []SystemTotal
BY BalancesAddUp, LogAddsUpInit, LogAddsUpStep, Invariance, PTL DEF Spec
-----------------------------------------------------------------------------
(* The share of a payout.  The code divides each score by the sum of the   *)
(* scores; the model keeps what flowed through all members before a month  *)
(* in a variable of its own, and the two are shown to agree.               *)
Members == Dids \ {Treasury}

MemberSum(f) == SumFunctionOnSet(f, Members)

TurnoverIsSum == \A m \in Months : turnover[m] = MemberSum(volume[m])

LEMMA MembersFinite ==
  /\ Treasury \in Dids /\ IsFiniteSet(Dids) /\ IsFiniteSet(Members) /\ Members \subseteq Dids
  /\ Cardinality(Members) \in Nat /\ Cardinality(Dids) = Cardinality(Members) + 1
<1>1. Treasury \in Dids /\ IsFiniteSet(Dids)
  BY PolicyAssumption
<1>2. IsFiniteSet(Members) /\ Cardinality(Members) = Cardinality(Dids) - 1
  BY <1>1, FS_RemoveElement DEF Members
<1>3. Cardinality(Members) \in Nat /\ Cardinality(Dids) \in Nat
  BY <1>1, <1>2, FS_CardinalityType
<1> QED BY <1>1, <1>2, <1>3 DEF Members

LEMMA MemberEntry ==
  ASSUME NEW f, NEW c \in Dids, NEW amount \in Int,
         \A d \in Members : f[d] = IF d = c THEN amount ELSE 0
  PROVE  MemberSum(f) = IF c # Treasury THEN amount ELSE 0
<1> DEFINE T == {c} \ {Treasury}
<1>1. T \in SUBSET Members /\ \A d \in Members : f[d] = IF d \in T THEN amount ELSE 0
  BY DEF Members
<1>2. Cardinality(T) = IF c # Treasury THEN 1 ELSE 0
  <2>1. CASE c # Treasury
    <3>1. T = {c} /\ Cardinality({c}) = 1
      BY <2>1, FS_Singleton
    <3> QED BY <2>1, <3>1
  <2>2. CASE c = Treasury
    <3>1. T = {} /\ Cardinality({}) = 0
      BY <2>2, FS_EmptySet
    <3> QED BY <2>2, <3>1
  <2> QED BY <2>1, <2>2
<1> HIDE DEF T
<1>3. MemberSum(f) = amount * Cardinality(T)
  BY <1>1, SumEntry, MembersFinite DEF MemberSum
<1>4. amount * 1 = amount /\ amount * 0 = 0
  OBVIOUS
<1> QED BY <1>2, <1>3, <1>4

(* Both events of a receipt count, a self-loop's and the treasury's too.   *)
LEMMA FlowAddsUp ==
  ASSUME NEW r \in Receipts
  PROVE  /\ \A d \in Dids : Flow(r, d) \in Int
         /\ MemberSum([d \in Dids |-> Flow(r, d)]) = MemberFlow(r)
<1> DEFINE q == Terms[r].requester
           p == Terms[r].provider
           x == Terms[r].price
           s == Share(r)
           spent == [d \in Dids |-> IF d = q THEN x ELSE 0]
           earned == [d \in Dids |-> IF d = p THEN x - s ELSE 0]
           flow == [d \in Dids |-> Flow(r, d)]
<1>1. q \in Dids /\ p \in Dids /\ x \in Int /\ x - s \in Int
  BY ReceiptFacts
<1>2. /\ \A d \in Members : /\ spent[d] = IF d = q THEN x ELSE 0
                            /\ earned[d] = IF d = p THEN x - s ELSE 0
      /\ \A d \in Dids : flow[d] = spent[d] + earned[d] /\ flow[d] = Flow(r, d)
      /\ MemberFlow(r) = (IF q # Treasury THEN x ELSE 0) + (IF p # Treasury THEN x - s ELSE 0)
  BY DEF Flow, MemberFlow, Members
<1>3. \A d \in Dids : spent[d] \in Int /\ earned[d] \in Int
  BY <1>1
<1> HIDE DEF q, p, x, s, spent, earned, flow
<1>4. MemberSum(spent) = IF q # Treasury THEN x ELSE 0
  BY <1>1, <1>2, MemberEntry
<1>5. MemberSum(earned) = IF p # Treasury THEN x - s ELSE 0
  BY <1>1, <1>2, MemberEntry
<1>6. \A d \in Members : /\ spent[d] \in Int /\ earned[d] \in Int
                         /\ flow[d] = spent[d] + earned[d]
  BY <1>2, <1>3 DEF Members
<1>7. MemberSum(flow) = MemberSum(spent) + MemberSum(earned)
  BY <1>6, SumPlus, MembersFinite DEF MemberSum
<1>8. \A d \in Dids : Flow(r, d) \in Int
  BY <1>2, <1>3
<1> QED BY <1>2, <1>4, <1>5, <1>7, <1>8 DEF flow

LEMMA TurnoverApply ==
  ASSUME IndInv, TurnoverIsSum, NEW r \in Receipts, ApplyReceipt(r)
  PROVE  TurnoverIsSum'
<1> DEFINE flow == [d \in Dids |-> Flow(r, d)]
<1>1. CASE UNCHANGED <<volume, turnover>>
  BY <1>1 DEF TurnoverIsSum
<1>2. CASE ~UNCHANGED <<volume, turnover>>
  <2> SUFFICES ASSUME NEW m \in Months PROVE turnover'[m] = MemberSum(volume'[m])
    BY DEF TurnoverIsSum
  <2>1. /\ volume'[m] = [d \in Dids |->
                          volume[m][d] + (IF m > month THEN Flow(r, d) ELSE 0)]
        /\ turnover'[m] = turnover[m] + (IF m > month THEN MemberFlow(r) ELSE 0)
    BY <1>2 DEF ApplyReceipt
  <2>2. /\ turnover[m] = MemberSum(volume[m]) /\ turnover[m] \in Int
        /\ \A d \in Members : volume[m][d] \in Int
    BY MembersFinite DEF TurnoverIsSum, IndInv, TypeOK
  <2>3. CASE m > month
    <3>1. \A d \in Members : /\ volume[m][d] \in Int /\ flow[d] \in Int
                             /\ volume'[m][d] = volume[m][d] + flow[d]
      BY <2>1, <2>2, <2>3, FlowAddsUp, MembersFinite
    <3>2. MemberSum(flow) = MemberFlow(r)
      BY FlowAddsUp
    <3> HIDE DEF flow
    <3>3. MemberSum(volume'[m]) = MemberSum(volume[m]) + MemberSum(flow)
      BY <3>1, SumPlus, MembersFinite DEF MemberSum
    <3> QED BY <2>1, <2>2, <2>3, <3>2, <3>3
  <2>4. CASE ~(m > month)
    <3>1. \A d \in Members : volume[m][d] \in Int /\ volume[m][d] = volume'[m][d]
      BY <2>1, <2>2, <2>4, MembersFinite
    <3>2. MemberSum(volume[m]) = MemberSum(volume'[m])
      BY <3>1, SumAgrees, MembersFinite DEF MemberSum
    <3> QED BY <2>1, <2>2, <2>4, <3>2
  <2> QED BY <2>3, <2>4
<1> QED BY <1>1, <1>2

LEMMA TurnoverInit == Init => TurnoverIsSum
<1> SUFFICES ASSUME Init, NEW m \in Months PROVE turnover[m] = MemberSum(volume[m])
  BY DEF TurnoverIsSum
<1>1. turnover[m] = 0 /\ \A d \in Members : volume[m][d] = IF d = Treasury THEN 0 ELSE 0
  BY MembersFinite DEF Init
<1>2. MemberSum(volume[m]) = 0
  BY <1>1, MemberEntry, MembersFinite
<1> QED BY <1>1, <1>2

LEMMA TurnoverStep == IndInv /\ TurnoverIsSum /\ [Next]_vars => TurnoverIsSum'
<1> SUFFICES ASSUME IndInv, TurnoverIsSum, [Next]_vars PROVE TurnoverIsSum'
  OBVIOUS
<1>1. ASSUME NEW r \in Receipts, ApplyReceipt(r) PROVE TurnoverIsSum'
  BY <1>1, TurnoverApply
<1>2. ASSUME UNCHANGED <<volume, turnover>> PROVE TurnoverIsSum'
  BY <1>2 DEF TurnoverIsSum
<1>3. ASSUME NEW r \in Receipts, Dispatch(r) PROVE UNCHANGED <<volume, turnover>>
  BY <1>3 DEF Dispatch, tally
<1>4. ASSUME NEW d \in Dids, GetBalance(d) PROVE UNCHANGED <<volume, turnover>>
  BY <1>4 DEF GetBalance, tally
<1>5. CASE DistributePriorMonth \/ DistributeWindow
  BY <1>2, <1>5 DEF DistributePriorMonth, DistributeWindow, Distribute
<1>6. CASE Rebuild \/ NextMonth \/ UNCHANGED vars
  BY <1>2, <1>6 DEF Rebuild, NextMonth, vars, tally
<1> QED BY <1>1, <1>2, <1>3, <1>4, <1>5, <1>6 DEF Next

LEMMA ProductCancels ==
  ASSUME NEW a \in Int, NEW b \in Int, NEW t \in Nat \ {0}, t * a <= t * b
  PROVE  a <= b
<1> SUFFICES ASSUME a >= b + 1 PROVE FALSE
  OBVIOUS
<1>1. t * (a - (b + 1)) >= 0
  OBVIOUS
<1>2. t * (a - (b + 1)) = t * a - t * b - t
  OBVIOUS
<1> QED BY <1>1, <1>2

LEMMA QuotientBounds ==
  ASSUME NEW a \in Nat, NEW t \in Nat \ {0}
  PROVE  t * (a \div t) <= a /\ a <= t * (a \div t) + t
OBVIOUS

(* Each member's credit is within a token of an exact share, from below.   *)
LEMMA CreditsFit ==
  ASSUME IndInv, TurnoverIsSum, NEW start \in Months, NEW end \in Months, start < end,
         TotalScore(start, end) # 0
  PROVE  LET paid == Debit(Credits(start, end))
         IN  /\ paid \in Nat /\ paid <= ToDistribute
             /\ ToDistribute < paid + Cardinality(Dids)
<1> USE DEF IndInv
<1> DEFINE X == ToDistribute
           T == TotalScore(start, end)
           n == Cardinality(Members)
           credited == Credits(start, end)
           score == [d \in Dids |-> Score(start, end, d)]
           part == [d \in Dids |-> X * score[d]]
           given == [d \in Dids |-> T * credited[d]]
           slack == [d \in Dids |-> T]
           cover == [d \in Dids |-> given[d] + slack[d]]
           C == MemberSum(credited)
<1>0. start <= end
  BY RegimeAssumption DEF Months
<1>1. /\ X \in Nat /\ T \in Nat \ {0}
      /\ \A d \in Dids : score[d] \in Nat /\ credited[d] \in Nat
  BY <1>0, ScoreNatural, CreditNatural
<1>2. \A d \in Dids : credited[d] = (X * score[d]) \div T
  BY DEF Credits, Credit
<1>3. MemberSum(score) = T
  <2>1. \A d \in Members : /\ volume[start][d] \in Int /\ score[d] \in Int
                           /\ volume[end][d] = volume[start][d] + score[d]
    BY MembersFinite DEF Score, TypeOK, Members
  <2>2. T = turnover[end] - turnover[start] /\ turnover[start] \in Int /\ turnover[end] \in Int
    BY DEF TotalScore, TypeOK
  <2>3. \A d \in Members : score[d] \in Int
    BY <2>1
  <2> HIDE DEF score, T
  <2>4. MemberSum(volume[end]) = MemberSum(volume[start]) + MemberSum(score)
    BY <2>1, SumPlus, MembersFinite DEF MemberSum
  <2>5. MemberSum(score) \in Int
    BY <2>3, SumInteger, MembersFinite DEF MemberSum
  <2> QED BY <2>2, <2>4, <2>5 DEF TurnoverIsSum
<1>4. \A d \in Dids : /\ part[d] = X * score[d] /\ given[d] = T * credited[d]
                      /\ slack[d] = T /\ cover[d] = given[d] + slack[d]
  OBVIOUS
<1> HIDE DEF X, T, n, credited, score, part, given, slack, cover
<1>5. \A d \in Dids : /\ part[d] \in Int /\ given[d] \in Int
                      /\ slack[d] \in Int /\ cover[d] \in Int
                      /\ given[d] <= part[d] /\ part[d] <= cover[d]
  <2> TAKE d \in Dids
  <2>1. X * score[d] \in Nat /\ T * credited[d] \in Nat
    BY <1>1, ProductNatural
  <2>2. T * credited[d] <= X * score[d] /\ X * score[d] <= T * credited[d] + T
    BY <1>1, <1>2, <2>1, QuotientBounds
  <2> QED BY <1>1, <1>4, <2>1, <2>2
<1>6. C \in Int /\ n \in Nat
  BY <1>1, SumInteger, MembersFinite DEF MemberSum, n
<1>7. MemberSum(part) = X * T
  <2>1. X \in Int /\ \A d \in Members : score[d] \in Int /\ part[d] = X * score[d]
    BY <1>1, <1>4, MembersFinite
  <2>2. MemberSum(part) = X * MemberSum(score)
    BY <2>1, SumScale, MembersFinite DEF MemberSum
  <2> QED BY <1>3, <2>2
<1>8. MemberSum(given) = T * C
  BY <1>1, <1>4, SumScale, MembersFinite DEF MemberSum
<1>9. MemberSum(slack) = T * n
  <2>1. \A d \in Members : slack[d] = IF d \in Members THEN T ELSE 0
    BY <1>4, MembersFinite
  <2> QED BY <1>1, <2>1, SumEntry, MembersFinite DEF MemberSum, n
<1>10. MemberSum(cover) = T * C + T * n
  <2>1. MemberSum(cover) = MemberSum(given) + MemberSum(slack)
    BY <1>4, <1>5, SumPlus, MembersFinite DEF MemberSum
  <2> QED BY <1>8, <1>9, <2>1
<1>11. T * C <= X * T
  <2>1. MemberSum(given) <= MemberSum(part)
    BY <1>5, SumMonotone, MembersFinite DEF MemberSum
  <2> QED BY <1>7, <1>8, <2>1
<1>12. X * T <= T * C + T * n
  <2>1. MemberSum(part) <= MemberSum(cover)
    BY <1>5, SumMonotone, MembersFinite DEF MemberSum
  <2> QED BY <1>7, <1>10, <2>1
<1> HIDE DEF C
<1>13. X * T = T * X /\ T * C + T * n = T * (C + n)
  BY <1>1, <1>6
<1>14. C <= X /\ X <= C + n
  <2>1. C <= X
    BY <1>1, <1>6, <1>11, <1>13, ProductCancels
  <2>2. C + n \in Int /\ T * X <= T * (C + n)
    BY <1>6, <1>12, <1>13
  <2>3. X <= C + n
    BY <1>1, <2>2, ProductCancels
  <2> QED BY <2>1, <2>3
<1>15. Debit(credited) = C
  <2>1. credited[Treasury] = 0
    BY <1>0, TreasuryUncredited DEF credited
  <2>2. \A d \in Dids : credited[d] \in Int
    BY <1>1
  <2>3. SumFunctionOnSet(credited, Dids) = credited[Treasury] + C
    BY <2>2, SumRemove, MembersFinite DEF C, MemberSum, Members
  <2> QED BY <1>6, <2>1, <2>3 DEF Debit
<1>16. C >= 0
  <2> DEFINE zero == [d \in Dids |-> 0]
  <2>2. \A d \in Members : /\ zero[d] = IF d = Treasury THEN 0 ELSE 0
                           /\ zero[d] \in Int /\ credited[d] \in Int /\ zero[d] <= credited[d]
    BY <1>1, MembersFinite
  <2> HIDE DEF zero
  <2>3. MemberSum(zero) = 0
    BY <2>2, MemberEntry, MembersFinite
  <2>4. MemberSum(zero) <= C
    BY <2>2, SumMonotone, MembersFinite DEF MemberSum, C
  <2> QED BY <1>6, <2>3, <2>4
<1>17. Cardinality(Dids) = n + 1
  BY MembersFinite DEF n
<1>18. /\ Debit(credited) \in Nat /\ Debit(credited) <= X
       /\ X < Debit(credited) + Cardinality(Dids)
  BY <1>1, <1>6, <1>14, <1>15, <1>16, <1>17
<1> QED BY <1>18 DEF X, credited

(* A payout fits the share put up for it and uses it up to less than a     *)
(* token per DID, for every division of the volume among the members       *)
(* (token-balance.ts, distributePatronage).                                *)
THEOREM PayoutsFitTheShare == Spec => []PayoutWithinShare
<1>1. IndInv /\ TurnoverIsSum => PayoutWithinShare
  BY CreditsFit DEF PayoutWithinShare
<1> QED BY <1>1, TurnoverInit, TurnoverStep, Invariance, PTL DEF Spec

(* The treasury holds what a payout debits.                                *)
PayoutCovered ==
  \A start, end \in Months :
    start < end /\ TotalScore(start, end) # 0 =>
      Debit(Credits(start, end)) <= tokens[Treasury]

LEMMA ShareOfTreasury ==
  ASSUME TypeOK, Policy.patronageBps <= 10000
  PROVE  ToDistribute <= tokens[Treasury]
<1>1. tokens[Treasury] \in Nat /\ Policy.patronageBps \in Nat
  BY PolicyAssumption DEF TypeOK
<1>2. tokens[Treasury] * Policy.patronageBps \in Nat
  BY <1>1, ProductNatural
<1>3. tokens[Treasury] * Policy.patronageBps <= tokens[Treasury] * 10000
  <2>1. tokens[Treasury] * (10000 - Policy.patronageBps) >= 0
    BY <1>1
  <2> QED BY <1>1, <2>1
<1> QED BY <1>1, <1>2, <1>3 DEF ToDistribute

(* With a fraction of at most the whole, CHECK (tokens >= 0) never aborts a*)
(* payout (token-balance.ts, distributePatronage; the fraction is read from*)
(* the environment and not validated, main.ts).                            *)
THEOREM PayoutsNeverAbort ==
  ASSUME Policy.patronageBps <= 10000
  PROVE  Spec => []PayoutCovered
<1>1. IndInv /\ TurnoverIsSum => PayoutCovered
  <2> SUFFICES ASSUME IndInv, TurnoverIsSum, NEW start \in Months, NEW end \in Months,
                      start < end, TotalScore(start, end) # 0
               PROVE  Debit(Credits(start, end)) <= tokens[Treasury]
    BY DEF PayoutCovered
  <2>1. Debit(Credits(start, end)) \in Nat /\ Debit(Credits(start, end)) <= ToDistribute
    BY CreditsFit
  <2>2. ToDistribute <= tokens[Treasury]
    BY ShareOfTreasury DEF IndInv
  <2>3. ToDistribute \in Nat /\ tokens[Treasury] \in Nat
    <3>1. start <= end
      BY RegimeAssumption DEF Months
    <3> QED BY <3>1, ScoreNatural, MembersFinite DEF IndInv, TypeOK
  <2> QED BY <2>1, <2>2, <2>3
<1> QED BY <1>1, TurnoverInit, TurnoverStep, Invariance, PTL DEF Spec
-----------------------------------------------------------------------------
(* Patronage.  Payouts count distributions and periods records them: a     *)
(* window is marked in the step that pays it, or in one that has nothing   *)
(* to pay, and a marked window is not distributed again.                   *)
PaidMarked == \A w \in Months \X Months : payouts[w] <= (IF w \in periods THEN 1 ELSE 0)

LEMMA PaidMarkedDistribute ==
  ASSUME TypeOK, PaidMarked, NEW start \in Months, NEW end \in Months, Distribute(start, end)
  PROVE  PaidMarked'
<1> DEFINE window == <<start, end>>
<1>1. window \in Months \X Months /\ window \notin periods /\ periods' = periods \cup {window}
  BY DEF Distribute, AlreadyDistributed
<1>2. payouts' = payouts \/ payouts' = [payouts EXCEPT ![window] = @ + 1]
  BY DEF Distribute
<1> HIDE DEF window
<1> SUFFICES ASSUME NEW w \in Months \X Months
             PROVE  payouts'[w] <= (IF w \in periods' THEN 1 ELSE 0)
  BY DEF PaidMarked
<1>3. payouts \in [Months \X Months -> Nat] /\ payouts[w] \in Nat
      /\ payouts[w] <= (IF w \in periods THEN 1 ELSE 0)
  BY DEF TypeOK, PaidMarked
<1>4. payouts'[w] = payouts[w] \/ (w = window /\ payouts'[w] = payouts[w] + 1)
  BY <1>1, <1>2, <1>3
<1> QED BY <1>1, <1>3, <1>4

LEMMA PaidMarkedStep == IndInv /\ PaidMarked /\ [Next]_vars => PaidMarked'
<1> SUFFICES ASSUME IndInv, PaidMarked, [Next]_vars PROVE PaidMarked'
  OBVIOUS
<1>1. ASSUME NEW r \in Receipts, Dispatch(r) PROVE PaidMarked'
  BY <1>1 DEF Dispatch, tally, PaidMarked
<1>2. ASSUME NEW r \in Receipts, ApplyReceipt(r) PROVE PaidMarked'
  BY <1>2 DEF ApplyReceipt, PaidMarked
<1>3. ASSUME NEW d \in Dids, GetBalance(d) PROVE PaidMarked'
  BY <1>3 DEF GetBalance, tally, PaidMarked
<1>4. CASE DistributePriorMonth
  <2>1. month - 1 \in Months /\ month \in Months
    BY <1>4, WindowTyped DEF DistributePriorMonth, IndInv
  <2> QED BY <1>4, <2>1, PaidMarkedDistribute DEF DistributePriorMonth, IndInv
<1>5. CASE DistributeWindow
  <2>1. PICK start, end \in 0..(month + 1) :
          start < end /\ end <= MaxMonth /\ Distribute(start, end)
    BY <1>5 DEF DistributeWindow
  <2>2. start \in Months /\ end \in Months
    BY <2>1, WindowTyped, RegimeAssumption DEF IndInv, TypeOK, Months
  <2> QED BY <2>1, <2>2, PaidMarkedDistribute DEF IndInv
<1>6. CASE Rebuild \/ NextMonth \/ UNCHANGED vars
  BY <1>6 DEF Rebuild, NextMonth, vars, tally, PaidMarked
<1> QED BY <1>1, <1>2, <1>3, <1>4, <1>5, <1>6 DEF Next

(* A window is paid out at most once, whatever triggers it again           *)
(* (token-balance.ts, distributePatronage; main.ts, the monthly schedule). *)
THEOREM PaidOncePerPeriod == Spec => []PeriodPaidOnce
<1>1. Init => PaidMarked
  BY DEF Init, PaidMarked
<1>2. TypeOK /\ PaidMarked => PeriodPaidOnce
  BY DEF TypeOK, PaidMarked, PeriodPaidOnce
<1>3. IndInv => TypeOK
  BY DEF IndInv
<1> QED BY <1>1, <1>2, <1>3, Invariance, PaidMarkedStep, PTL DEF Spec
-----------------------------------------------------------------------------
(* Admission, for requesters that wait for one job to settle before they   *)
(* dispatch the next, and other than the treasury.                         *)
OneUnsettled ==
  \A r, q \in Receipts \ processed :
    /\ job[r] # "none" /\ job[q] # "none"
    /\ Terms[r].requester = Terms[q].requester
    => r = q

AdmissionInv == OneUnsettled /\ AdmittedJobsCovered

LEMMA TouchedGrows ==
  ASSUME TypeOK, NEW dids, NEW due, NEW t, NEW e, Touched(dids, due, t, e),
         NEW d \in Dids, t[d] \in Int
  PROVE  /\ tokens'[d] >= t[d]
         /\ d \in dids \ rows => tokens'[d] >= t[d] + Policy.grant
BY TouchedAt, PolicyAssumption

LEMMA AdmissionDispatch ==
  ASSUME IndInv, AdmissionInv, ~Concurrent, NEW r \in Receipts, Dispatch(r)
  PROVE  AdmissionInv'
<1> DEFINE q == Terms[r].requester
<1>1. q \in Dids /\ Terms[r].price \in Nat /\ Terms[r].price <= Policy.ceiling
  BY ReceiptFacts, CeilingAssumption
<1>2. /\ job[r] = "none" /\ Unsettled(q) = {} /\ UNCHANGED processed
      /\ job' \in {job, [job EXCEPT ![r] = "admitted"], [job EXCEPT ![r] = "unchecked"]}
  BY DEF Dispatch
<1>3. job \in [Receipts -> {"none", "admitted", "unchecked"}]
  BY DEF IndInv, TypeOK
<1>4. \A p \in Receipts : p # r => job'[p] = job[p]
  BY <1>2, <1>3
<1>5. \A p \in Receipts \ processed : job[p] # "none" => Terms[p].requester # q
  BY <1>2 DEF Unsettled
<1>6. OneUnsettled'
  BY <1>2, <1>4, <1>5 DEF OneUnsettled, AdmissionInv
<1>7. \A d \in Dids : tokens[d] \in Nat /\ tokens'[d] >= tokens[d]
  <2>1. \A d \in Dids : tokens[d] \in Nat
    BY DEF IndInv, TypeOK
  <2>2. CASE UNCHANGED <<books, stale>>
    BY <2>1, <2>2 DEF books
  <2>3. CASE Touched({q}, {}, tokens, NoTransfer)
    BY <2>1, <2>3, TouchedGrows DEF IndInv
  <2> QED BY <2>2, <2>3 DEF Dispatch
<1>8. ASSUME job'[r] = "admitted"
      PROVE  tokens'[q] >= Terms[r].price
  <2>1. Touched({q}, {}, tokens, NoTransfer) /\ Admissible(q)
    BY <1>2, <1>3, <1>8 DEF Dispatch
  <2>2. Policy.grant \in Nat /\ Policy.ceiling \in Nat /\ Policy.floor \in Nat
    BY PolicyAssumption
  <2>3. /\ q \in rows => tokens[q] >= Policy.ceiling + Policy.floor
        /\ q \notin rows => Policy.grant >= Policy.ceiling + Policy.floor
    BY <2>1 DEF Admissible, BalanceOf
  <2>4. tokens[q] \in Nat /\ tokens'[q] \in Nat
    <3>1. tokens' \in [Dids -> Nat]
      <4>1. {q} \in SUBSET Dids
        BY <1>1
      <4> QED BY <2>1, <4>1, PlainTouch DEF IndInv
    <3> QED BY <1>1, <1>7, <3>1
  <2>5. /\ tokens'[q] >= tokens[q]
        /\ q \notin rows => tokens'[q] >= tokens[q] + Policy.grant
    BY <1>1, <2>1, <2>4, TouchedGrows DEF IndInv
  <2> QED BY <1>1, <2>2, <2>3, <2>4, <2>5
<1>9. AdmittedJobsCovered'
  <2> SUFFICES ASSUME NEW p \in Receipts, job'[p] = "admitted", p \notin processed'
               PROVE  tokens'[Terms[p].requester] >= Terms[p].price
    BY DEF AdmittedJobsCovered
  <2>1. CASE p = r
    BY <1>8, <2>1
  <2>2. CASE p # r
    <3>1. Terms[p].requester \in Dids /\ Terms[p].price \in Nat
      BY ReceiptFacts
    <3>2. tokens[Terms[p].requester] >= Terms[p].price
      BY <1>2, <1>4, <2>2 DEF AdmissionInv, AdmittedJobsCovered
    <3>3. tokens'[Terms[p].requester] \in Int
      <4>1. CASE UNCHANGED <<books, stale>>
        BY <1>7, <3>1, <4>1 DEF books
      <4>2. CASE Touched({q}, {}, tokens, NoTransfer)
        <5>1. {q} \in SUBSET Dids
          BY <1>1
        <5>2. tokens' \in [Dids -> Nat]
          BY <4>2, <5>1, PlainTouch DEF IndInv
        <5> QED BY <3>1, <5>2
      <4> QED BY <4>1, <4>2 DEF Dispatch
    <3> QED BY <1>7, <3>1, <3>2, <3>3
  <2> QED BY <2>1, <2>2
<1> QED BY <1>6, <1>9 DEF AdmissionInv

LEMMA AdmissionApply ==
  ASSUME IndInv, AdmissionInv, NEW r \in Receipts, ApplyReceipt(r)
  PROVE  AdmissionInv'
<1> DEFINE q == Terms[r].requester
<1>1. IndInv'
  BY ApplyReceiptStep
<1>2. /\ job[r] # "none" /\ r \notin processed /\ UNCHANGED job
      /\ processed \subseteq processed'
  BY DEF ApplyReceipt
<1>3. OneUnsettled'
  BY <1>2 DEF OneUnsettled, AdmissionInv
<1>4. \A d \in Dids : tokens[d] \in Nat /\ tokens'[d] \in Nat
  BY <1>1 DEF IndInv, TypeOK
<1>5. CASE ~Covered(r)
  <2>1. Touched(Parties(r), {}, tokens, NoTransfer)
    BY <1>5 DEF ApplyReceipt
  <2>2. \A d \in Dids : tokens'[d] >= tokens[d]
    BY <1>4, <2>1, TouchedGrows DEF IndInv
  <2>3. ASSUME NEW p \in Receipts, job'[p] = "admitted", p \notin processed'
        PROVE  tokens'[Terms[p].requester] >= Terms[p].price
    <3>1. Terms[p].requester \in Dids /\ Terms[p].price \in Nat
      BY ReceiptFacts
    <3>2. tokens[Terms[p].requester] >= Terms[p].price
      BY <1>2, <2>3 DEF AdmissionInv, AdmittedJobsCovered
    <3> QED BY <1>4, <2>2, <3>1, <3>2
  <2> QED BY <1>3, <2>3 DEF AdmissionInv, AdmittedJobsCovered
<1>6. CASE Covered(r)
  <2>1. /\ Touched(Parties(r), Due({q, Terms[r].provider}), Moved(r), Events(r))
        /\ r \in processed'
    BY <1>6 DEF ApplyReceipt
  <2>2. \A d \in Dids : d # q => tokens'[d] >= tokens[d]
    <3> SUFFICES ASSUME NEW d \in Dids, d # q PROVE tokens'[d] >= tokens[d]
      OBVIOUS
    <3>1. /\ Moved(r)[d] \in Int /\ Events(r)[d] \in Int /\ Events(r)[d] >= 0
          /\ Moved(r)[d] = tokens[d] + Events(r)[d]
      BY TransferAt DEF IndInv
    <3>2. tokens'[d] >= Moved(r)[d]
      BY <2>1, <3>1, TouchedGrows DEF IndInv
    <3> QED BY <1>4, <3>1, <3>2
  <2>3. ASSUME NEW p \in Receipts, job'[p] = "admitted", p \notin processed'
        PROVE  tokens'[Terms[p].requester] >= Terms[p].price
    <3>1. Terms[p].requester \in Dids /\ Terms[p].price \in Nat
      BY ReceiptFacts
    <3>2. p # r /\ p \notin processed /\ job[p] = "admitted"
      BY <1>2, <2>1, <2>3
    <3>3. Terms[p].requester # q
      BY <1>2, <3>2 DEF AdmissionInv, OneUnsettled
    <3>4. tokens[Terms[p].requester] >= Terms[p].price
      BY <3>2 DEF AdmissionInv, AdmittedJobsCovered
    <3> QED BY <1>4, <2>2, <3>1, <3>3, <3>4
  <2> QED BY <1>3, <2>3 DEF AdmissionInv, AdmittedJobsCovered
<1> QED BY <1>5, <1>6

(* A step that dispatches and settles nothing and takes nothing from a     *)
(* requester keeps admitted jobs covered.                                  *)
LEMMA AdmissionFrame ==
  ASSUME IndInv, IndInv', AdmissionInv, UNCHANGED <<job, processed>>,
         \A r \in Receipts : Terms[r].requester # Treasury,
         \A d \in Dids \ {Treasury} : tokens'[d] >= tokens[d]
  PROVE  AdmissionInv'
<1>1. OneUnsettled'
  BY DEF AdmissionInv, OneUnsettled
<1>2. ASSUME NEW p \in Receipts, job'[p] = "admitted", p \notin processed'
      PROVE  tokens'[Terms[p].requester] >= Terms[p].price
  <2>1. Terms[p].requester \in Dids \ {Treasury} /\ Terms[p].price \in Nat
    BY ReceiptFacts
  <2>2. tokens[Terms[p].requester] >= Terms[p].price
    BY <1>2 DEF AdmissionInv, AdmittedJobsCovered
  <2>3. tokens[Terms[p].requester] \in Nat /\ tokens'[Terms[p].requester] \in Nat
    BY <2>1 DEF IndInv, TypeOK
  <2>4. tokens'[Terms[p].requester] >= tokens[Terms[p].requester]
    BY <2>1
  <2> QED BY <2>1, <2>2, <2>3, <2>4
<1> QED BY <1>1, <1>2 DEF AdmissionInv, AdmittedJobsCovered

LEMMA AdmissionStep ==
  ASSUME ~Concurrent, \A r \in Receipts : Terms[r].requester # Treasury,
         IndInv, AdmissionInv, [Next]_vars
  PROVE  AdmissionInv'
<1>1. IndInv'
  BY InductiveStep
<1>2. \A d \in Dids : tokens[d] \in Nat
  BY DEF IndInv, TypeOK
<1>3. ASSUME NEW r \in Receipts, Dispatch(r) PROVE AdmissionInv'
  BY <1>3, AdmissionDispatch
<1>4. ASSUME NEW r \in Receipts, ApplyReceipt(r) PROVE AdmissionInv'
  BY <1>4, AdmissionApply
<1>5. ASSUME NEW d \in Dids, GetBalance(d) PROVE AdmissionInv'
  <2>1. Touched({d}, Due({d}), tokens, NoTransfer) /\ UNCHANGED <<job, processed>>
    BY <1>5 DEF GetBalance
  <2>2. \A c \in Dids : tokens'[c] >= tokens[c]
    BY <1>2, <2>1, TouchedGrows DEF IndInv
  <2> QED BY <1>1, <2>1, <2>2, AdmissionFrame
<1>6. ASSUME NEW start \in Months, NEW end \in Months, start <= end, Distribute(start, end)
      PROVE  AdmissionInv'
  <2>1. \A d \in Dids \ {Treasury} : tokens'[d] >= tokens[d]
    BY <1>6, DistributeStep
  <2>2. UNCHANGED <<job, processed>>
    BY <1>6 DEF Distribute
  <2> QED BY <1>1, <2>1, <2>2, AdmissionFrame
<1>7. CASE DistributePriorMonth
  <2>1. month - 1 \in Months /\ month \in Months /\ month - 1 <= month
    BY <1>7, WindowTyped DEF DistributePriorMonth, IndInv, Months
  <2> QED BY <1>6, <1>7, <2>1 DEF DistributePriorMonth
<1>8. CASE DistributeWindow
  <2>1. PICK start, end \in 0..(month + 1) :
          start < end /\ end <= MaxMonth /\ Distribute(start, end)
    BY <1>8 DEF DistributeWindow
  <2>2. start \in Months /\ end \in Months /\ start <= end
    BY <2>1, WindowTyped, RegimeAssumption DEF IndInv, Months
  <2> QED BY <1>6, <2>1, <2>2
<1>9. CASE Rebuild \/ NextMonth \/ UNCHANGED vars
  <2>1. UNCHANGED <<job, processed>>
    BY <1>9 DEF Rebuild, NextMonth, vars
  <2>2. \A d \in Dids : tokens'[d] = tokens[d]
    BY <1>9 DEF Rebuild, NextMonth, vars, books, IndInv, BalancesMatchLog
  <2> QED BY <1>1, <1>2, <2>1, <2>2, AdmissionFrame
<1> QED BY <1>3, <1>4, <1>5, <1>7, <1>8, <1>9 DEF Next

(* An admitted job can be settled, as long as a requester has one unsettled*)
(* job at a time (token-balance.ts, checkAdmission).                       *)
THEOREM SerialAdmission ==
  ASSUME ~Concurrent, \A r \in Receipts : Terms[r].requester # Treasury
  PROVE  Spec => []AdmittedJobsCovered
<1>1. Init => AdmissionInv
  BY DEF Init, AdmissionInv, OneUnsettled, AdmittedJobsCovered
<1>2. IndInv /\ AdmissionInv /\ [Next]_vars => AdmissionInv'
  BY AdmissionStep
<1>3. AdmissionInv => AdmittedJobsCovered
  BY DEF AdmissionInv
<1> QED BY <1>1, <1>2, <1>3, Invariance, PTL DEF Spec
-----------------------------------------------------------------------------
(* Refinement.  Every step of the ledger is one of the abstract account: a *)
(* touch mints, a covered receipt transfers, a distribution pays out, and  *)
(* the rest changes no balance.                                            *)
LEMMA MintedGrows ==
  ASSUME TypeOK, NEW dids \in SUBSET Dids, NEW due \in SUBSET stale,
         NEW t, NEW e, Touched(dids, due, t, e)
  PROVE  minted' >= minted
<1> DEFINE granted == Policy.grant * Cardinality(dids \ rows)
           dripped == Policy.refresh * Cardinality(due)
<1>1. Policy.grant \in Nat /\ Policy.refresh \in Nat /\ IsFiniteSet(Dids)
  BY PolicyAssumption
<1>2. IsFiniteSet(dids \ rows) /\ IsFiniteSet(due)
  BY <1>1, FS_Subset DEF TypeOK
<1>3. Cardinality(dids \ rows) \in Nat /\ Cardinality(due) \in Nat
  BY <1>2, FS_CardinalityType
<1>4. granted \in Nat /\ dripped \in Nat
  BY <1>1, <1>3, ProductNatural
<1>5. minted' = minted + granted + dripped
  BY DEF Touched
<1> HIDE DEF granted, dripped
<1> QED BY <1>4, <1>5 DEF TypeOK

LEMMA SameSum ==
  ASSUME NEW f, NEW S
  PROVE  Account!SumFunctionOnSet(f, S) = SumFunctionOnSet(f, S)
BY DEF SumFunctionOnSet, FoldFunctionOnSet, MapThenFoldSet,
       Account!SumFunctionOnSet, Account!FoldFunctionOnSet, Account!MapThenFoldSet

LEMMA StaysBalanced ==
  ASSUME IndInv, LogAddsUp, [Next]_vars, minted' >= minted
  PROVE  Account!Balanced
<1>1. IndInv' /\ LogAddsUp'
  BY InductiveStep, LogAddsUpStep
<1>2. SumFunctionOnSet(tokens, Dids) = minted
  BY BalancesAddUp DEF SystemTotal
<1>3. SumFunctionOnSet(tokens', Dids) = minted'
  <2>1. SystemTotal'
    BY <1>1, BalancesAddUp, PTL
  <2> QED BY <2>1 DEF SystemTotal
<1>4. tokens' \in [Dids -> Nat]
  BY <1>1 DEF IndInv, TypeOK
<1>5. Account!SumFunctionOnSet(tokens', Dids) - Account!SumFunctionOnSet(tokens, Dids)
        = minted' - minted
  BY <1>2, <1>3, SameSum
<1> QED BY <1>4, <1>5 DEF Account!Balanced

LEMMA TouchMints ==
  ASSUME IndInv, LogAddsUp, [Next]_vars, UNCHANGED <<processed, periods>>,
         NEW dids \in SUBSET Dids, NEW due \in SUBSET stale,
         Touched(dids, due, tokens, NoTransfer)
  PROVE  Account!Next
<1>1. Account!Balanced
  BY MintedGrows, StaysBalanced DEF IndInv
<1>2. \A d \in Dids : tokens'[d] >= tokens[d]
  BY TouchedGrows DEF IndInv, TypeOK
<1>3. Account!Mint
  BY <1>2 DEF Account!Mint, Account!Keeps
<1> QED BY <1>1, <1>3 DEF Account!Next

LEMMA CoveredTransfers ==
  ASSUME IndInv, LogAddsUp, [Next]_vars, NEW r \in Receipts, ApplyReceipt(r), Covered(r),
         processed' = processed \cup {r},
         Touched(Parties(r), Due({Terms[r].requester, Terms[r].provider}), Moved(r), Events(r))
  PROVE  Account!Next
<1> DEFINE q == Terms[r].requester
<1>1. /\ q \in Dids /\ Terms[r].price \in Nat /\ Parties(r) \in SUBSET Dids
      /\ Share(r) \in 0..Terms[r].price
  BY ReceiptFacts
<1>2. Due({q, Terms[r].provider}) \in SUBSET stale
  BY DEF Due
<1>3. Account!Balanced
  BY <1>1, <1>2, MintedGrows, StaysBalanced DEF IndInv
<1>4. \A d \in Dids : /\ tokens[d] \in Nat /\ tokens'[d] \in Nat
                      /\ Moved(r)[d] \in Int /\ tokens'[d] >= Moved(r)[d]
  <2> TAKE d \in Dids
  <2>1. Moved(r)[d] \in Int
    BY TransferAt DEF IndInv
  <2>2. tokens[d] \in Nat /\ tokens'[d] \in Nat
    BY InductiveStep DEF IndInv, TypeOK
  <2> QED BY <2>1, <2>2, TouchedGrows DEF IndInv
<1>5. \A d \in Dids \ {q} : tokens'[d] >= tokens[d]
  <2> TAKE d \in Dids \ {q}
  <2>1. Moved(r)[d] = tokens[d] + Events(r)[d] /\ Events(r)[d] \in Int /\ Events(r)[d] >= 0
    BY TransferAt DEF IndInv
  <2> QED BY <1>4, <2>1
<1>6. tokens'[q] >= tokens[q] - Terms[r].price
  <2>1. Moved(r)[q] = tokens[q] + ReceiptDelta(q, q, Terms[r].provider, Treasury,
                                               Terms[r].price, Share(r))
    BY <1>1, TransferAt DEF IndInv
  <2>2. /\ ReceiptDelta(q, q, Terms[r].provider, Treasury, Terms[r].price, Share(r)) \in Int
        /\ ReceiptDelta(q, q, Terms[r].provider, Treasury, Terms[r].price, Share(r))
             >= -Terms[r].price
    BY <1>1 DEF ReceiptDelta
  <2> HIDE DEF q
  <2> QED BY <1>1, <1>4, <2>1, <2>2
<1>7. Account!Transfer(r)
  <2>1. r \notin processed /\ UNCHANGED periods
    BY DEF ApplyReceipt
  <2> QED BY <1>5, <1>6, <2>1 DEF Account!Transfer, Account!Keeps
<1> QED BY <1>3, <1>7 DEF Account!Next

LEMMA DistributePaysOut ==
  ASSUME IndInv, LogAddsUp, [Next]_vars, NEW start \in Months, NEW end \in Months,
         start <= end, Distribute(start, end)
  PROVE  Account!Next
<1>1. UNCHANGED <<minted, processed>> /\ minted \in Nat
  BY DEF Distribute, books, IndInv, TypeOK
<1>2. Account!Balanced
  BY <1>1, StaysBalanced
<1>3. \A d \in Dids \ {Treasury} : tokens'[d] >= tokens[d]
  BY DistributeStep
<1>4. /\ <<start, end>> \in Months \X Months /\ <<start, end>> \notin periods
      /\ periods' = periods \cup {<<start, end>>}
  BY DEF Distribute, AlreadyDistributed
<1>5. Account!Payout(<<start, end>>)
  BY <1>1, <1>3, <1>4 DEF Account!Payout, Account!Keeps
<1> QED BY <1>2, <1>4, <1>5 DEF Account!Next

LEMMA AccountStep == IndInv /\ LogAddsUp /\ [Next]_vars => [Account!Next]_(Account!vars)
<1> SUFFICES ASSUME IndInv, LogAddsUp, [Next]_vars
             PROVE  Account!Next \/ UNCHANGED Account!vars
  OBVIOUS
<1>0. {} \in SUBSET stale /\ \A dids : Due(dids) \in SUBSET stale
  BY DEF Due
<1>1. ASSUME NEW r \in Receipts, Dispatch(r) PROVE Account!Next \/ UNCHANGED Account!vars
  <2>1. UNCHANGED <<processed, periods>> /\ {Terms[r].requester} \in SUBSET Dids
    BY <1>1, ReceiptFacts DEF Dispatch, tally
  <2>2. CASE UNCHANGED books
    BY <2>1, <2>2 DEF books, Account!vars
  <2>3. CASE Touched({Terms[r].requester}, {}, tokens, NoTransfer)
    BY <1>0, <2>1, <2>3, TouchMints
  <2> QED BY <1>1, <2>2, <2>3 DEF Dispatch
<1>2. ASSUME NEW r \in Receipts, ApplyReceipt(r) PROVE Account!Next
  <2>1. CASE Covered(r)
    BY <1>2, <2>1, CoveredTransfers DEF ApplyReceipt
  <2>2. CASE ~Covered(r)
    <3>1. /\ Touched(Parties(r), {}, tokens, NoTransfer) /\ Parties(r) \in SUBSET Dids
          /\ UNCHANGED <<processed, periods>>
      BY <1>2, <2>2, ReceiptFacts DEF ApplyReceipt
    <3> QED BY <1>0, <3>1, TouchMints
  <2> QED BY <2>1, <2>2
<1>3. ASSUME NEW d \in Dids, GetBalance(d) PROVE Account!Next
  <2>1. /\ Touched({d}, Due({d}), tokens, NoTransfer) /\ {d} \in SUBSET Dids
        /\ UNCHANGED <<processed, periods>>
    BY <1>3 DEF GetBalance, tally
  <2> QED BY <1>0, <2>1, TouchMints
<1>4. CASE DistributePriorMonth
  <2>1. month - 1 \in Months /\ month \in Months /\ month - 1 <= month
    BY <1>4, WindowTyped DEF DistributePriorMonth, IndInv, Months
  <2> QED BY <1>4, <2>1, DistributePaysOut DEF DistributePriorMonth
<1>5. CASE DistributeWindow
  <2>1. PICK start, end \in 0..(month + 1) :
          start < end /\ end <= MaxMonth /\ Distribute(start, end)
    BY <1>5 DEF DistributeWindow
  <2>2. start \in Months /\ end \in Months /\ start <= end
    BY <2>1, WindowTyped, RegimeAssumption DEF IndInv, Months
  <2> QED BY <2>1, <2>2, DistributePaysOut
<1>6. CASE Rebuild
  <2>1. tokens' = tokens
    BY <1>6 DEF Rebuild, IndInv, TypeOK, BalancesMatchLog
  <2> QED BY <1>6, <2>1 DEF Rebuild, tally, Account!vars
<1>7. CASE NextMonth \/ UNCHANGED vars
  BY <1>7 DEF NextMonth, vars, books, tally, Account!vars
<1> QED BY <1>1, <1>2, <1>3, <1>4, <1>5, <1>6, <1>7 DEF Next

(* The ledger implements mutual credit: whatever the parties, the policy   *)
(* and the windows, only the requester of a receipt pays it, once, and the *)
(* treasury pays a window once (token-balance.ts).                         *)
THEOREM ImplementsMutualCredit == Spec => TokensTakenOnce
<1>1. Init => Account!Init
  BY DEF Init, Account!Init
<1> QED BY <1>1, AccountStep, Invariance, LogAddsUpInit, LogAddsUpStep, PTL
        DEF Spec, TokensTakenOnce, Account!Spec
-----------------------------------------------------------------------------
(* Rows.  A touch opens the rows of the parties before anything is entered *)
(* under their names, and a payout credits nobody without a score.         *)
LEMMA TouchedRows ==
  ASSUME TypeOK, EventsHaveRows, UNCHANGED <<volume>>,
         NEW dids \in SUBSET Dids, NEW due \in SUBSET stale,
         Touched(dids, due, tokens, NoTransfer)
  PROVE  EventsHaveRows'
<1> SUFFICES ASSUME NEW d \in Dids, d \notin rows'
             PROVE  /\ tokens'[d] = 0 /\ log'[d] = 0
                    /\ \A m \in Months : volume'[m][d] = 0
  BY DEF EventsHaveRows
<1>1. d \notin rows /\ d \notin dids /\ d \notin due
  BY DEF Touched, TypeOK
<1>2. tokens[d] = 0 /\ log[d] = 0 /\ \A m \in Months : volume[m][d] = 0
  BY <1>1 DEF EventsHaveRows
<1>3. NoTransfer[d] = 0
  BY DEF NoTransfer
<1> HIDE DEF NoTransfer
<1> QED BY <1>1, <1>2, <1>3, TouchedAt

LEMMA ReceiptRows ==
  ASSUME IndInv, EventsHaveRows, NEW r \in Receipts, ApplyReceipt(r)
  PROVE  EventsHaveRows'
<1>1. Parties(r) \in SUBSET Dids /\ {} \in SUBSET stale
  BY ReceiptFacts
<1>2. CASE ~Covered(r)
  BY <1>1, <1>2, TouchedRows DEF ApplyReceipt, IndInv
<1>3. CASE Covered(r)
  <2> DEFINE due == Due({Terms[r].requester, Terms[r].provider})
  <2>1. Touched(Parties(r), due, Moved(r), Events(r)) /\ due \in SUBSET stale
    BY <1>3 DEF ApplyReceipt, Due
  <2> HIDE DEF due
  <2> SUFFICES ASSUME NEW d \in Dids, d \notin rows'
               PROVE  /\ tokens'[d] = 0 /\ log'[d] = 0
                      /\ \A m \in Months : volume'[m][d] = 0
    BY DEF EventsHaveRows
  <2>2. d \notin rows /\ d \notin Parties(r) /\ d \notin due
    BY <2>1 DEF Touched, IndInv, TypeOK
  <2>3. tokens[d] = 0 /\ log[d] = 0 /\ \A m \in Months : volume[m][d] = 0
    BY <2>2 DEF EventsHaveRows
  <2>4. Moved(r)[d] = 0 /\ Events(r)[d] = 0
    <3>1. Events(r)[d] = 0
      BY <2>2 DEF Events, Plus, Entry, Parties
    <3>2. Moved(r)[d] = tokens[d] + Events(r)[d]
      BY TransferAt DEF IndInv
    <3> QED BY <2>3, <3>1, <3>2
  <2>5. tokens'[d] = 0 /\ log'[d] = 0
    BY <2>1, <2>2, <2>3, <2>4, TouchedAt
  <2>6. ASSUME NEW m \in Months PROVE volume'[m][d] = 0
    <3>1. Flow(r, d) = 0
      BY <2>2 DEF Flow, Parties
    <3>2. volume'[m][d] = volume[m][d] + (IF m > month THEN Flow(r, d) ELSE 0)
      BY <1>3 DEF ApplyReceipt
    <3> QED BY <2>3, <3>1, <3>2
  <2> QED BY <2>5, <2>6
<1> QED BY <1>2, <1>3

LEMMA PayoutRows ==
  ASSUME IndInv, EventsHaveRows, NEW start \in Months, NEW end \in Months, start <= end,
         Distribute(start, end)
  PROVE  EventsHaveRows'
<1>1. UNCHANGED <<rows, volume>>
  BY DEF Distribute, books
<1>2. CASE UNCHANGED <<books, payouts>>
  BY <1>1, <1>2 DEF EventsHaveRows, books
<1>3. CASE ~UNCHANGED <<books, payouts>>
  <2> DEFINE credited == Credits(start, end)
  <2>1. TotalScore(start, end) # 0 /\ tokens[Treasury] # 0
    BY <1>3 DEF Distribute
  <2>2. PICK paid \in 0..tokens[Treasury] :
          /\ tokens' = [d \in Dids |-> IF d = Treasury THEN tokens[Treasury] - paid
                                       ELSE tokens[d] + credited[d]]
          /\ log' = Plus(Plus(log, credited), Entry(-paid, {Treasury}))
    BY <1>3 DEF Distribute
  <2> SUFFICES ASSUME NEW d \in Dids \ rows
               PROVE  /\ tokens'[d] = 0 /\ log'[d] = 0
                      /\ \A m \in Months : volume[m][d] = 0
    BY <1>1 DEF EventsHaveRows
  <2>3. tokens[d] = 0 /\ log[d] = 0 /\ \A m \in Months : volume[m][d] = 0
    BY DEF EventsHaveRows
  <2>4. d # Treasury
    BY <2>1, <2>3
  <2>5. credited[d] = 0
    <3>1. Score(start, end, d) = 0
      BY <2>3 DEF Score
    <3>2. TotalScore(start, end) \in Nat \ {0} /\ ToDistribute \in Nat
      BY <2>1, ScoreNatural DEF IndInv
    <3>3. ToDistribute * 0 = 0 /\ 0 \div TotalScore(start, end) = 0
      BY <3>2
    <3> QED BY <3>1, <3>3 DEF Credits, Credit
  <2> HIDE DEF credited
  <2>6. log'[d] = (log[d] + credited[d]) + 0 /\ tokens'[d] = tokens[d] + credited[d]
    BY <2>2, <2>4 DEF Plus, Entry
  <2> QED BY <2>3, <2>5, <2>6
<1> QED BY <1>2, <1>3

LEMMA RowsStep == IndInv /\ EventsHaveRows /\ [Next]_vars => EventsHaveRows'
<1> SUFFICES ASSUME IndInv, EventsHaveRows, [Next]_vars PROVE EventsHaveRows'
  OBVIOUS
<1>0. {} \in SUBSET stale /\ \A dids : Due(dids) \in SUBSET stale
  BY DEF Due
<1>1. ASSUME NEW r \in Receipts, Dispatch(r) PROVE EventsHaveRows'
  <2>1. UNCHANGED volume /\ {Terms[r].requester} \in SUBSET Dids
    BY <1>1, ReceiptFacts DEF Dispatch, tally
  <2>2. CASE UNCHANGED books
    BY <2>1, <2>2 DEF books, EventsHaveRows
  <2>3. CASE Touched({Terms[r].requester}, {}, tokens, NoTransfer)
    BY <1>0, <2>1, <2>3, TouchedRows DEF IndInv
  <2> QED BY <1>1, <2>2, <2>3 DEF Dispatch
<1>2. ASSUME NEW r \in Receipts, ApplyReceipt(r) PROVE EventsHaveRows'
  BY <1>2, ReceiptRows
<1>3. ASSUME NEW d \in Dids, GetBalance(d) PROVE EventsHaveRows'
  <2>1. UNCHANGED volume /\ {d} \in SUBSET Dids /\ Touched({d}, Due({d}), tokens, NoTransfer)
    BY <1>3 DEF GetBalance, tally
  <2> QED BY <1>0, <2>1, TouchedRows DEF IndInv
<1>4. CASE DistributePriorMonth
  <2>1. month - 1 \in Months /\ month \in Months /\ month - 1 <= month
    BY <1>4, WindowTyped DEF DistributePriorMonth, IndInv, Months
  <2> QED BY <1>4, <2>1, PayoutRows DEF DistributePriorMonth
<1>5. CASE DistributeWindow
  <2>1. PICK start, end \in 0..(month + 1) :
          start < end /\ end <= MaxMonth /\ Distribute(start, end)
    BY <1>5 DEF DistributeWindow
  <2>2. start \in Months /\ end \in Months /\ start <= end
    BY <2>1, WindowTyped, RegimeAssumption DEF IndInv, Months
  <2> QED BY <2>1, <2>2, PayoutRows
<1>6. CASE Rebuild
  <2>1. UNCHANGED <<rows, log, volume>>
    BY <1>6 DEF Rebuild, tally
  <2>2. \A d \in Dids \ rows : tokens'[d] = tokens[d]
    BY <1>6 DEF Rebuild
  <2> QED BY <2>1, <2>2 DEF EventsHaveRows
<1>7. CASE NextMonth \/ UNCHANGED vars
  BY <1>7 DEF NextMonth, vars, books, tally, EventsHaveRows
<1> QED BY <1>1, <1>2, <1>3, <1>4, <1>5, <1>6, <1>7 DEF Next

(* A payout finds the row of everybody it credits, whatever receipts were  *)
(* refused, and whoever was never asked for its balance                    *)
(* (token-balance.ts, applyReceipt and distributePatronage).               *)
THEOREM RecipientsHaveRows == Spec => []EventsHaveRows
<1>1. Init => EventsHaveRows
  BY DEF Init, EventsHaveRows
<1> QED BY <1>1, RowsStep, Invariance, PTL DEF Spec
=============================================================================
