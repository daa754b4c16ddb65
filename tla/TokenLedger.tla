---------------------------- MODULE TokenLedger ----------------------------
(***************************************************************************)
(* The mutual-credit ledger (packages/exchange/src/token-balance.ts) as    *)
(* the services container drives it (infra/services/src/main.ts) and as    *)
(* the console consults it before it dispatches a job                      *)
(* (packages/console/src/lib/admission.server.ts).                         *)
(*                                                                         *)
(* better-sqlite3 is synchronous and there is one process, so each ledger  *)
(* operation is one action.  The audit log token_event is kept as what the *)
(* code reads back from it: the sum per DID, the sum of the mints, the     *)
(* patronage volume per month, and the payouts per period.                  *)
(***************************************************************************)
EXTENDS ExchangeFees, FiniteSetsExt

CONSTANTS
  Dids,
  Treasury,        \* the DID of the treasury
  Receipts,        \* receipts, one per job
  Terms,           \* Terms[r]: requester, provider and price of receipt r
  Policy,          \* see PolicyAssumption
  Enforced,        \* COCORE_ENFORCE_ADMISSION
  Concurrent,      \* may a requester have several unsettled jobs?
  MaxMonth         \* bound: months

Months == 0..MaxMonth

ASSUME TermsAssumption ==
  Terms \in [Receipts -> [requester : Dids, provider : Dids, price : Nat \ {0}]]

ASSUME PolicyAssumption ==
  /\ IsFiniteSet(Dids) /\ Treasury \in Dids
  /\ Policy \in [bps : Nat, minMinor : Nat, feeWaived : BOOLEAN, selfLoopMin : Nat,
                 grant : Nat, refresh : Nat, floor : Nat, ceiling : Nat,
                 patronageBps : Nat]

(* The exchange rejects a receipt above its job's price ceiling.           *)
ASSUME CeilingAssumption == \A r \in Receipts : Terms[r].price <= Policy.ceiling

ASSUME RegimeAssumption ==
  /\ Enforced \in BOOLEAN /\ Concurrent \in BOOLEAN
  /\ MaxMonth \in Nat

VARIABLES
  rows,            \* DIDs with a row in token_balance
  tokens,          \* token_balance.tokens, 0 without a row
  log,             \* SUM(tokens_delta) per DID in token_event
  minted,          \* SUM(tokens_delta) over grants and refreshes
  volume,          \* volume[m][d]: SUM(ABS(tokens_delta)) over the receipt
                   \* events of d before the start of month m
  turnover,        \* the same over all members, that is without the treasury
  periods,         \* table processed_period
  payouts,         \* patronage-out events per period
  processed,       \* table processed_receipt
  stale,           \* DIDs whose refresh cadence has elapsed
  job,             \* the console's verdict on each job
  month            \* the clock

books == <<rows, tokens, log, minted>>
tally == <<volume, turnover, periods, payouts>>
vars  == <<books, tally, processed, stale, job, month>>
-----------------------------------------------------------------------------
(* Entries in the books: grants, refreshes, transfers.                     *)

Entry(amount, dids) == [d \in Dids |-> IF d \in dids THEN amount ELSE 0]

Plus(f, g) == [d \in Dids |-> f[d] + g[d]]

(* getOrInitBalance for every DID in dids, then applyRefreshIfDue for the  *)
(* DIDs in due, on top of the transfers t (balances) and e (events).       *)
Touched(dids, due, t, e) ==
  LET fresh  == dids \ rows
      grants == Entry(Policy.grant, fresh)
      drips  == Entry(Policy.refresh, due)
  IN  /\ rows' = rows \cup fresh
      /\ tokens' = Plus(Plus(t, grants), drips)
      /\ log' = Plus(Plus(Plus(log, grants), e), drips)
      /\ minted' = minted + Policy.grant * Cardinality(fresh)
                          + Policy.refresh * Cardinality(due)
      /\ stale' = stale \ due

Due(dids) == IF Policy.refresh = 0 THEN {} ELSE dids \cap stale

NoTransfer == [d \in Dids |-> 0]
-----------------------------------------------------------------------------
(* One receipt.                                                            *)

Share(r) == TreasuryShare(Terms[r].price, Policy, Terms[r].requester = Terms[r].provider)

(* A bug to be caught: the provider gets its row at its first read.        *)
PartiesWhoPay(r) == {Terms[r].requester, Treasury}

Parties(r) == {Terms[r].requester, Terms[r].provider, Treasury}

(* Balances once the parties have their grants.                            *)
Granted(r) == Plus(tokens, Entry(Policy.grant, Parties(r) \ rows))

(* A bug the code once had: each party's balance written from a snapshot.  *)
MovedFromSnapshot(r) ==
  LET snapshot == tokens
  IN  [tokens EXCEPT
         ![Terms[r].requester] = snapshot[Terms[r].requester] - Terms[r].price,
         ![Terms[r].provider]  = snapshot[Terms[r].provider] + Terms[r].price - Share(r),
         ![Treasury]           = IF Share(r) > 0 THEN snapshot[Treasury] + Share(r) ELSE @]

(* The net movement of each DID, applied once per DID.                     *)
Moved(r) ==
  [d \in Dids |-> tokens[d] + ReceiptDelta(d, Terms[r].requester, Terms[r].provider,
                                           Treasury, Terms[r].price, Share(r))]

(* The events receipt-out, receipt-in and treasury-fee.                    *)
Events(r) ==
  Plus(Plus(Entry(-Terms[r].price, {Terms[r].requester}),
            Entry(Terms[r].price - Share(r), {Terms[r].provider})),
       Entry(Share(r), {Treasury}))

(* What flowed through d: both events of a self-loop count.                *)
Flow(r, d) == (IF d = Terms[r].requester THEN Terms[r].price ELSE 0)
            + (IF d = Terms[r].provider THEN Terms[r].price - Share(r) ELSE 0)

MemberFlow(r) ==
    (IF Terms[r].requester # Treasury THEN Terms[r].price ELSE 0)
  + (IF Terms[r].provider # Treasury THEN Terms[r].price - Share(r) ELSE 0)

(* A bug to be caught: a transfer without the table's CHECK.               *)
Unchecked(r) == TRUE

(* CHECK (tokens >= 0), for the only party that may be short.              *)
Covered(r) ==
  Granted(r)[Terms[r].requester] +
    ReceiptDelta(Terms[r].requester, Terms[r].requester, Terms[r].provider,
                 Treasury, Terms[r].price, Share(r)) >= 0

(* processReceipt applies a settled receipt, and once more each time a     *)
(* duplicate comes.  A refused transfer leaves the grants behind.          *)
ApplyReceipt(r) ==
  /\ job[r] \in {"admitted", "unchecked"}
  /\ r \notin processed
  /\ \/ /\ Covered(r)
        /\ processed' = processed \cup {r}
        /\ Touched(Parties(r), Due({Terms[r].requester, Terms[r].provider}),
                   Moved(r), Events(r))
        /\ volume' = [m \in Months |-> [d \in Dids |->
                        volume[m][d] + (IF m > month THEN Flow(r, d) ELSE 0)]]
        /\ turnover' = [m \in Months |->
                          turnover[m] + (IF m > month THEN MemberFlow(r) ELSE 0)]
     \/ /\ ~Covered(r)
        /\ Touched(Parties(r), {}, tokens, NoTransfer)
        /\ UNCHANGED <<processed, volume, turnover>>
  /\ UNCHANGED <<periods, payouts, job, month>>
-----------------------------------------------------------------------------
(* Reads and admission.                                                    *)

(* The getBalance route: touchAndGetBalance.                               *)
GetBalance(d) ==
  /\ Touched({d}, Due({d}), tokens, NoTransfer)
  /\ UNCHANGED <<tally, processed, job, month>>

BalanceOf(d) == IF d \in rows THEN tokens[d] ELSE Policy.grant

(* A bug to be caught: the floor without the price.                        *)
AboveFloor(d) == BalanceOf(d) >= Policy.floor

(* checkAdmission: the ceiling of the job with headroom to spare.          *)
Admissible(d) == BalanceOf(d) >= Policy.ceiling + Policy.floor

Unsettled(d) == {r \in Receipts \ processed : job[r] # "none" /\ Terms[r].requester = d}

(* The console asks the ledger, then dispatches.  Not enforced, or with    *)
(* the ledger unreachable, the job is dispatched all the same.             *)
Dispatch(r) ==
  LET d == Terms[r].requester
  IN  /\ job[r] = "none"
      /\ Concurrent \/ Unsettled(d) = {}
      /\ \/ /\ Touched({d}, {}, tokens, NoTransfer)
            /\ \/ Admissible(d) /\ job' = [job EXCEPT ![r] = "admitted"]
               \/ ~Admissible(d) /\ ~Enforced /\ job' = [job EXCEPT ![r] = "unchecked"]
               \/ ~Admissible(d) /\ Enforced /\ UNCHANGED job
         \/ /\ job' = [job EXCEPT ![r] = "unchecked"]
            /\ UNCHANGED <<books, stale>>
      /\ UNCHANGED <<tally, processed, month>>
-----------------------------------------------------------------------------
(* Patronage over the window [start, end).                                 *)

Score(start, end, d) == IF d = Treasury THEN 0 ELSE volume[end][d] - volume[start][d]

TotalScore(start, end) == turnover[end] - turnover[start]

ToDistribute == (tokens[Treasury] * Policy.patronageBps) \div 10000

(* A bug to be caught: shares rounded up.                                  *)
CreditRoundedUp(start, end, d) ==
  (ToDistribute * Score(start, end, d) + TotalScore(start, end) - 1) \div TotalScore(start, end)

Credit(start, end, d) == (ToDistribute * Score(start, end, d)) \div TotalScore(start, end)

Credits(start, end) == [d \in Dids |-> Credit(start, end, d)]

(* A bug the code guards against: the rounding loss leaves the treasury too.*)
WholeFraction(credited) == ToDistribute

(* The treasury is debited the exact sum of the credits.                   *)
Debit(credited) == SumFunctionOnSet(credited, Dids)

(* A bug to be caught: no idempotency on the window.                       *)
NeverDistributed(start, end) == FALSE

AlreadyDistributed(start, end) == <<start, end>> \in periods

Distribute(start, end) ==
  /\ Policy.patronageBps > 0
  /\ ~AlreadyDistributed(start, end)
  /\ periods' = periods \cup {<<start, end>>}
  /\ \/ /\ TotalScore(start, end) = 0 \/ tokens[Treasury] = 0
        /\ UNCHANGED <<books, payouts>>
     \/ /\ TotalScore(start, end) # 0 /\ tokens[Treasury] # 0
        /\ \E paid \in 0..tokens[Treasury] :   \* CHECK (tokens >= 0)
             LET credited == Credits(start, end)
             IN  /\ paid = Debit(credited)
                 /\ tokens' = [d \in Dids |-> IF d = Treasury THEN tokens[Treasury] - paid
                                              ELSE tokens[d] + credited[d]]
                 /\ log' = Plus(Plus(log, credited), Entry(-paid, {Treasury}))
                 /\ payouts' = IF paid = 0 THEN payouts
                               ELSE [payouts EXCEPT ![<<start, end>>] = @ + 1]
        /\ UNCHANGED <<rows, minted>>
  /\ UNCHANGED <<volume, turnover, processed, stale, job, month>>

(* The scheduler, at every boot and at every month boundary, and the       *)
(* operator's default: the prior month.                                    *)
DistributePriorMonth == month > 0 /\ Distribute(month - 1, month)

(* The operator may name any window, the running month included.           *)
DistributeWindow ==
  /\ \E start, end \in 0..(month + 1) : start < end /\ end <= MaxMonth /\ Distribute(start, end)
-----------------------------------------------------------------------------
(* The operator's reconcile: rebuildBalanceCache, which changes a balance  *)
(* only where it drifted from the log.                                     *)
Rebuild ==
  /\ tokens' = [d \in Dids |-> IF d \in rows THEN log[d] ELSE tokens[d]]
  /\ UNCHANGED <<rows, log, minted, tally, processed, stale, job, month>>

(* A month is longer than the refresh cadence: any may have elapsed.       *)
NextMonth ==
  /\ month < MaxMonth /\ month' = month + 1
  /\ \E due \in SUBSET rows : stale' = stale \cup due
  /\ UNCHANGED <<books, tally, processed, job>>
-----------------------------------------------------------------------------
Init ==
  /\ rows = {} /\ minted = 0
  /\ tokens = [d \in Dids |-> 0] /\ log = [d \in Dids |-> 0]
  /\ volume = [m \in Months |-> [d \in Dids |-> 0]]
  /\ turnover = [m \in Months |-> 0]
  /\ periods = {} /\ payouts = [w \in Months \X Months |-> 0]
  /\ processed = {} /\ stale = {}
  /\ job = [r \in Receipts |-> "none"]
  /\ month = 0

Next ==
  \/ \E r \in Receipts : Dispatch(r) \/ ApplyReceipt(r)
  \/ \E d \in Dids : GetBalance(d)
  \/ DistributePriorMonth \/ DistributeWindow
  \/ Rebuild
  \/ NextMonth

Spec == Init /\ [][Next]_vars
-----------------------------------------------------------------------------
(* Properties.                                                             *)

(* Types; in particular no balance is negative, and no refresh is due to a *)
(* DID without a row.                                                      *)
TypeOK ==
  /\ rows \subseteq Dids /\ stale \subseteq rows
  /\ tokens \in [Dids -> Nat] /\ log \in [Dids -> Int] /\ minted \in Nat
  /\ volume \in [Months -> [Dids -> Nat]] /\ turnover \in [Months -> Nat]
  /\ periods \subseteq Months \X Months /\ payouts \in [Months \X Months -> Nat]
  /\ processed \subseteq Receipts
  /\ job \in [Receipts -> {"none", "admitted", "unchecked"}]
  /\ month \in Months

(* Every balance is what the audit log says it is, although the balances   *)
(* are written as net movements and the log as separate events, and the    *)
(* requester, the provider and the treasury of a receipt may coincide      *)
(* (token-balance.ts, applyReceipt and reconcile, invariant 2).            *)
BalancesMatchLog == \A d \in Dids : tokens[d] = log[d]

(* The sum of all balances is the sum of all grants and refreshes: receipts*)
(* and patronage move tokens and make or lose none, rounding included      *)
(* (token-balance.ts, reconcile, invariants 1 and 5).                      *)
SystemTotal == SumFunctionOnSet(tokens, Dids) = minted

(* The credits of a payout add up to no more than the share put up for it, *)
(* however unevenly it divides, and the treasury keeps back less than a    *)
(* token per DID: the total that the scores are divided by is their sum,   *)
(* self-loops and the treasury's own receipts included                     *)
(* (token-balance.ts, distributePatronage).                                *)
PayoutWithinShare ==
  \A start, end \in Months :
    start < end /\ TotalScore(start, end) # 0 =>
      LET paid == Debit(Credits(start, end))
      IN  paid <= ToDistribute /\ ToDistribute < paid + Cardinality(Dids)

(* Whoever the log knows has a row: a payout reads and writes the row of   *)
(* everybody it finds in the log, and would lose the credit, and fail, at  *)
(* one that is missing (token-balance.ts, distributePatronage).            *)
EventsHaveRows ==
  \A d \in Dids \ rows :
    tokens[d] = 0 /\ log[d] = 0 /\ \A m \in Months : volume[m][d] = 0

(* A period is paid out at most once, whatever boots, month boundaries and *)
(* operators trigger it again ("the exchange MUST NOT distribute twice",    *)
(* lexicons/dev/cocore/account/tokenPatronage.json:4).                     *)
PeriodPaidOnce == \A w \in Months \X Months : payouts[w] <= 1

(* A job the ledger admitted can be settled: whatever happens between      *)
(* admission and settlement, its requester still holds its price           *)
(* (token-balance.ts, checkAdmission).                                     *)
AdmittedJobsCovered ==
  \A r \in Receipts :
    job[r] = "admitted" /\ r \notin processed => tokens[Terms[r].requester] >= Terms[r].price

(* Every step is one the abstract ledger allows.                           *)
Account == INSTANCE MutualCredit WITH
  Members <- Dids,
  Payer   <- [r \in Receipts |-> Terms[r].requester],
  Price   <- [r \in Receipts |-> Terms[r].price],
  Windows <- Months \X Months,
  balance <- tokens,
  applied <- processed,
  paid    <- periods

(* The ledger implements mutual credit: no grant, refresh, refused         *)
(* transfer, payout, repeated receipt or rebuild takes a token from anybody*)
(* but the requester of a receipt, once, and the treasury, once a window   *)
(* (token-balance.ts).                                                     *)
TokensTakenOnce == Account!Spec
=============================================================================
