------------------------- MODULE ReceiptSettlement -------------------------
(***************************************************************************)
(* Settlement of compute receipts in the services container: the receipt   *)
(* pipeline (infra/services/src/receipt-pipeline.ts) drives the exchange   *)
(* (packages/exchange/src/exchange.ts), which consumes the requester's     *)
(* authorization in its durable store (settlement-store.ts), publishes a   *)
(* settlement record on its PDS, and then moves tokens in the ledger       *)
(* (token-balance.ts).                                                     *)
(*                                                                         *)
(* Everything between two awaits of the code is one action, so the actions *)
(* of different calls interleave exactly where the event loop lets them.   *)
(* A slot is one running asynchronous activity: the handling of a firehose *)
(* event (Handlers) or a reconcile pass (the periodic loop in Reconcilers, *)
(* the operator's backfill in Operators).  A crash loses what is in memory;*)
(* the record index, the settlement store, the ledger and the PDSes survive.*)
(***************************************************************************)
EXTENDS ExchangeFees, FiniteSetsExt

CONSTANTS
  Receipts,      \* URIs of receipt records
  Deps,          \* URIs of jobs, payment authorizations and attestations
  Dids,          \* repositories: requesters, providers, the treasury
  Nonces,        \* nonces of payment authorizations
  Treasury,      \* the DID of the treasury
  Body,          \* Body[r]: the immutable content of receipt r
  JobAuth,       \* JobAuth[j]: the authorization job j strong-refs
  Owner,         \* Owner[d]: the repository that holds dependency d
  Terms,         \* Terms[a]: nonce, scope and budget of authorization a
  Policy,        \* fees, grant, refresh (see PolicyAssumption)
  Handlers,      \* slots for firehose events being handled
  Reconcilers,   \* slots for the periodic reconcile loop
  Operators,     \* slots for the operator's backfills
  NoReceipt,     \* no receipt
  NoBudget,      \* an authorization without sessionBudget
  MaxRetries,    \* reactive retries before a receipt is no longer parked
  BatchSize,     \* receipts one periodic reconcile pass scans
  MaxFaults,     \* bound: publishes that fail
  MaxCrashes     \* bound: restarts of the container

Passes == Reconcilers \cup Operators
Slots == Handlers \cup Passes
Uris  == Receipts \cup Deps

ASSUME NullAssumption == /\ NoReceipt \notin Receipts
                         /\ Receipts \cap Deps = {}
                         /\ Handlers \cap Passes = {}
                         /\ Reconcilers \cap Operators = {}

ASSUME BodyAssumption ==
  Body \in [Receipts -> [requester : Dids, provider : Dids, job : Deps,
                         attestation : Deps, price : Nat, proBono : BOOLEAN,
                         authentic : BOOLEAN]]

ASSUME DependencyAssumption ==
  /\ JobAuth \in [Deps -> Deps]
  /\ Owner \in [Deps -> Dids]
  /\ Terms \in [Deps -> [nonce : Nonces, scope : {"singleJob", "session"},
                         budget : Nat \cup {NoBudget}]]
  /\ NoBudget \notin Nat

(* A requester draws the nonce afresh for every authorization it signs, so *)
(* two records with one nonce are copies of one authorization.             *)
ASSUME NonceAssumption ==
  \A a, b \in Deps : Terms[a].nonce = Terms[b].nonce => Terms[a] = Terms[b]

ASSUME PolicyAssumption ==
  /\ Treasury \in Dids
  /\ Policy \in [bps : Nat, minMinor : Nat, feeWaived : BOOLEAN,
                 selfLoopMin : Nat, grant : Nat, refresh : Nat]

ASSUME BoundAssumption ==
  /\ MaxRetries \in Nat /\ BatchSize \in Nat
  /\ MaxFaults \in Nat /\ MaxCrashes \in Nat

VARIABLES
  onPds,         \* records their owners have written to their PDS
  indexed,       \* records in the AppView store
  newer,         \* <<r, q>>: receipt r was indexed later than receipt q
  settlements,   \* receipts whose settlement record is in the AppView store
  published,     \* settlement records on the exchange's PDS, per receipt
  settled,       \* table settled_receipt
  consumed,      \* table consumed_authorization: key -> receipt
  charged,       \* table authorization_charge: key -> total
  tokens,        \* table token_balance: DID -> tokens, or NoRow
  processed,     \* table processed_receipt
  cache,         \* Exchange.settledByReceiptUri
  parked,        \* pendingByMissingUri
  retries,       \* retryCount, saturating just above MaxRetries
  rejected,      \* rejectedReceipts
  call,          \* what each slot is executing
  expired,       \* authorizations whose expiresAt has passed
  faults, crashes

durable  == <<settlements, published, settled, consumed, charged, tokens, processed>>
index    == <<onPds, indexed, newer>>
memory   == <<cache, parked, retries, rejected>>
bounds   == <<faults, crashes>>
vars     == <<index, durable, memory, call, expired, bounds>>
-----------------------------------------------------------------------------
(* Definitions.                                                            *)

NoRow == -1

(* Where a call of onReceipt awaits: the three lookups, the signature      *)
(* checks, the createRecord request, its response, the re-dispatch.        *)
Stages  == {"idle", "job", "auth", "attestation", "verify",
            "publish", "sent", "indexed"}
Lookups == {"job", "auth", "attestation"}
InFlight == {"publish", "sent", "indexed"}

Calls == [receipt : Receipts \cup {NoReceipt}, at : Stages, missed : BOOLEAN,
          ok : BOOLEAN, todo : SUBSET Receipts]

Idle(todo) == [receipt |-> NoReceipt, at |-> "idle", missed |-> FALSE,
               ok |-> FALSE, todo |-> todo]

(* Slot s now awaits at stage on behalf of r; missed: the store did not    *)
(* have the record looked up; ok: the verdict being computed.              *)
Await(s, r, stage, missed, ok) ==
  [call EXCEPT ![s] = [receipt |-> r, at |-> stage, missed |-> missed,
                       ok |-> ok, todo |-> call[s].todo]]

AuthOf(r) == JobAuth[Body[r].job]

Authorizations == {AuthOf(r) : r \in Receipts}

Target(r, stage) == CASE stage = "job"  -> Body[r].job
                      [] stage = "auth" -> AuthOf(r)
                      [] OTHER          -> Body[r].attestation

(* authorizationIdentity: the nonce names the authorization; one without a *)
(* nonce is named by its URI, so it has a nonce of its own here.           *)
Key(r) == Terms[AuthOf(r)].nonce

SingleUse(r) == ~Body[r].proBono /\ Terms[AuthOf(r)].scope = "singleJob"

Budget(r) == IF Terms[AuthOf(r)].scope = "session" THEN Terms[AuthOf(r)].budget
             ELSE NoBudget

IsSelfLoop(r) == Body[r].requester = Body[r].provider

(* A bug the store guards against: idempotency kept in memory only.        *)
IsReceiptSettledInMemory(r) == r \in cache

(* SettlementStore.isReceiptSettled.                                       *)
IsReceiptSettled(r) == r \in settled

(* verifyForChargeStrict: every check on immutable content is Body.authentic;*)
(* the job's owner, the pro-bono invariant, the authorization's expiry and *)
(* the settled set are read when the call is made.                         *)
VerifyForCharge(r) ==
  /\ Body[r].authentic
  /\ Body[r].proBono => Body[r].price = 0
  /\ Owner[Body[r].job] = Body[r].requester
  /\ AuthOf(r) \notin expired
  /\ ~IsReceiptSettled(r)
-----------------------------------------------------------------------------
(* The ledger, as the pipeline drives it.                                  *)

(* A bug to be caught: a transfer without the table's CHECK.               *)
Unchecked(r) == TRUE

Balance(t, did) == IF t[did] = NoRow THEN Policy.grant ELSE t[did]

(* getOrInitBalance for the three parties: each in a transaction of its    *)
(* own, so the grants stay even when the transfer below is refused.        *)
WithGrants(r) ==
  [d \in Dids |-> IF d \in {Body[r].requester, Body[r].provider, Treasury}
                  THEN Balance(tokens, d) ELSE tokens[d]]

AfterTransfer(r) ==
  [d \in Dids |-> WithGrants(r)[d] +
     ReceiptDelta(d, Body[r].requester, Body[r].provider, Treasury,
                  Body[r].price, TreasuryShare(Body[r].price, Policy, IsSelfLoop(r)))]

(* CHECK (tokens >= 0) aborts the transaction.                             *)
Covered(r) == AfterTransfer(r)[Body[r].requester] >= 0

(* applyRefreshIfDue for requester, then provider: what is due depends on  *)
(* the clock, so any subset may be.                                        *)
Refreshed(t, due) == [d \in Dids |-> t[d] + (IF d \in due THEN Policy.refresh ELSE 0)]

Refreshable(r) == IF Policy.refresh = 0 THEN {} ELSE {Body[r].requester, Body[r].provider}

ApplyReceipt(r) ==
  IF Body[r].price = 0 \/ r \in processed
  THEN UNCHANGED <<tokens, processed>>
  ELSE IF Covered(r)
  THEN /\ processed' = processed \cup {r}
       /\ \E due \in SUBSET Refreshable(r) : tokens' = Refreshed(AfterTransfer(r), due)
  ELSE tokens' = WithGrants(r) /\ UNCHANGED processed
-----------------------------------------------------------------------------
(* Outcomes of onReceipt, as processReceipt handles them.                  *)

Done(s, r) == [call EXCEPT ![s] = Idle(call[s].todo \ {r})]

(* "settled" and "duplicate": reset the retry counter, move the tokens.    *)
Succeed(s, r) ==
  /\ retries' = [retries EXCEPT ![r] = 0]
  /\ ApplyReceipt(r)
  /\ call' = Done(s, r)
  /\ UNCHANGED <<parked, rejected>>

(* A bug to be caught: the ledger moves whatever the verdict.              *)
RejectAndMove(s, r) ==
  /\ rejected' = rejected \cup {r}
  /\ retries' = [retries EXCEPT ![r] = 0]
  /\ call' = Done(s, r)
  /\ ApplyReceipt(r)
  /\ UNCHANGED <<parked, cache>>

(* "rejected": remembered, so that reconcile skips it.                     *)
Reject(s, r) ==
  /\ rejected' = rejected \cup {r}
  /\ retries' = [retries EXCEPT ![r] = 0]
  /\ call' = Done(s, r)
  /\ UNCHANGED <<parked, cache, tokens, processed>>

(* "resolve-failed": parked on the missing URI within the retry budget.    *)
ResolveFailed(s, r, uri) ==
  LET attempts == IF retries[r] > MaxRetries THEN retries[r] ELSE retries[r] + 1
  IN  /\ retries' = [retries EXCEPT ![r] = attempts]
      /\ parked' = IF attempts > MaxRetries THEN parked
                   ELSE [parked EXCEPT ![uri] = @ \cup {r}]
      /\ call' = Done(s, r)
      /\ UNCHANGED <<rejected, cache, tokens, processed>>

(* onReceipt up to its first await.                                        *)
Enter(s, r) ==
  \/ /\ r \in cache
     /\ Succeed(s, r)
     /\ UNCHANGED cache
  \/ /\ r \notin cache /\ IsReceiptSettled(r)
     /\ Reject(s, r)
  \/ /\ r \notin cache /\ ~IsReceiptSettled(r)
     /\ call' = Await(s, r, "job", Body[r].job \notin indexed, FALSE)
     /\ UNCHANGED <<memory, tokens, processed>>
-----------------------------------------------------------------------------
(* The world outside the container.                                        *)

(* An owner writes a record to its PDS: receipts and dependencies may      *)
(* become visible in any order.                                            *)
Publish(u) ==
  /\ u \notin onPds
  /\ onPds' = onPds \cup {u}
  /\ UNCHANGED <<indexed, newer, durable, memory, call, expired, bounds>>

Expire(a) ==
  /\ a \notin expired
  /\ expired' = expired \cup {a}
  /\ UNCHANGED <<index, durable, memory, call, bounds>>

(* The settlement record comes back through the relay.                     *)
DeliverSettlement(r) ==
  /\ published[r] > 0
  /\ r \notin settlements
  /\ settlements' = settlements \cup {r}
  /\ UNCHANGED <<index, published, settled, consumed, charged, tokens,
                 processed, memory, call, expired, bounds>>
-----------------------------------------------------------------------------
(* Firehose events.  Every subscriber sees an event: the indexer stores it *)
(* first, then the receipt handler or the dependency handler runs.  Events *)
(* may be lost (never delivered), repeated and reordered.                  *)

Free(s) == call[s].at = "idle" /\ call[s].todo = {}

DeliverReceipt(s, r) ==
  /\ Free(s) /\ r \in onPds
  /\ indexed' = indexed \cup {r}
  /\ newer' = {p \in newer : p[2] # r} \cup ({r} \X ((indexed \cap Receipts) \ {r}))
  /\ Enter(s, r)
  /\ UNCHANGED <<onPds, settlements, published, settled, consumed, charged,
                 expired, bounds>>

(* onAnyRecord: the waiters of the URI are drained, one after the other.   *)
DeliverDependency(s, d) ==
  /\ Free(s) /\ d \in onPds
  /\ indexed' = indexed \cup {d}
  /\ parked' = [parked EXCEPT ![d] = {}]
  /\ call' = [call EXCEPT ![s] = Idle(parked[d])]
  /\ UNCHANGED <<onPds, newer, durable, cache, retries, rejected, expired, bounds>>

(* The next receipt of a drain, or of a reconcile pass, which skips what   *)
(* was rejected.                                                           *)
NextReceipt(s, r) ==
  /\ call[s].at = "idle" /\ r \in call[s].todo
  /\ \/ /\ s \in Passes /\ r \in rejected
        /\ call' = Done(s, r)
        /\ UNCHANGED <<memory, tokens, processed>>
     \/ /\ ~(s \in Passes /\ r \in rejected)
        /\ Enter(s, r)
  /\ UNCHANGED <<index, settlements, published, settled, consumed, charged,
                 expired, bounds>>
-----------------------------------------------------------------------------
(* reconcileUnsettledReceipts: the newest receipts of the store, without   *)
(* those whose settlement is in the store.                                 *)

InBatch(r, limit) ==
  /\ r \in indexed
  /\ Cardinality({q \in Receipts : <<q, r>> \in newer}) < limit

(* A bug to be caught: reconcile honours the reactive retry budget.        *)
UnsettledWithinBudget(limit) ==
  {r \in Receipts : InBatch(r, limit) /\ retries[r] <= MaxRetries} \ settlements

Unsettled(limit) == {r \in Receipts : InBatch(r, limit)} \ settlements

StartReconcile(s) ==
  /\ Free(s)
  /\ call' = [call EXCEPT ![s] = Idle(Unsettled(BatchSize))]
  /\ UNCHANGED <<index, durable, memory, expired, bounds>>

(* The operator's backfill: a larger limit, and the rejected set cleared.  *)
StartBackfill(s) ==
  /\ Free(s)
  /\ rejected' = {}
  /\ call' = [call EXCEPT ![s] = Idle(Unsettled(Cardinality(Receipts)))]
  /\ UNCHANGED <<index, durable, cache, parked, retries, expired, bounds>>
-----------------------------------------------------------------------------
(* onReceipt from one await to the next.                                   *)

(* The record was in the store, or the PDS has it: it is then back-filled  *)
(* into the store without a firehose event.                                *)
ResolveHit(s) ==
  LET r == call[s].receipt  uri == Target(r, call[s].at)
  IN  /\ call[s].at \in Lookups
      /\ ~call[s].missed \/ uri \in onPds
      /\ indexed' = indexed \cup {uri}
      /\ \/ /\ call[s].at = "job"
            /\ call' = Await(s, r, "auth", AuthOf(r) \notin indexed', FALSE)
            /\ UNCHANGED <<memory, tokens, processed>>
         \/ /\ call[s].at = "auth" /\ Owner[uri] = Body[r].requester
            /\ call' = Await(s, r, "attestation", Body[r].attestation \notin indexed', FALSE)
            /\ UNCHANGED <<memory, tokens, processed>>
         \/ /\ call[s].at = "attestation" /\ Owner[uri] = Body[r].provider
            /\ call' = Await(s, r, "verify", FALSE, VerifyForCharge(r))
            /\ UNCHANGED <<memory, tokens, processed>>
         \/ /\ call[s].at = "auth" /\ Owner[uri] # Body[r].requester
            /\ Reject(s, r)
         \/ /\ call[s].at = "attestation" /\ Owner[uri] # Body[r].provider
            /\ Reject(s, r)
      /\ UNCHANGED <<onPds, newer, settlements, published, settled, consumed,
                     charged, expired, bounds>>

(* Not on the PDS, a transient error, or a warm negative cache entry.  The *)
(* store is not read again: the record may have arrived meanwhile.         *)
ResolveMiss(s) ==
  LET r == call[s].receipt
  IN  /\ call[s].at \in Lookups /\ call[s].missed
      /\ ResolveFailed(s, r, Target(r, call[s].at))
      /\ UNCHANGED <<index, settlements, published, settled, consumed, charged,
                     expired, bounds>>

(* A bug to be caught: the consumed authorization looked up in memory.     *)
AuthorizationConsumedInMemory(r) == SingleUse(r) /\ consumed[Key(r)] \in cache \ {r}

AuthorizationConsumed(r) == SingleUse(r) /\ consumed[Key(r)] \notin {NoReceipt, r}

(* A bug the accrual guards against: each charge compared by itself.       *)
PriceOverBudget(r) == Budget(r) # NoBudget /\ Body[r].price > Budget(r)

BudgetExceeded(r) == Budget(r) # NoBudget /\ charged[Key(r)] + Body[r].price > Budget(r)

Chargeable(r) == ~AuthorizationConsumed(r) /\ ~BudgetExceeded(r)

(* The verdict is in; a good one goes straight into consume, one           *)
(* transaction that checks and records the charge.                         *)
Consume(s) ==
  LET r == call[s].receipt
  IN  /\ call[s].at = "verify"
      /\ \/ /\ ~call[s].ok
            /\ Reject(s, r)
            /\ UNCHANGED <<settled, consumed, charged>>
         \/ /\ call[s].ok /\ IsReceiptSettled(r) /\ r \in cache
            /\ Succeed(s, r)
            /\ UNCHANGED <<cache, settled, consumed, charged>>
         \/ /\ call[s].ok /\ IsReceiptSettled(r) /\ r \notin cache
            /\ Reject(s, r)
            /\ UNCHANGED <<settled, consumed, charged>>
         \/ /\ call[s].ok /\ ~IsReceiptSettled(r) /\ ~Chargeable(r)
            /\ Reject(s, r)
            /\ UNCHANGED <<settled, consumed, charged>>
         \/ /\ call[s].ok /\ ~IsReceiptSettled(r) /\ Chargeable(r)
            /\ settled' = settled \cup {r}
            /\ consumed' = IF SingleUse(r) THEN [consumed EXCEPT ![Key(r)] = r]
                                           ELSE consumed
            /\ charged' = [charged EXCEPT ![Key(r)] = @ + Body[r].price]
            /\ call' = Await(s, r, "publish", FALSE, FALSE)
            /\ UNCHANGED <<memory, tokens, processed>>
      /\ UNCHANGED <<index, settlements, published, expired, bounds>>

(* createRecord reaches the exchange's PDS.                                *)
PublishLands(s) ==
  LET r == call[s].receipt
  IN  /\ call[s].at = "publish"
      /\ published' = [published EXCEPT ![r] = @ + 1]
      /\ call' = Await(s, r, "sent", FALSE, FALSE)
      /\ UNCHANGED <<index, settlements, settled, consumed, charged, tokens,
                     processed, memory, expired, bounds>>

(* Its response arrives; the wrapped publish dispatches the settlement     *)
(* into the firehose, and the indexer stores it.                           *)
PublishReturns(s) ==
  LET r == call[s].receipt
  IN  /\ call[s].at = "sent"
      /\ settlements' = settlements \cup {r}
      /\ call' = Await(s, r, "indexed", FALSE, FALSE)
      /\ UNCHANGED <<index, published, settled, consumed, charged, tokens,
                     processed, memory, expired, bounds>>

(* The request is refused, or its response is lost: publish throws, and    *)
(* whoever drives the pipeline logs it.                                    *)
PublishFails(s) ==
  LET r == call[s].receipt
  IN  /\ call[s].at \in {"publish", "sent"}
      /\ faults < MaxFaults /\ faults' = faults + 1
      /\ call' = Done(s, r)
      /\ UNCHANGED <<index, durable, memory, expired, crashes>>

(* onReceipt returns settled; the ledger is applied.                       *)
Settle(s) ==
  LET r == call[s].receipt
  IN  /\ call[s].at = "indexed"
      /\ cache' = cache \cup {r}
      /\ Succeed(s, r)
      /\ UNCHANGED <<index, settlements, published, settled, consumed, charged,
                     expired, bounds>>
-----------------------------------------------------------------------------
Crash ==
  /\ crashes < MaxCrashes /\ crashes' = crashes + 1
  /\ cache' = {} /\ rejected' = {}
  /\ parked' = [d \in Deps |-> {}]
  /\ retries' = [r \in Receipts |-> 0]
  /\ call' = [s \in Slots |-> Idle({})]
  /\ UNCHANGED <<index, durable, expired, faults>>

Init ==
  /\ onPds = {} /\ indexed = {} /\ newer = {} /\ settlements = {}
  /\ published = [r \in Receipts |-> 0]
  /\ settled = {} /\ processed = {}
  /\ consumed = [n \in Nonces |-> NoReceipt]
  /\ charged = [n \in Nonces |-> 0]
  /\ tokens = [d \in Dids |-> NoRow]
  /\ cache = {} /\ rejected = {}
  /\ parked = [d \in Deps |-> {}]
  /\ retries = [r \in Receipts |-> 0]
  /\ call = [s \in Slots |-> Idle({})]
  /\ expired = {}
  /\ faults = 0 /\ crashes = 0

Step(s) == \/ ResolveHit(s) \/ ResolveMiss(s) \/ Consume(s) \/ PublishLands(s)
           \/ PublishReturns(s) \/ PublishFails(s) \/ Settle(s)
           \/ \E r \in Receipts : NextReceipt(s, r)

Next ==
  \/ \E u \in Uris : Publish(u)
  \/ \E a \in Authorizations : Expire(a)
  \/ \E r \in Receipts : DeliverSettlement(r)
  \/ \E s \in Handlers, r \in Receipts : DeliverReceipt(s, r)
  \/ \E s \in Handlers, d \in Deps : DeliverDependency(s, d)
  \/ \E s \in Reconcilers : StartReconcile(s)
  \/ \E s \in Operators : StartBackfill(s)
  \/ \E s \in Slots : Step(s)
  \/ Crash

Spec == Init /\ [][Next]_vars
-----------------------------------------------------------------------------
(* Properties.                                                             *)

(* Type correctness of the tables, the in-memory maps and the calls.       *)
TypeOK ==
  /\ onPds \subseteq Uris /\ indexed \subseteq Uris
  /\ newer \subseteq Receipts \X Receipts
  /\ settlements \subseteq Receipts
  /\ published \in [Receipts -> Nat]
  /\ settled \subseteq Receipts /\ processed \subseteq Receipts
  /\ consumed \in [Nonces -> Receipts \cup {NoReceipt}]
  /\ charged \in [Nonces -> Nat]
  /\ tokens \in [Dids -> Nat \cup {NoRow}]
  /\ cache \subseteq Receipts /\ rejected \subseteq Receipts
  /\ parked \in [Deps -> SUBSET Receipts]
  /\ retries \in [Receipts -> 0..(MaxRetries + 1)]
  /\ call \in [Slots -> Calls]
  /\ expired \subseteq Deps
  /\ faults \in 0..MaxFaults /\ crashes \in 0..MaxCrashes

(* A receipt is published at most once, and only with its durable settled  *)
(* mark: two calls of onReceipt that overlap across their awaits, a        *)
(* redelivered event, a reconcile pass or a restart never produce a second *)
(* settlement record (exchange.ts, onReceipt; settlement-store.ts, consume).*)
PublishedOnce ==
  \A r \in Receipts : published[r] > 0 => published[r] = 1 /\ r \in settled

(* A singleJob authorization pays for one receipt, whatever overlaps and   *)
(* restarts, and whichever record its nonce was copied into                *)
(* (settlement-store.ts, consume).                                         *)
SingleUseAuthorization ==
  \A r, q \in settled : SingleUse(r) /\ SingleUse(q) /\ Key(r) = Key(q) => r = q

(* The receipts settled under a session authorization never charge more    *)
(* than its sessionBudget, and the accrued total is exactly what they      *)
(* charge (settlement-store.ts, consume).                                  *)
ChargedTo(n) ==
  SumFunctionOnSet([r \in Receipts |-> Body[r].price], {r \in settled : Key(r) = n})

SessionBudgetKept ==
  \A r \in settled :
    /\ ChargedTo(Key(r)) = charged[Key(r)]
    /\ Budget(r) # NoBudget => ChargedTo(Key(r)) <= Budget(r)

(* Tokens move only for a receipt whose settlement is on the PDS and whose *)
(* authorization its debited requester owns: no path through the pipeline  *)
(* reaches the ledger with a receipt that was rejected, parked or never    *)
(* verified (receipt-pipeline.ts, processReceiptInner).                    *)
MovedOnlySettled ==
  \A r \in processed :
    /\ published[r] = 1
    /\ Body[r].authentic
    /\ Owner[AuthOf(r)] = Body[r].requester
    /\ Owner[Body[r].attestation] = Body[r].provider

(* In an idle ledger the treasury holds its grant and exactly the fees the *)
(* published settlements state: the ledger's split and the record's        *)
(* exchangeFee are computed apart (exchange.ts:347, token-balance.ts:430). *)
TreasuryMatchesSettlements ==
  tokens[Treasury] # NoRow =>
    tokens[Treasury] = Policy.grant +
      SumFunctionOnSet([r \in Receipts |-> SettlementFee(Body[r].price, Policy,
                                                        Body[r].proBono, IsSelfLoop(r))],
                       processed)

(* Every step is one the abstract register allows.                         *)
Register == INSTANCE ChargeOnce WITH
  Keys     <- Nonces,
  KeyOf    <- [r \in Receipts |-> Key(r)],
  Price    <- [r \in Receipts |-> Body[r].price],
  OneShot  <- {r \in Receipts : SingleUse(r)},
  Cap      <- [r \in Receipts |-> Budget(r)],
  NoCap    <- NoBudget,
  charged  <- settled,
  spent    <- charged,
  recorded <- {r \in Receipts : published[r] > 0},
  moved    <- processed

(* The pipeline implements the register: charged, recorded and moved at    *)
(* most once, in this order (exchange.ts, onReceipt; receipt-pipeline.ts). *)
ChargesOnce == Register!Spec
-----------------------------------------------------------------------------
(* Liveness.  The event loop runs every pending continuation, the periodic *)
(* loop starts a pass whenever the last has finished, and a lookup that is *)
(* retried for ever does not fail for ever once the record is on its PDS   *)
(* (its failures are transient, its negative cache expires).  Nothing is   *)
(* assumed of the firehose: any event may be lost.                         *)
Fairness ==
  /\ \A s \in Slots :
       /\ WF_vars(Step(s))
       /\ SF_vars(ResolveHit(s) /\ call[s].at = "job")
       /\ SF_vars(ResolveHit(s) /\ call[s].at = "auth")
       /\ SF_vars(ResolveHit(s) /\ call[s].at = "attestation")
  /\ \A s \in Reconcilers : WF_vars(StartReconcile(s))

FairSpec == Spec /\ Fairness

(* A receipt the exchange has every reason to refuse, now and for good.    *)
Unsettleable(r) ==
  \/ ~Body[r].authentic \/ AuthOf(r) \in expired
  \/ Body[r].proBono /\ Body[r].price > 0
  \/ Owner[Body[r].job] # Body[r].requester
  \/ Owner[AuthOf(r)] # Body[r].requester
  \/ Owner[Body[r].attestation] # Body[r].provider
  \/ AuthorizationConsumed(r)
  \/ r \notin settled /\ BudgetExceeded(r)

Resolvable(r) == r \in indexed /\ {Body[r].job, AuthOf(r), Body[r].attestation} \subseteq onPds

Paid(r) == published[r] > 0 /\ (Body[r].price > 0 => r \in processed \/ ~Covered(r))

(* A receipt in the store whose dependencies exist is eventually settled   *)
(* and its tokens moved, or there is a lasting reason not to: nothing is   *)
(* lost between parking, the retry budget, dropped events and reconcile    *)
(* (receipt-pipeline.ts:26, main.ts:533).                                  *)
ReceiptEventuallyPaid ==
  \A r \in Receipts : Resolvable(r) ~> Paid(r) \/ Unsettleable(r)
=============================================================================
