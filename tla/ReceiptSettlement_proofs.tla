---------------------- MODULE ReceiptSettlement_proofs ----------------------
(***************************************************************************)
(* Proofs about ReceiptSettlement for every number of receipts, handlers,  *)
(* restarts and faults.  The inductive invariant relates the calls in      *)
(* flight, which survive only in memory, to the durable tables.            *)
(***************************************************************************)
EXTENDS ReceiptSettlement, ExchangeFees_proofs, SumLemmas

(* Everything the exchange requires of a receipt before charging it.       *)
Authorized(r) ==
  /\ Body[r].authentic
  /\ Body[r].proBono => Body[r].price = 0
  /\ Owner[AuthOf(r)] = Body[r].requester
  /\ Owner[Body[r].attestation] = Body[r].provider

(* What the stage of a call says about its receipt.                        *)
CallInv(c) ==
  /\ c.at # "idle" => c.receipt \in Receipts
  /\ c.at \in {"attestation", "verify"} =>
       Owner[AuthOf(c.receipt)] = Body[c.receipt].requester
  /\ c.at = "verify" =>
       Owner[Body[c.receipt].attestation] = Body[c.receipt].provider
  /\ c.at = "verify" /\ c.ok => Authorized(c.receipt)
  /\ c.at \in InFlight => c.receipt \in settled
  /\ c.at = "publish" => published[c.receipt] = 0
  /\ c.at \in {"sent", "indexed"} => published[c.receipt] = 1

CallsInv == \A s \in Slots : CallInv(call[s])

(* Two calls never publish for one receipt.                                *)
OnePublisher ==
  \A s, t \in Slots :
    /\ call[s].at \in InFlight /\ call[t].at \in InFlight
    /\ call[s].receipt = call[t].receipt
    => s = t

TablesInv ==
  /\ \A r \in settled : Authorized(r)
  /\ \A r \in settled : SingleUse(r) => consumed[Key(r)] = r
  /\ \A r \in settled : Budget(r) # NoBudget => charged[Key(r)] <= Budget(r)
  /\ \A r \in Receipts : published[r] \in {0, 1}
  /\ \A r \in Receipts : published[r] = 1 => r \in settled
  /\ \A r \in cache \cup processed : published[r] = 1

IndInv == TypeOK /\ CallsInv /\ OnePublisher /\ TablesInv
-----------------------------------------------------------------------------
LEMMA BodyFields ==
  ASSUME NEW r \in Receipts
  PROVE  /\ Body[r].requester \in Dids /\ Body[r].provider \in Dids
         /\ Body[r].job \in Deps /\ Body[r].attestation \in Deps
         /\ AuthOf(r) \in Deps
         /\ Body[r].price \in Nat
         /\ Body[r].proBono \in BOOLEAN /\ Body[r].authentic \in BOOLEAN
         /\ Key(r) \in Nonces
         /\ SingleUse(r) \in BOOLEAN
         /\ Budget(r) \in Nat \cup {NoBudget}
         /\ IsSelfLoop(r) \in BOOLEAN
<1>1. /\ Body[r].requester \in Dids /\ Body[r].provider \in Dids
      /\ Body[r].job \in Deps /\ Body[r].attestation \in Deps
      /\ Body[r].price \in Nat
      /\ Body[r].proBono \in BOOLEAN /\ Body[r].authentic \in BOOLEAN
  BY BodyAssumption
<1>2. AuthOf(r) \in Deps
  BY <1>1, DependencyAssumption DEF AuthOf
<1>3. Terms[AuthOf(r)].nonce \in Nonces /\ Terms[AuthOf(r)].budget \in Nat \cup {NoBudget}
  BY <1>2, DependencyAssumption
<1> QED BY <1>1, <1>2, <1>3 DEF Key, SingleUse, Budget, IsSelfLoop

(* A covered transfer and any refresh after it leave every balance a       *)
(* natural number or absent.                                               *)
LEMMA TransferTyped ==
  ASSUME TypeOK, NEW r \in Receipts, Covered(r),
         NEW due \in SUBSET {Body[r].requester, Body[r].provider}
  PROVE  Refreshed(AfterTransfer(r), due) \in [Dids -> Nat \cup {NoRow}]
<1> DEFINE share == TreasuryShare(Body[r].price, Policy, IsSelfLoop(r))
           q == Body[r].requester
           p == Body[r].provider
           x == Body[r].price
<1>1. share \in 0..x /\ x \in Nat /\ q \in Dids /\ p \in Dids
  BY ShareBounds, BodyFields, PolicyAssumption
<1>2. Policy.grant \in Nat /\ Policy.refresh \in Nat /\ Treasury \in Dids
  BY PolicyAssumption
<1> HIDE DEF share, x
<1> SUFFICES ASSUME NEW d \in Dids
             PROVE  AfterTransfer(r)[d] + (IF d \in due THEN Policy.refresh ELSE 0)
                      \in Nat \cup {NoRow}
  BY DEF Refreshed
<1>3. tokens[d] \in Nat \cup {-1}
  BY DEF TypeOK, NoRow
<1>4. WithGrants(r)[d] \in Nat \cup {-1}
  BY <1>2, <1>3 DEF WithGrants, Balance, NoRow
<1>5. d \in {q, p, Treasury} => WithGrants(r)[d] \in Nat
  BY <1>2, <1>3 DEF WithGrants, Balance, NoRow
<1>6. AfterTransfer(r)[d] = WithGrants(r)[d] + ((IF d = q THEN -x ELSE 0)
        + (IF d = p THEN x - share ELSE 0) + (IF d = Treasury THEN share ELSE 0))
  BY DEF AfterTransfer, ReceiptDelta, share, x
<1>7. d = q => AfterTransfer(r)[d] >= 0
  BY DEF Covered
<1>8. CASE d = q
  BY <1>1, <1>2, <1>5, <1>6, <1>7, <1>8
<1>9. CASE d # q
  BY <1>1, <1>2, <1>4, <1>5, <1>6, <1>9 DEF NoRow
<1> QED BY <1>8, <1>9
-----------------------------------------------------------------------------
(* The parts of the state that the outcomes of onReceipt change.           *)
PipelineTyped ==
  /\ cache \subseteq Receipts /\ rejected \subseteq Receipts
  /\ parked \in [Deps -> SUBSET Receipts]
  /\ retries \in [Receipts -> 0..(MaxRetries + 1)]
  /\ call \in [Slots -> Calls]
  /\ tokens \in [Dids -> Nat \cup {NoRow}]
  /\ processed \subseteq Receipts

LEMMA AwaitTyped ==
  ASSUME call \in [Slots -> Calls], NEW s \in Slots, NEW r \in Receipts,
         NEW stage \in Stages, NEW missed \in BOOLEAN, NEW ok \in BOOLEAN
  PROVE  Await(s, r, stage, missed, ok) \in [Slots -> Calls]
<1>1. call[s].todo \in SUBSET Receipts
  BY DEF Calls
<1>2. [receipt |-> r, at |-> stage, missed |-> missed, ok |-> ok,
       todo |-> call[s].todo] \in Calls
  BY <1>1 DEF Calls
<1> QED BY <1>2 DEF Await

LEMMA IdleTyped ==
  ASSUME NEW todo \in SUBSET Receipts
  PROVE  Idle(todo) \in Calls
BY DEF Idle, Calls, Stages

LEMMA DoneTyped ==
  ASSUME call \in [Slots -> Calls], NEW s \in Slots, NEW r
  PROVE  Done(s, r) \in [Slots -> Calls]
<1>1. call[s].todo \ {r} \in SUBSET Receipts
  BY DEF Calls
<1> QED BY <1>1, IdleTyped DEF Done

LEMMA ApplyReceiptTyped ==
  ASSUME TypeOK, NEW r \in Receipts, ApplyReceipt(r)
  PROVE  /\ tokens' \in [Dids -> Nat \cup {NoRow}]
         /\ processed' \subseteq Receipts
<1>1. CASE UNCHANGED <<tokens, processed>>
  BY <1>1 DEF TypeOK
<1>2. CASE /\ Covered(r)
           /\ processed' = processed \cup {r}
           /\ \E due \in SUBSET Refreshable(r) : tokens' = Refreshed(AfterTransfer(r), due)
  <2>1. PICK due \in SUBSET Refreshable(r) : tokens' = Refreshed(AfterTransfer(r), due)
    BY <1>2
  <2>2. due \in SUBSET {Body[r].requester, Body[r].provider}
    BY DEF Refreshable
  <2>3. tokens' \in [Dids -> Nat \cup {NoRow}]
    BY <1>2, <2>1, <2>2, TransferTyped
  <2> QED BY <1>2, <2>3 DEF TypeOK
<1>3. CASE tokens' = WithGrants(r) /\ UNCHANGED processed
  <2>1. Policy.grant \in Nat
    BY PolicyAssumption
  <2>2. WithGrants(r) \in [Dids -> Nat \cup {NoRow}]
    BY <2>1 DEF WithGrants, Balance, TypeOK, NoRow
  <2> QED BY <1>3, <2>2 DEF TypeOK
<1> QED BY <1>1, <1>2, <1>3 DEF ApplyReceipt

LEMMA SucceedTyped ==
  ASSUME TypeOK, NEW s \in Slots, NEW r \in Receipts, Succeed(s, r),
         cache' \subseteq Receipts
  PROVE  PipelineTyped'
<1>1. retries' \in [Receipts -> 0..(MaxRetries + 1)]
  BY BoundAssumption DEF Succeed, TypeOK
<1>2. call' \in [Slots -> Calls]
  BY DoneTyped DEF Succeed, TypeOK
<1>3. tokens' \in [Dids -> Nat \cup {NoRow}] /\ processed' \subseteq Receipts
  BY ApplyReceiptTyped DEF Succeed
<1> QED BY <1>1, <1>2, <1>3 DEF Succeed, TypeOK, PipelineTyped

LEMMA RejectTyped ==
  ASSUME TypeOK, NEW s \in Slots, NEW r \in Receipts, Reject(s, r)
  PROVE  PipelineTyped'
<1>1. retries' \in [Receipts -> 0..(MaxRetries + 1)]
  BY BoundAssumption DEF Reject, TypeOK
<1>2. call' \in [Slots -> Calls]
  BY DoneTyped DEF Reject, TypeOK
<1> QED BY <1>1, <1>2 DEF Reject, TypeOK, PipelineTyped

LEMMA ResolveFailedTyped ==
  ASSUME TypeOK, NEW s \in Slots, NEW r \in Receipts, NEW uri \in Deps,
         ResolveFailed(s, r, uri)
  PROVE  PipelineTyped'
<1>1. (IF retries[r] > MaxRetries THEN retries[r] ELSE retries[r] + 1) \in 0..(MaxRetries + 1)
  BY BoundAssumption DEF TypeOK
<1>2. retries' \in [Receipts -> 0..(MaxRetries + 1)]
  BY <1>1 DEF ResolveFailed, TypeOK
<1>3. parked' \in [Deps -> SUBSET Receipts]
  BY DEF ResolveFailed, TypeOK
<1>4. call' \in [Slots -> Calls]
  BY DoneTyped DEF ResolveFailed, TypeOK
<1> QED BY <1>2, <1>3, <1>4 DEF ResolveFailed, TypeOK, PipelineTyped

LEMMA EnterTyped ==
  ASSUME TypeOK, NEW s \in Slots, NEW r \in Receipts, Enter(s, r)
  PROVE  PipelineTyped'
<1>1. CASE Succeed(s, r) /\ UNCHANGED cache
  BY <1>1, SucceedTyped DEF TypeOK
<1>2. CASE Reject(s, r)
  BY <1>2, RejectTyped
<1>3. CASE /\ call' = Await(s, r, "job", Body[r].job \notin indexed, FALSE)
           /\ UNCHANGED <<memory, tokens, processed>>
  <2>1. (Body[r].job \notin indexed) \in BOOLEAN
    OBVIOUS
  <2>2. Await(s, r, "job", Body[r].job \notin indexed, FALSE) \in [Slots -> Calls]
    BY <2>1, AwaitTyped, Zenon DEF TypeOK, Stages
  <2> QED BY <1>3, <2>2 DEF TypeOK, PipelineTyped, memory
<1> QED BY <1>1, <1>2, <1>3 DEF Enter
-----------------------------------------------------------------------------
LEMMA TypeInit == Init => TypeOK
<1> SUFFICES ASSUME Init PROVE TypeOK
  OBVIOUS
<1>1. call \in [Slots -> Calls]
  BY IdleTyped DEF Init
<1>2. tokens \in [Dids -> Nat \cup {NoRow}]
  BY DEF Init
<1> QED BY <1>1, <1>2, BoundAssumption DEF Init, TypeOK

(* What a call that is not idle looks up, and on whose behalf.             *)
LEMMA TargetTyped ==
  ASSUME NEW r \in Receipts, NEW stage
  PROVE  Target(r, stage) \in Deps
BY BodyFields DEF Target

LEMMA VerdictBoolean ==
  ASSUME NEW r
  PROVE  VerifyForCharge(r) \in BOOLEAN
BY Zenon DEF VerifyForCharge

(* Type correctness is inductive once a call that is not idle is known to  *)
(* have a receipt.                                                         *)
LEMMA TypeStep ==
  ASSUME TypeOK, CallsInv, [Next]_vars
  PROVE  TypeOK'
<1> USE DEF Slots, Passes
<1>1. \A s \in Slots : call[s].at # "idle" => call[s].receipt \in Receipts
  BY DEF CallsInv, CallInv
<1>a. ASSUME NEW u \in Uris, Publish(u) PROVE TypeOK'
  BY <1>a DEF Publish, TypeOK, durable, memory, bounds
<1>b. ASSUME NEW a \in Authorizations, Expire(a) PROVE TypeOK'
  <2>1. a \in Deps
    BY BodyFields DEF Authorizations
  <2> QED BY <1>b, <2>1 DEF Expire, TypeOK, index, durable, memory, bounds
<1>c. ASSUME NEW r \in Receipts, DeliverSettlement(r) PROVE TypeOK'
  BY <1>c DEF DeliverSettlement, TypeOK, index, memory, bounds
<1>d. ASSUME NEW s \in Handlers, NEW r \in Receipts, DeliverReceipt(s, r) PROVE TypeOK'
  <2>1. PipelineTyped'
    BY <1>d, EnterTyped DEF DeliverReceipt
  <2> QED BY <1>d, <2>1 DEF DeliverReceipt, TypeOK, PipelineTyped, Uris, bounds
<1>e. ASSUME NEW s \in Handlers, NEW d \in Deps, DeliverDependency(s, d) PROVE TypeOK'
  <2>1. call' \in [Slots -> Calls]
    BY <1>e, IdleTyped DEF DeliverDependency, TypeOK
  <2>2. parked' \in [Deps -> SUBSET Receipts]
    BY <1>e DEF DeliverDependency, TypeOK
  <2> QED BY <1>e, <2>1, <2>2 DEF DeliverDependency, TypeOK, Uris, durable, bounds
<1>f. ASSUME NEW s \in Slots, NEW r \in Receipts, NextReceipt(s, r) PROVE TypeOK'
  <2>1. PipelineTyped'
    <3>1. CASE call' = Done(s, r) /\ UNCHANGED <<memory, tokens, processed>>
      BY <3>1, DoneTyped DEF TypeOK, PipelineTyped, memory
    <3>2. CASE Enter(s, r)
      BY <3>2, EnterTyped
    <3> QED BY <1>f, <3>1, <3>2 DEF NextReceipt
  <2> QED BY <1>f, <2>1 DEF NextReceipt, TypeOK, PipelineTyped, index, bounds
<1>g. ASSUME NEW s \in Slots, StartReconcile(s) PROVE TypeOK'
  <2>1. Unsettled(BatchSize) \in SUBSET Receipts
    BY DEF Unsettled
  <2>2. call' \in [Slots -> Calls]
    BY <1>g, <2>1, IdleTyped DEF StartReconcile, TypeOK
  <2> QED BY <1>g, <2>2 DEF StartReconcile, TypeOK, index, durable, memory, bounds
<1>h. ASSUME NEW s \in Slots, StartBackfill(s) PROVE TypeOK'
  <2>1. Unsettled(Cardinality(Receipts)) \in SUBSET Receipts
    BY DEF Unsettled
  <2>2. call' \in [Slots -> Calls]
    BY <1>h, <2>1, IdleTyped DEF StartBackfill, TypeOK
  <2> QED BY <1>h, <2>2 DEF StartBackfill, TypeOK, index, durable, bounds
<1>i. ASSUME NEW s \in Slots, ResolveHit(s) PROVE TypeOK'
  <2> DEFINE r == call[s].receipt
  <2>1. r \in Receipts
    BY <1>i, <1>1 DEF ResolveHit, Lookups
  <2>2. Target(r, call[s].at) \in Deps
    BY <2>1, TargetTyped
  <2>3. ASSUME NEW stage \in Stages, NEW missed \in BOOLEAN, NEW ok \in BOOLEAN,
               call' = Await(s, r, stage, missed, ok), UNCHANGED <<memory, tokens, processed>>
        PROVE  PipelineTyped'
    BY <2>1, <2>3, AwaitTyped DEF TypeOK, PipelineTyped, memory
  <2>4. PipelineTyped'
    <3>1. CASE /\ call' = Await(s, r, "auth", AuthOf(r) \notin indexed', FALSE)
               /\ UNCHANGED <<memory, tokens, processed>>
      <4>1. "auth" \in Stages /\ (AuthOf(r) \notin indexed') \in BOOLEAN /\ FALSE \in BOOLEAN
        BY DEF Stages
      <4> QED BY <3>1, <4>1, <2>3, Zenon
    <3>2. CASE /\ call' = Await(s, r, "attestation", Body[r].attestation \notin indexed', FALSE)
               /\ UNCHANGED <<memory, tokens, processed>>
      <4>1. "attestation" \in Stages /\ (Body[r].attestation \notin indexed') \in BOOLEAN
            /\ FALSE \in BOOLEAN
        BY DEF Stages
      <4> QED BY <3>2, <4>1, <2>3, Zenon
    <3>3. CASE /\ call' = Await(s, r, "verify", FALSE, VerifyForCharge(r))
               /\ UNCHANGED <<memory, tokens, processed>>
      <4>1. "verify" \in Stages /\ VerifyForCharge(r) \in BOOLEAN /\ FALSE \in BOOLEAN
        BY VerdictBoolean DEF Stages
      <4> QED BY <3>3, <4>1, <2>3, Zenon
    <3>4. CASE Reject(s, r)
      BY <3>4, <2>1, RejectTyped
    <3> QED BY <1>i, <3>1, <3>2, <3>3, <3>4 DEF ResolveHit
  <2> QED BY <1>i, <2>2, <2>4 DEF ResolveHit, TypeOK, PipelineTyped, Uris, bounds
<1>j. ASSUME NEW s \in Slots, ResolveMiss(s) PROVE TypeOK'
  <2>1. call[s].receipt \in Receipts
    BY <1>j, <1>1 DEF ResolveMiss, Lookups
  <2>2. PipelineTyped'
    BY <1>j, <2>1, TargetTyped, ResolveFailedTyped DEF ResolveMiss
  <2> QED BY <1>j, <2>2 DEF ResolveMiss, TypeOK, PipelineTyped, index, bounds
<1>k. ASSUME NEW s \in Slots, Consume(s) PROVE TypeOK'
  <2> DEFINE r == call[s].receipt
  <2>1. r \in Receipts
    BY <1>k, <1>1 DEF Consume
  <2>2. CASE Reject(s, r) /\ UNCHANGED <<settled, consumed, charged>>
    <3>1. PipelineTyped'
      BY <2>1, <2>2, RejectTyped
    <3> QED BY <1>k, <2>2, <3>1 DEF Consume, TypeOK, PipelineTyped, index, bounds
  <2>3. CASE Succeed(s, r) /\ UNCHANGED <<cache, settled, consumed, charged>>
    <3>1. PipelineTyped'
      BY <2>1, <2>3, SucceedTyped DEF TypeOK
    <3> QED BY <1>k, <2>3, <3>1 DEF Consume, TypeOK, PipelineTyped, index, bounds
  <2>4. CASE /\ settled' = settled \cup {r}
             /\ consumed' = IF SingleUse(r) THEN [consumed EXCEPT ![Key(r)] = r] ELSE consumed
             /\ charged' = [charged EXCEPT ![Key(r)] = @ + Body[r].price]
             /\ call' = Await(s, r, "publish", FALSE, FALSE)
             /\ UNCHANGED <<memory, tokens, processed>>
    <3>1. call' \in [Slots -> Calls]
      BY <2>1, <2>4, AwaitTyped DEF TypeOK, Stages
    <3>2. consumed' \in [Nonces -> Receipts \cup {NoReceipt}]
      BY <2>1, <2>4 DEF TypeOK
    <3>3. charged' \in [Nonces -> Nat]
      <4>1. Body[r].price \in Nat /\ Key(r) \in Nonces /\ charged \in [Nonces -> Nat]
        BY <2>1, BodyFields DEF TypeOK
      <4> DEFINE total == charged[Key(r)] + Body[r].price
      <4>2. total \in Nat
        BY <4>1
      <4>3. charged' = [charged EXCEPT ![Key(r)] = total]
        BY <2>4
      <4> HIDE DEF total
      <4> QED BY <4>1, <4>2, <4>3
    <3>4. settled' \subseteq Receipts
      BY <2>1, <2>4 DEF TypeOK
    <3> QED BY <1>k, <2>4, <3>1, <3>2, <3>3, <3>4 DEF Consume, TypeOK, memory, index, bounds
  <2> QED BY <1>k, <2>2, <2>3, <2>4 DEF Consume
<1>l. ASSUME NEW s \in Slots, PublishLands(s) PROVE TypeOK'
  <2>1. call[s].receipt \in Receipts
    BY <1>l, <1>1 DEF PublishLands
  <2>2. call' \in [Slots -> Calls]
    BY <1>l, <2>1, AwaitTyped DEF PublishLands, TypeOK, Stages
  <2>3. published' \in [Receipts -> Nat]
    BY <1>l, <2>1 DEF PublishLands, TypeOK
  <2> QED BY <1>l, <2>2, <2>3 DEF PublishLands, TypeOK, memory, index, bounds
<1>m. ASSUME NEW s \in Slots, PublishReturns(s) PROVE TypeOK'
  <2>1. call[s].receipt \in Receipts
    BY <1>m, <1>1 DEF PublishReturns
  <2>2. call' \in [Slots -> Calls]
    BY <1>m, <2>1, AwaitTyped DEF PublishReturns, TypeOK, Stages
  <2> QED BY <1>m, <2>1, <2>2 DEF PublishReturns, TypeOK, memory, index, bounds
<1>n. ASSUME NEW s \in Slots, PublishFails(s) PROVE TypeOK'
  <2>1. call' \in [Slots -> Calls]
    BY <1>n, DoneTyped DEF PublishFails, TypeOK
  <2>2. faults' \in 0..MaxFaults
    BY <1>n, BoundAssumption DEF PublishFails, TypeOK
  <2> QED BY <1>n, <2>1, <2>2 DEF PublishFails, TypeOK, memory, index, durable
<1>o. ASSUME NEW s \in Slots, Settle(s) PROVE TypeOK'
  <2>1. call[s].receipt \in Receipts
    BY <1>o, <1>1 DEF Settle
  <2>2. cache' \subseteq Receipts
    BY <1>o, <2>1 DEF Settle, TypeOK
  <2>3. PipelineTyped'
    BY <1>o, <2>1, <2>2, SucceedTyped DEF Settle
  <2> QED BY <1>o, <2>2, <2>3 DEF Settle, TypeOK, PipelineTyped, index, bounds
<1>p. ASSUME Crash PROVE TypeOK'
  <2>1. call' \in [Slots -> Calls]
    BY <1>p, IdleTyped DEF Crash
  <2>2. crashes' \in 0..MaxCrashes
    BY <1>p, BoundAssumption DEF Crash, TypeOK
  <2> QED BY <1>p, <2>1, <2>2, BoundAssumption DEF Crash, TypeOK, index, durable
<1>q. CASE UNCHANGED vars
  BY <1>q DEF vars, TypeOK, index, durable, memory, bounds
<1>r. ASSUME NEW s \in Slots, Step(s) PROVE TypeOK'
  BY <1>r, <1>f, <1>i, <1>j, <1>k, <1>l, <1>m, <1>n, <1>o DEF Step
<1> QED BY <1>a, <1>b, <1>c, <1>d, <1>e, <1>g, <1>h, <1>p, <1>q, <1>r DEF Next
-----------------------------------------------------------------------------
(* A slot whose call does not carry a publication disturbs no other slot.  *)
LEMMA QuietCall ==
  ASSUME IndInv, NEW s \in Slots, NEW c, CallInv(c), c.at \notin InFlight,
         call' = [call EXCEPT ![s] = c], UNCHANGED <<published, settled>>
  PROVE  CallsInv' /\ OnePublisher'
<1>1. call'[s] = c /\ \A t \in Slots : t # s => call'[t] = call[t]
  BY DEF IndInv, TypeOK
<1>2. ASSUME NEW t \in Slots PROVE CallInv(call[t])'
  <2>1. CASE t = s
    BY <1>1, <2>1 DEF CallInv
  <2>2. CASE t # s
    BY <1>1, <2>2 DEF CallInv, CallsInv, IndInv
  <2> QED BY <2>1, <2>2
<1>3. OnePublisher'
  BY <1>1 DEF OnePublisher, IndInv
<1> QED BY <1>2, <1>3 DEF CallsInv

LEMMA IdleCall == \A todo : CallInv(Idle(todo)) /\ Idle(todo).at \notin InFlight
BY DEF CallInv, Idle, InFlight

LEMMA DoneCall ==
  ASSUME IndInv, NEW s \in Slots, NEW r, call' = Done(s, r), UNCHANGED <<published, settled>>
  PROVE  CallsInv' /\ OnePublisher'
<1>1. PICK c : c = Idle(call[s].todo \ {r})
  OBVIOUS
<1>2. CallInv(c) /\ c.at \notin InFlight
  BY <1>1, IdleCall
<1>3. call' = [call EXCEPT ![s] = c]
  BY <1>1 DEF Done
<1> QED BY <1>2, <1>3, QuietCall

(* The tables, when only what is in memory and the ledger change.          *)
LEMMA TablesFrame ==
  ASSUME TablesInv, UNCHANGED <<published, settled, consumed, charged>>,
         \A r \in cache' \cup processed' : published[r] = 1
  PROVE  TablesInv'
BY DEF TablesInv

(* Tokens move for the receipt of the call and no other.                   *)
LEMMA SucceedMoves ==
  ASSUME NEW s, NEW r, Succeed(s, r)
  PROVE  processed' \subseteq processed \cup {r} /\ call' = Done(s, r)
BY DEF Succeed, ApplyReceipt

LEMMA SucceedInv ==
  ASSUME IndInv, NEW s \in Slots, NEW r \in Receipts, Succeed(s, r), published[r] = 1,
         cache' \subseteq cache \cup {r},
         UNCHANGED <<published, settled, consumed, charged>>
  PROVE  CallsInv' /\ OnePublisher' /\ TablesInv'
<1>1. CallsInv' /\ OnePublisher'
  BY SucceedMoves, DoneCall
<1>2. \A q \in cache' \cup processed' : published[q] = 1
  BY SucceedMoves DEF IndInv, TablesInv
<1> QED BY <1>1, <1>2, TablesFrame DEF IndInv

LEMMA RefusedInv ==
  ASSUME IndInv, NEW s \in Slots, NEW r \in Receipts, NEW uri,
         Reject(s, r) \/ ResolveFailed(s, r, uri),
         UNCHANGED <<published, settled, consumed, charged>>
  PROVE  CallsInv' /\ OnePublisher' /\ TablesInv'
<1>1. call' = Done(s, r) /\ UNCHANGED <<cache, processed>>
  BY DEF Reject, ResolveFailed
<1>2. CallsInv' /\ OnePublisher'
  BY <1>1, DoneCall
<1>3. \A q \in cache' \cup processed' : published[q] = 1
  BY <1>1 DEF IndInv, TablesInv
<1> QED BY <1>2, <1>3, TablesFrame DEF IndInv

LEMMA AwaitInv ==
  ASSUME IndInv, NEW s \in Slots, NEW r \in Receipts, NEW stage, NEW missed, NEW ok,
         call' = Await(s, r, stage, missed, ok), stage \notin InFlight,
         CallInv([receipt |-> r, at |-> stage, missed |-> missed, ok |-> ok,
                  todo |-> call[s].todo]),
         UNCHANGED <<cache, processed, published, settled, consumed, charged>>
  PROVE  CallsInv' /\ OnePublisher' /\ TablesInv'
<1>1. PICK c : c = [receipt |-> r, at |-> stage, missed |-> missed, ok |-> ok,
                    todo |-> call[s].todo]
  OBVIOUS
<1>2. call' = [call EXCEPT ![s] = c] /\ c.at \notin InFlight /\ CallInv(c)
  BY <1>1 DEF Await
<1>3. CallsInv' /\ OnePublisher'
  BY <1>2, QuietCall
<1>4. \A q \in cache' \cup processed' : published[q] = 1
  BY DEF IndInv, TablesInv
<1> QED BY <1>3, <1>4, TablesFrame DEF IndInv

LEMMA EnterInv ==
  ASSUME IndInv, NEW s \in Slots, NEW r \in Receipts, Enter(s, r),
         UNCHANGED <<published, settled, consumed, charged>>
  PROVE  CallsInv' /\ OnePublisher' /\ TablesInv'
<1>1. CASE r \in cache /\ Succeed(s, r) /\ UNCHANGED cache
  <2>1. published[r] = 1
    BY <1>1 DEF IndInv, TablesInv
  <2> QED BY <1>1, <2>1, SucceedInv
<1>2. CASE Reject(s, r)
  BY <1>2, RefusedInv
<1>3. CASE /\ call' = Await(s, r, "job", Body[r].job \notin indexed, FALSE)
           /\ UNCHANGED <<memory, tokens, processed>>
  <2>1. CallInv([receipt |-> r, at |-> "job", missed |-> (Body[r].job \notin indexed),
                 ok |-> FALSE, todo |-> call[s].todo])
    BY DEF CallInv, InFlight
  <2>2. "job" \notin InFlight
    BY DEF InFlight
  <2> QED BY <1>3, <2>1, <2>2, AwaitInv DEF memory
<1> QED BY <1>1, <1>2, <1>3 DEF Enter
-----------------------------------------------------------------------------
(* A call that carries a publication moves on to the next await.           *)
LEMMA PublicationCall ==
  ASSUME IndInv, NEW s \in Slots, NEW r \in Receipts, NEW stage,
         call' = Await(s, r, stage, FALSE, FALSE),
         \A t \in Slots : t # s /\ call[t].at \in InFlight => call[t].receipt # r,
         \A q \in Receipts : q # r => published'[q] = published[q],
         settled \subseteq settled',
         stage \in InFlight, r \in settled',
         published'[r] = IF stage = "publish" THEN 0 ELSE 1
  PROVE  CallsInv' /\ OnePublisher'
<1>1. /\ call'[s].at = stage /\ call'[s].receipt = r
      /\ \A t \in Slots : t # s => call'[t] = call[t]
  BY DEF IndInv, TypeOK, Await
<1>2. ASSUME NEW t \in Slots PROVE CallInv(call[t])'
  <2>1. CASE t = s
    BY <1>1, <2>1 DEF CallInv, InFlight
  <2>2. CASE t # s
    <3>1. CallInv(call[t])
      BY DEF IndInv, CallsInv
    <3> QED BY <1>1, <2>2, <3>1 DEF CallInv, InFlight
  <2> QED BY <2>1, <2>2
<1>3. CallsInv'
  BY <1>2 DEF CallsInv
<1>4. OnePublisher'
  <2> SUFFICES ASSUME NEW t \in Slots, NEW u \in Slots, call'[t].at \in InFlight,
                      call'[u].at \in InFlight, call'[t].receipt = call'[u].receipt
               PROVE  t = u
    BY DEF OnePublisher
  <2>1. CASE t # s /\ u # s
    BY <1>1, <2>1 DEF OnePublisher, IndInv
  <2>2. CASE t = s
    BY <1>1, <2>2
  <2>3. CASE u = s
    BY <1>1, <2>3
  <2> QED BY <2>1, <2>2, <2>3
<1> QED BY <1>3, <1>4

(* Among the receipts of one authorization the accrued charge stays within *)
(* the budget: they all state the same one.                                *)
LEMMA SameBudget ==
  ASSUME NEW r \in Receipts, NEW q \in Receipts, Key(r) = Key(q)
  PROVE  Budget(r) = Budget(q)
BY BodyFields, NonceAssumption DEF Key, Budget

(* The one step that charges: consume's transaction.                       *)
LEMMA ChargeInv ==
  ASSUME IndInv, NEW s \in Slots, NEW r \in Receipts, call[s].receipt = r,
         call[s].at = "verify", call[s].ok, r \notin settled, Chargeable(r),
         settled' = settled \cup {r},
         consumed' = IF SingleUse(r) THEN [consumed EXCEPT ![Key(r)] = r] ELSE consumed,
         charged' = [charged EXCEPT ![Key(r)] = @ + Body[r].price],
         call' = Await(s, r, "publish", FALSE, FALSE),
         UNCHANGED <<memory, tokens, processed, published>>
  PROVE  CallsInv' /\ OnePublisher' /\ TablesInv'
<1>1. Authorized(r)
  BY DEF IndInv, CallsInv, CallInv
<1>2. published[r] = 0
  BY DEF IndInv, TablesInv
<1>3. \A t \in Slots : call[t].at \in InFlight => call[t].receipt # r
  BY DEF IndInv, CallsInv, CallInv
<1>4. CallsInv' /\ OnePublisher'
  <2>1. "publish" \in InFlight
    BY DEF InFlight
  <2> QED BY <1>2, <1>3, <2>1, PublicationCall
<1>5. \A q \in settled' : SingleUse(q) => consumed'[Key(q)] = q
  <2>1. Key(r) \in Nonces /\ consumed \in [Nonces -> Receipts \cup {NoReceipt}]
    BY BodyFields DEF IndInv, TypeOK
  <2> SUFFICES ASSUME NEW q \in settled', SingleUse(q) PROVE consumed'[Key(q)] = q
    OBVIOUS
  <2>2. CASE q = r
    BY <2>1, <2>2
  <2>3. CASE q # r
    <3>1. q \in settled /\ consumed[Key(q)] = q /\ q # NoReceipt
      BY <2>3, NullAssumption DEF IndInv, TablesInv, TypeOK
    <3>2. SingleUse(r) => Key(q) # Key(r)
      BY <2>3, <3>1 DEF Chargeable, AuthorizationConsumed
    <3> QED BY <2>1, <3>1, <3>2
  <2> QED BY <2>2, <2>3
<1>6. \A q \in settled' : Budget(q) # NoBudget => charged'[Key(q)] <= Budget(q)
  <2>1. Key(r) \in Nonces /\ charged \in [Nonces -> Nat]
    BY BodyFields DEF IndInv, TypeOK
  <2>2. charged'[Key(r)] = charged[Key(r)] + Body[r].price
    BY <2>1
  <2>3. Budget(r) # NoBudget => charged'[Key(r)] <= Budget(r)
    <3>1. ASSUME Budget(r) # NoBudget PROVE charged'[Key(r)] <= Budget(r)
      <4>1. ~(charged[Key(r)] + Body[r].price > Budget(r))
        BY <3>1 DEF Chargeable, BudgetExceeded
      <4>2. Budget(r) \in Nat /\ Body[r].price \in Nat /\ charged[Key(r)] \in Nat
        BY <3>1, <2>1, BodyFields
      <4> QED BY <4>1, <4>2, <2>2
    <3> QED BY <3>1
  <2> SUFFICES ASSUME NEW q \in settled', Budget(q) # NoBudget
               PROVE  charged'[Key(q)] <= Budget(q)
    OBVIOUS
  <2>4. q \in Receipts
    BY DEF IndInv, TypeOK
  <2>5. CASE Key(q) = Key(r)
    BY <2>3, <2>4, <2>5, SameBudget
  <2>6. CASE Key(q) # Key(r)
    <3>1. q \in settled /\ charged'[Key(q)] = charged[Key(q)]
      BY <2>1, <2>6, <2>4, BodyFields
    <3> QED BY <3>1 DEF IndInv, TablesInv
  <2> QED BY <2>5, <2>6
<1>7. /\ \A q \in Receipts : published'[q] \in {0, 1}
      /\ \A q \in Receipts : published'[q] = 1 => q \in settled'
      /\ \A q \in cache' \cup processed' : published'[q] = 1
  BY DEF IndInv, TablesInv, memory
<1>8. \A q \in settled' : Authorized(q)
  BY <1>1 DEF IndInv, TablesInv
<1> QED BY <1>4, <1>5, <1>6, <1>7, <1>8 DEF TablesInv

LEMMA ResolveHitInv ==
  ASSUME IndInv, NEW s \in Slots, ResolveHit(s)
  PROVE  CallsInv' /\ OnePublisher' /\ TablesInv'
<1> DEFINE r == call[s].receipt
<1>1. r \in Receipts /\ CallInv(call[s])
  BY DEF ResolveHit, Lookups, IndInv, CallsInv, CallInv
<1>2. UNCHANGED <<published, settled, consumed, charged>>
  BY DEF ResolveHit
<1>3. CASE /\ call[s].at = "job"
           /\ call' = Await(s, r, "auth", AuthOf(r) \notin indexed', FALSE)
           /\ UNCHANGED <<memory, tokens, processed>>
  <2>1. PICK missed : missed = (AuthOf(r) \notin indexed')
    OBVIOUS
  <2>2. CallInv([receipt |-> r, at |-> "auth", missed |-> missed,
                 ok |-> FALSE, todo |-> call[s].todo]) /\ "auth" \notin InFlight
    BY <1>1 DEF CallInv, InFlight
  <2> QED BY <1>1, <1>2, <1>3, <2>1, <2>2, AwaitInv DEF memory
<1>4. CASE /\ call[s].at = "auth" /\ Owner[Target(r, call[s].at)] = Body[r].requester
           /\ call' = Await(s, r, "attestation", Body[r].attestation \notin indexed', FALSE)
           /\ UNCHANGED <<memory, tokens, processed>>
  <2>1. PICK missed : missed = (Body[r].attestation \notin indexed')
    OBVIOUS
  <2>2. Owner[AuthOf(r)] = Body[r].requester
    BY <1>4 DEF Target
  <2>3. CallInv([receipt |-> r, at |-> "attestation", missed |-> missed,
                 ok |-> FALSE, todo |-> call[s].todo]) /\ "attestation" \notin InFlight
    BY <1>1, <2>2 DEF CallInv, InFlight
  <2> QED BY <1>1, <1>2, <1>4, <2>1, <2>3, AwaitInv DEF memory
<1>5. CASE /\ call[s].at = "attestation" /\ Owner[Target(r, call[s].at)] = Body[r].provider
           /\ call' = Await(s, r, "verify", FALSE, VerifyForCharge(r))
           /\ UNCHANGED <<memory, tokens, processed>>
  <2>1. PICK ok : ok = VerifyForCharge(r)
    OBVIOUS
  <2>2. /\ Owner[AuthOf(r)] = Body[r].requester
        /\ Owner[Body[r].attestation] = Body[r].provider
    BY <1>1, <1>5 DEF CallInv, Target
  <2>3. VerifyForCharge(r) => Authorized(r)
    BY <2>2, Zenon DEF VerifyForCharge, Authorized
  <2>4. CallInv([receipt |-> r, at |-> "verify", missed |-> FALSE,
                 ok |-> ok, todo |-> call[s].todo]) /\ "verify" \notin InFlight
    BY <1>1, <2>1, <2>2, <2>3 DEF CallInv, InFlight
  <2> QED BY <1>1, <1>2, <1>5, <2>1, <2>4, AwaitInv DEF memory
<1>6. CASE Reject(s, r)
  BY <1>1, <1>2, <1>6, RefusedInv
<1> QED BY <1>3, <1>4, <1>5, <1>6 DEF ResolveHit
-----------------------------------------------------------------------------
LEMMA IndInit == Init => IndInv
<1> SUFFICES ASSUME Init PROVE IndInv
  OBVIOUS
<1>1. TypeOK
  BY TypeInit
<1>2. CallsInv
  BY IdleCall DEF Init, CallsInv
<1>3. OnePublisher
  BY DEF Init, OnePublisher, Idle, InFlight
<1>4. TablesInv
  BY DEF Init, TablesInv
<1> QED BY <1>1, <1>2, <1>3, <1>4 DEF IndInv

(* A step that starts, or moves, no call leaves the invariant alone.       *)
LEMMA WorldInv ==
  ASSUME IndInv,
         UNCHANGED <<published, settled, consumed, charged, processed, cache, call>>
  PROVE  CallsInv' /\ OnePublisher' /\ TablesInv'
<1>1. CallsInv'
  <2> SUFFICES ASSUME NEW s \in Slots PROVE CallInv(call[s])'
    BY DEF CallsInv
  <2>1. CallInv(call[s])
    BY DEF IndInv, CallsInv
  <2> QED BY <2>1 DEF CallInv
<1>2. OnePublisher'
  BY DEF IndInv, OnePublisher
<1>3. TablesInv'
  BY DEF IndInv, TablesInv
<1> QED BY <1>1, <1>2, <1>3

(* A slot that is given receipts to work through.                          *)
LEMMA IdleInv ==
  ASSUME IndInv, NEW s \in Slots, NEW todo, call' = [call EXCEPT ![s] = Idle(todo)],
         UNCHANGED <<published, settled, consumed, charged, processed, cache>>
  PROVE  CallsInv' /\ OnePublisher' /\ TablesInv'
<1>1. PICK c : c = Idle(todo)
  OBVIOUS
<1>2. CallInv(c) /\ c.at \notin InFlight
  BY <1>1, IdleCall
<1>3. CallsInv' /\ OnePublisher'
  BY <1>1, <1>2, QuietCall
<1>4. TablesInv'
  BY TablesFrame DEF IndInv, TablesInv
<1> QED BY <1>3, <1>4

LEMMA IndStep ==
  ASSUME IndInv, [Next]_vars
  PROVE  IndInv'
<1> USE DEF Slots, Passes
<1> DEFINE Others == CallsInv' /\ OnePublisher' /\ TablesInv'
<1>0. \A s \in Slots : CallInv(call[s]) /\ (call[s].at # "idle" => call[s].receipt \in Receipts)
  BY DEF IndInv, CallsInv, CallInv
<1>1. TypeOK'
  BY TypeStep DEF IndInv
<1>a. ASSUME NEW u \in Uris, Publish(u) PROVE Others
  BY <1>a, WorldInv DEF Publish, durable, memory
<1>b. ASSUME NEW a \in Authorizations, Expire(a) PROVE Others
  BY <1>b, WorldInv DEF Expire, durable, memory
<1>c. ASSUME NEW r \in Receipts, DeliverSettlement(r) PROVE Others
  BY <1>c, WorldInv DEF DeliverSettlement, memory
<1>d. ASSUME NEW s \in Handlers, NEW r \in Receipts, DeliverReceipt(s, r) PROVE Others
  BY <1>d, EnterInv DEF DeliverReceipt
<1>e. ASSUME NEW s \in Handlers, NEW d \in Deps, DeliverDependency(s, d) PROVE Others
  <2>1. PICK todo : todo = parked[d]
    OBVIOUS
  <2> QED BY <1>e, <2>1, IdleInv DEF DeliverDependency, durable
<1>f. ASSUME NEW s \in Slots, NEW r \in Receipts, NextReceipt(s, r) PROVE Others
  <2>1. UNCHANGED <<published, settled, consumed, charged>>
    BY <1>f DEF NextReceipt
  <2>2. CASE call' = Done(s, r) /\ UNCHANGED <<memory, tokens, processed>>
    <3>1. PICK todo : todo = call[s].todo \ {r}
      OBVIOUS
    <3> QED BY <2>1, <2>2, <3>1, IdleInv DEF Done, memory
  <2>3. CASE Enter(s, r)
    BY <2>1, <2>3, EnterInv
  <2> QED BY <1>f, <2>2, <2>3 DEF NextReceipt
<1>g. ASSUME NEW s \in Slots, StartReconcile(s) PROVE Others
  <2>1. PICK todo : todo = Unsettled(BatchSize)
    OBVIOUS
  <2> QED BY <1>g, <2>1, IdleInv DEF StartReconcile, durable, memory
<1>h. ASSUME NEW s \in Slots, StartBackfill(s) PROVE Others
  <2>1. PICK todo : todo = Unsettled(Cardinality(Receipts))
    OBVIOUS
  <2> QED BY <1>h, <2>1, IdleInv DEF StartBackfill, durable
<1>i. ASSUME NEW s \in Slots, ResolveHit(s) PROVE Others
  BY <1>i, ResolveHitInv
<1>j. ASSUME NEW s \in Slots, ResolveMiss(s) PROVE Others
  <2>1. call[s].receipt \in Receipts
    BY <1>j, <1>0 DEF ResolveMiss, Lookups
  <2> QED BY <1>j, <2>1, RefusedInv DEF ResolveMiss
<1>k. ASSUME NEW s \in Slots, Consume(s) PROVE Others
  <2> DEFINE r == call[s].receipt
  <2>1. r \in Receipts /\ UNCHANGED published
    BY <1>k, <1>0 DEF Consume
  <2>2. CASE Reject(s, r) /\ UNCHANGED <<settled, consumed, charged>>
    BY <2>1, <2>2, RefusedInv
  <2>3. CASE r \in cache /\ Succeed(s, r) /\ UNCHANGED <<cache, settled, consumed, charged>>
    <3>1. published[r] = 1
      BY <2>3 DEF IndInv, TablesInv
    <3> QED BY <2>1, <2>3, <3>1, SucceedInv
  <2>4. CASE /\ call[s].at = "verify" /\ call[s].ok /\ ~IsReceiptSettled(r) /\ Chargeable(r)
             /\ settled' = settled \cup {r}
             /\ consumed' = IF SingleUse(r) THEN [consumed EXCEPT ![Key(r)] = r] ELSE consumed
             /\ charged' = [charged EXCEPT ![Key(r)] = @ + Body[r].price]
             /\ call' = Await(s, r, "publish", FALSE, FALSE)
             /\ UNCHANGED <<memory, tokens, processed>>
    <3>1. PICK q \in Receipts : q = r
      BY <2>1
    <3> QED BY <2>1, <2>4, <3>1, ChargeInv DEF IsReceiptSettled
  <2> QED BY <1>k, <2>2, <2>3, <2>4 DEF Consume
<1>l. ASSUME NEW s \in Slots, PublishLands(s) PROVE Others
  <2>1. PICK r \in Receipts : r = call[s].receipt
    BY <1>l, <1>0 DEF PublishLands
  <2>2. published[r] = 0 /\ r \in settled
    BY <1>l, <2>1, <1>0 DEF PublishLands, CallInv, InFlight
  <2>3. published' = [published EXCEPT ![r] = 1]
    BY <1>l, <2>1, <2>2 DEF PublishLands, IndInv, TypeOK
  <2>4. \A t \in Slots : t # s /\ call[t].at \in InFlight => call[t].receipt # r
    BY <1>l, <2>1 DEF PublishLands, InFlight, IndInv, OnePublisher
  <2>5. /\ published'[r] = 1
        /\ \A q \in Receipts : q # r => published'[q] = published[q]
    BY <2>3 DEF IndInv, TypeOK
  <2>6. CallsInv' /\ OnePublisher'
    <3>1. "sent" \in InFlight /\ "sent" # "publish"
      BY DEF InFlight
    <3>2. settled' = settled /\ call' = Await(s, r, "sent", FALSE, FALSE)
      BY <1>l, <2>1 DEF PublishLands
    <3> QED BY <2>2, <2>4, <2>5, <3>1, <3>2, PublicationCall
  <2>7. UNCHANGED <<settled, consumed, charged, cache, processed>>
    BY <1>l DEF PublishLands, memory
  <2>8. TablesInv'
    BY <2>2, <2>5, <2>7 DEF TablesInv, IndInv, TypeOK
  <2> QED BY <2>6, <2>8
<1>m. ASSUME NEW s \in Slots, PublishReturns(s) PROVE Others
  <2>1. PICK r \in Receipts : r = call[s].receipt
    BY <1>m, <1>0 DEF PublishReturns
  <2>2. published[r] = 1 /\ r \in settled
    BY <1>m, <2>1, <1>0 DEF PublishReturns, CallInv, InFlight
  <2>3. UNCHANGED <<published, settled, consumed, charged, cache, processed>>
    BY <1>m DEF PublishReturns, memory
  <2>4. \A t \in Slots : t # s /\ call[t].at \in InFlight => call[t].receipt # r
    BY <1>m, <2>1 DEF PublishReturns, InFlight, IndInv, OnePublisher
  <2>5. CallsInv' /\ OnePublisher'
    <3>1. "indexed" \in InFlight /\ "indexed" # "publish"
      BY DEF InFlight
    <3>2. call' = Await(s, r, "indexed", FALSE, FALSE)
      BY <1>m, <2>1 DEF PublishReturns
    <3> QED BY <2>2, <2>3, <2>4, <3>1, <3>2, PublicationCall
  <2>6. TablesInv'
    BY <2>3, TablesFrame DEF TablesInv, IndInv
  <2> QED BY <2>5, <2>6
<1>n. ASSUME NEW s \in Slots, PublishFails(s) PROVE Others
  <2>1. PICK todo : todo = call[s].todo \ {call[s].receipt}
    OBVIOUS
  <2> QED BY <1>n, <2>1, IdleInv DEF PublishFails, Done, durable, memory
<1>o. ASSUME NEW s \in Slots, Settle(s) PROVE Others
  <2>1. PICK r \in Receipts : r = call[s].receipt
    BY <1>o, <1>0 DEF Settle
  <2>2. published[r] = 1
    BY <1>o, <2>1, <1>0 DEF Settle, CallInv
  <2> QED BY <1>o, <2>1, <2>2, SucceedInv DEF Settle
<1>p. ASSUME Crash PROVE Others
  <2>1. \A s \in Slots : call'[s] = Idle({})
    BY <1>p DEF Crash
  <2>2. CallsInv'
    BY <2>1 DEF CallsInv, CallInv, Idle, InFlight
  <2>3. OnePublisher'
    BY <2>1 DEF OnePublisher, Idle, InFlight
  <2>4. TablesInv'
    BY <1>p, TablesFrame DEF Crash, durable, IndInv, TablesInv
  <2> QED BY <2>2, <2>3, <2>4
<1>q. ASSUME UNCHANGED vars PROVE Others
  BY <1>q, WorldInv DEF vars, durable, memory
<1> HIDE DEF Others
<1>r. ASSUME NEW s \in Slots, Step(s) PROVE Others
  BY <1>r, <1>f, <1>i, <1>j, <1>k, <1>l, <1>m, <1>n, <1>o DEF Step
<1>2. Others
  BY <1>a, <1>b, <1>c, <1>d, <1>e, <1>g, <1>h, <1>p, <1>q, <1>r DEF Next
<1> USE DEF Others
<1> QED BY <1>1, <1>2 DEF IndInv
-----------------------------------------------------------------------------
(* The invariant holds of every reachable state.                           *)
THEOREM Invariance == Spec => []IndInv
<1>1. IndInv /\ [Next]_vars => IndInv'
  BY IndStep
<1> QED BY IndInit, <1>1, PTL DEF Spec

(* Tables, maps and calls keep their types; balances are never negative    *)
(* (the CHECK of token_balance and the refusal it causes, token-balance.ts,*)
(* applyReceipt).                                                          *)
THEOREM TypeCorrect == Spec => []TypeOK
<1>1. IndInv => TypeOK
  BY DEF IndInv
<1> QED BY Invariance, <1>1, PTL

(* No interleaving of calls, and no restart, publishes a second settlement *)
(* record for a receipt (exchange.ts, onReceipt).                          *)
THEOREM OneSettlementRecord == Spec => []PublishedOnce
<1>1. IndInv => PublishedOnce
  <2> SUFFICES ASSUME IndInv, NEW r \in Receipts, published[r] > 0
               PROVE  published[r] = 1 /\ r \in settled
    BY DEF PublishedOnce
  <2>1. published[r] \in {0, 1}
    BY DEF IndInv, TablesInv
  <2>2. published[r] = 1
    BY <2>1
  <2> QED BY <2>2 DEF IndInv, TablesInv
<1> QED BY Invariance, <1>1, PTL

(* A singleJob authorization pays for one receipt only                     *)
(* (settlement-store.ts, consume).                                         *)
THEOREM AuthorizationUsedOnce == Spec => []SingleUseAuthorization
<1>1. IndInv => SingleUseAuthorization
  BY DEF IndInv, TablesInv, SingleUseAuthorization
<1> QED BY Invariance, <1>1, PTL

(* The ledger moves for no receipt that was not verified and settled       *)
(* (receipt-pipeline.ts, processReceiptInner).                             *)
THEOREM OnlySettledMove == Spec => []MovedOnlySettled
<1>1. IndInv => MovedOnlySettled
  BY DEF IndInv, TablesInv, TypeOK, MovedOnlySettled, Authorized
<1> QED BY Invariance, <1>1, PTL
-----------------------------------------------------------------------------
(* The tokens of a receipt move as a Move of the register, or not at all.  *)
LEMMA SucceedMapped ==
  ASSUME IndInv, NEW s, NEW r \in Receipts, Succeed(s, r), published[r] = 1,
         UNCHANGED <<published, settled, charged>>
  PROVE  [Register!Next]_Register!vars
<1>1. CASE UNCHANGED processed
  BY <1>1 DEF Register!vars
<1>2. CASE processed' = processed \cup {r} /\ r \notin processed
  <2>1. Register!Move(r)
    BY <1>2 DEF Register!Move
  <2> QED BY <2>1 DEF Register!Next
<1> QED BY <1>1, <1>2 DEF Succeed, ApplyReceipt

LEMMA RefusedMapped ==
  ASSUME UNCHANGED <<published, settled, charged, processed>>
  PROVE  [Register!Next]_Register!vars
BY DEF Register!vars

LEMMA EnterMapped ==
  ASSUME IndInv, NEW s, NEW r \in Receipts, Enter(s, r),
         UNCHANGED <<published, settled, charged>>
  PROVE  [Register!Next]_Register!vars
<1>1. CASE r \in cache /\ Succeed(s, r)
  <2>1. published[r] = 1
    BY <1>1 DEF IndInv, TablesInv
  <2> QED BY <1>1, <2>1, SucceedMapped
<1>2. CASE UNCHANGED processed
  BY <1>2, RefusedMapped
<1> QED BY <1>1, <1>2 DEF Enter, Reject

(* The transaction of consume is a Charge of the register.                 *)
LEMMA ChargeMapped ==
  ASSUME IndInv, NEW r \in Receipts, r \notin settled, Chargeable(r),
         settled' = settled \cup {r},
         charged' = [charged EXCEPT ![Key(r)] = @ + Body[r].price],
         UNCHANGED <<published, processed>>
  PROVE  Register!Charge(r)
<1> DEFINE KeyOf == [q \in Receipts |-> Key(q)]
           OneShot == {q \in Receipts : SingleUse(q)}
           Price == [q \in Receipts |-> Body[q].price]
           Cap == [q \in Receipts |-> Budget(q)]
<1>1. r \in OneShot => \A q \in settled \cap OneShot : KeyOf[q] # KeyOf[r]
  <2> SUFFICES ASSUME SingleUse(r), NEW q \in settled, SingleUse(q), Key(q) = Key(r)
               PROVE  FALSE
    BY DEF IndInv, TypeOK
  <2>1. consumed[Key(r)] = q /\ q # NoReceipt /\ q # r
    BY NullAssumption DEF IndInv, TablesInv, TypeOK
  <2> QED BY <2>1 DEF Chargeable, AuthorizationConsumed
<1>2. Cap[r] # NoBudget => charged[KeyOf[r]] + Price[r] <= Cap[r]
  <2> SUFFICES ASSUME Budget(r) # NoBudget
               PROVE  charged[Key(r)] + Body[r].price <= Budget(r)
    OBVIOUS
  <2>1. ~(charged[Key(r)] + Body[r].price > Budget(r))
    BY DEF Chargeable, BudgetExceeded
  <2>2. Budget(r) \in Nat /\ Body[r].price \in Nat /\ charged[Key(r)] \in Nat
    BY BodyFields DEF IndInv, TypeOK
  <2> QED BY <2>1, <2>2
<1>3. charged' = [charged EXCEPT ![KeyOf[r]] = @ + Price[r]]
  OBVIOUS
<1> QED BY <1>1, <1>2, <1>3 DEF Register!Charge

LEMMA RegisterStep ==
  ASSUME IndInv, [Next]_vars
  PROVE  [Register!Next]_Register!vars
<1> DEFINE Mapped == [Register!Next]_Register!vars
<1>0. \A s \in Slots : CallInv(call[s]) /\ (call[s].at # "idle" => call[s].receipt \in Receipts)
  BY DEF IndInv, CallsInv, CallInv
<1>d. ASSUME NEW s \in Handlers, NEW r \in Receipts, DeliverReceipt(s, r) PROVE Mapped
  BY <1>d, EnterMapped DEF DeliverReceipt
<1>f. ASSUME NEW s \in Slots, NEW r \in Receipts, NextReceipt(s, r) PROVE Mapped
  <2>1. UNCHANGED <<published, settled, charged>>
    BY <1>f DEF NextReceipt
  <2>2. CASE UNCHANGED processed
    BY <2>1, <2>2, RefusedMapped
  <2>3. CASE Enter(s, r)
    BY <2>1, <2>3, EnterMapped
  <2> QED BY <1>f, <2>2, <2>3 DEF NextReceipt
<1>k. ASSUME NEW s \in Slots, Consume(s) PROVE Mapped
  <2>1. PICK r \in Receipts : r = call[s].receipt
    BY <1>k, <1>0 DEF Consume
  <2>2. UNCHANGED published
    BY <1>k DEF Consume
  <2>3. CASE UNCHANGED <<settled, charged, processed>>
    BY <2>2, <2>3, RefusedMapped
  <2>4. CASE r \in cache /\ Succeed(s, r) /\ UNCHANGED <<settled, charged>>
    <3>1. published[r] = 1
      BY <2>4 DEF IndInv, TablesInv
    <3> QED BY <2>2, <2>4, <3>1, SucceedMapped
  <2>5. CASE /\ ~IsReceiptSettled(r) /\ Chargeable(r)
             /\ settled' = settled \cup {r}
             /\ charged' = [charged EXCEPT ![Key(r)] = @ + Body[r].price]
             /\ UNCHANGED processed
    <3>1. Register!Charge(r)
      BY <2>2, <2>5, ChargeMapped DEF IsReceiptSettled
    <3> QED BY <3>1 DEF Register!Next
  <2> QED BY <1>k, <2>1, <2>3, <2>4, <2>5 DEF Consume, Reject
<1>l. ASSUME NEW s \in Slots, PublishLands(s) PROVE Mapped
  <2>1. PICK r \in Receipts : r = call[s].receipt
    BY <1>l, <1>0 DEF PublishLands
  <2>2. published[r] = 0 /\ r \in settled
    BY <1>l, <2>1, <1>0 DEF PublishLands, CallInv, InFlight
  <2>3. published' = [published EXCEPT ![r] = 1]
    BY <1>l, <2>1, <2>2 DEF PublishLands, IndInv, TypeOK
  <2>4. {q \in Receipts : published'[q] > 0} = {q \in Receipts : published[q] > 0} \cup {r}
    BY <2>3 DEF IndInv, TypeOK
  <2>5. Register!Record(r)
    BY <1>l, <2>2, <2>4 DEF PublishLands, Register!Record
  <2> QED BY <2>5 DEF Register!Next
<1>o. ASSUME NEW s \in Slots, Settle(s) PROVE Mapped
  <2>1. PICK r \in Receipts : r = call[s].receipt
    BY <1>o, <1>0 DEF Settle
  <2>2. published[r] = 1
    BY <1>o, <2>1, <1>0 DEF Settle, CallInv
  <2> QED BY <1>o, <2>1, <2>2, SucceedMapped DEF Settle
<1>r. ASSUME UNCHANGED <<published, settled, charged, processed>> PROVE Mapped
  BY <1>r, RefusedMapped
<1>1. ASSUME NEW s \in Slots,
             \/ ResolveHit(s) \/ ResolveMiss(s) \/ PublishReturns(s) \/ PublishFails(s)
             \/ StartReconcile(s) \/ StartBackfill(s)
      PROVE  UNCHANGED <<published, settled, charged, processed>>
  BY <1>1 DEF ResolveHit, ResolveMiss, PublishReturns, PublishFails, StartReconcile,
              StartBackfill, Reject, ResolveFailed, durable
<1>2. ASSUME \/ \E u \in Uris : Publish(u)
             \/ \E a \in Authorizations : Expire(a)
             \/ \E r \in Receipts : DeliverSettlement(r)
             \/ \E s \in Handlers, d \in Deps : DeliverDependency(s, d)
             \/ Crash \/ UNCHANGED vars
      PROVE  UNCHANGED <<published, settled, charged, processed>>
  BY <1>2 DEF Publish, Expire, DeliverSettlement, DeliverDependency, Crash, vars, durable
<1> HIDE DEF Mapped
<1>3. ASSUME NEW s \in Slots, Step(s) PROVE Mapped
  BY <1>3, <1>1, <1>f, <1>k, <1>l, <1>o, <1>r DEF Step
<1>4. Mapped
  BY <1>1, <1>2, <1>3, <1>d, <1>r DEF Next, Slots, Passes
<1> QED BY <1>4 DEF Mapped

(* The pipeline implements the register, for every number of receipts,     *)
(* overlapping calls, restarts and faults.                                 *)
THEOREM ImplementsRegister == Spec => ChargesOnce
<1>1. Init => Register!Init
  BY DEF Init, Register!Init
<1>2. IndInv /\ [Next]_vars => [Register!Next]_Register!vars
  BY RegisterStep
<1> QED BY Invariance, <1>1, <1>2, PTL DEF Spec, ChargesOnce, Register!Spec
-----------------------------------------------------------------------------
(* Session budgets.  The total kept per authorization is the sum of what   *)
(* the settled receipts charge; only a Charge of the register changes      *)
(* either, and it changes both.                                            *)
ChargesAddUp ==
  /\ IsFiniteSet(settled)
  /\ \A n \in Nonces : ChargedTo(n) = charged[n]

LEMMA ChargeAddsUp ==
  ASSUME IndInv, ChargesAddUp, NEW r \in Receipts, r \notin settled,
         settled' = settled \cup {r},
         charged' = [charged EXCEPT ![Key(r)] = @ + Body[r].price]
  PROVE  ChargesAddUp'
<1> DEFINE price == [q \in Receipts |-> Body[q].price]
           drawn(n) == {q \in settled : Key(q) = n}
<1>1. IsFiniteSet(settled')
  BY FS_AddElement DEF ChargesAddUp
<1>2. ASSUME NEW n \in Nonces
      PROVE  SumFunctionOnSet(price, {q \in settled' : Key(q) = n}) = charged'[n]
  <2>1. IsFiniteSet(drawn(n)) /\ drawn(n) \subseteq Receipts
    BY FS_Subset DEF ChargesAddUp, IndInv, TypeOK
  <2>2. \A q \in Receipts : price[q] \in Int
    BY BodyFields
  <2>3. SumFunctionOnSet(price, drawn(n)) = charged[n]
    BY DEF ChargesAddUp, ChargedTo
  <2>4. charged \in [Nonces -> Nat]
    BY DEF IndInv, TypeOK
  <2>5. CASE n = Key(r)
    <3>1. {q \in settled' : Key(q) = n} = drawn(n) \cup {r} /\ r \notin drawn(n)
      BY <2>5
    <3>2. price[r] = Body[r].price /\ Body[r].price \in Nat
      BY BodyFields
    <3> HIDE DEF price, drawn
    <3>3. SumFunctionOnSet(price, drawn(n) \cup {r})
            = price[r] + SumFunctionOnSet(price, drawn(n))
      BY <2>1, <2>2, <3>1, SumAdd
    <3>4. charged'[n] = charged[n] + Body[r].price
      BY <2>4, <2>5
    <3> QED BY <2>3, <2>4, <3>1, <3>2, <3>3, <3>4
  <2>6. CASE n # Key(r)
    <3>1. {q \in settled' : Key(q) = n} = drawn(n) /\ charged'[n] = charged[n]
      BY <2>4, <2>6
    <3> QED BY <2>3, <3>1
  <2> QED BY <2>5, <2>6
<1> QED BY <1>1, <1>2 DEF ChargesAddUp, ChargedTo

LEMMA ChargesAddUpStep ==
  ASSUME IndInv, ChargesAddUp, [Next]_vars
  PROVE  ChargesAddUp'
<1>1. [Register!Next]_Register!vars
  BY RegisterStep
<1>2. CASE UNCHANGED <<settled, charged>>
  BY <1>2 DEF ChargesAddUp, ChargedTo
<1>3. ASSUME NEW r \in Receipts, Register!Charge(r)
      PROVE  ChargesAddUp'
  <2>1. r \notin settled /\ settled' = settled \cup {r}
    BY <1>3 DEF Register!Charge
  <2>2. charged' = [charged EXCEPT ![Key(r)] = @ + Body[r].price]
    BY <1>3 DEF Register!Charge
  <2> QED BY <2>1, <2>2, ChargeAddsUp
<1> QED BY <1>1, <1>2, <1>3 DEF Register!Next, Register!vars, Register!Record, Register!Move

(* The receipts settled under a session authorization never add up to more *)
(* than its sessionBudget, whatever overlaps, restarts and repeats, and the*)
(* accrued total is their sum (settlement-store.ts, consume).              *)
THEOREM SessionsWithinBudget == Spec => []SessionBudgetKept
<1>1. Init => ChargesAddUp
  <2> SUFFICES ASSUME Init PROVE ChargesAddUp
    OBVIOUS
  <2>1. settled = {} /\ \A n \in Nonces : charged[n] = 0
    BY DEF Init
  <2>2. \A n : {r \in settled : Key(r) = n} = {}
    BY <2>1
  <2> QED BY <2>1, <2>2, SumEmpty, FS_EmptySet DEF ChargesAddUp, ChargedTo
<1>2. IndInv /\ ChargesAddUp /\ [Next]_vars => ChargesAddUp'
  BY ChargesAddUpStep
<1>3. IndInv /\ ChargesAddUp => SessionBudgetKept
  <2> SUFFICES ASSUME IndInv, ChargesAddUp, NEW r \in settled
               PROVE  /\ ChargedTo(Key(r)) = charged[Key(r)]
                      /\ Budget(r) # NoBudget => ChargedTo(Key(r)) <= Budget(r)
    BY DEF SessionBudgetKept
  <2>1. Key(r) \in Nonces
    BY BodyFields DEF IndInv, TypeOK
  <2> QED BY <2>1 DEF ChargesAddUp, IndInv, TablesInv
<1> QED BY <1>1, <1>2, <1>3, Invariance, PTL DEF Spec
-----------------------------------------------------------------------------
(* The treasury.  The ledger is reached through ApplyReceipt only, and only*)
(* with settled receipts.                                                  *)
LedgerStep ==
  \/ UNCHANGED <<tokens, processed>>
  \/ \E r \in settled : ApplyReceipt(r)

LEMMA EnterLedger ==
  ASSUME IndInv, NEW s, NEW r \in Receipts, Enter(s, r)
  PROVE  LedgerStep
<1>1. r \in cache => r \in settled
  BY DEF IndInv, TablesInv
<1> QED BY <1>1 DEF Enter, Succeed, Reject, LedgerStep

LEMMA NextLedger ==
  ASSUME IndInv, [Next]_vars
  PROVE  LedgerStep
<1>0. \A s \in Slots : CallInv(call[s]) /\ (call[s].at # "idle" => call[s].receipt \in Receipts)
  BY DEF IndInv, CallsInv, CallInv
<1>1. ASSUME NEW s \in Handlers, NEW r \in Receipts, DeliverReceipt(s, r) PROVE LedgerStep
  BY <1>1, EnterLedger DEF DeliverReceipt
<1>2. ASSUME NEW s \in Slots, NEW r \in Receipts, NextReceipt(s, r) PROVE LedgerStep
  BY <1>2, EnterLedger DEF NextReceipt, LedgerStep
<1>3. ASSUME NEW s \in Slots, Consume(s) PROVE LedgerStep
  BY <1>3, <1>0 DEF Consume, IsReceiptSettled, Succeed, Reject, LedgerStep
<1>4. ASSUME NEW s \in Slots, Settle(s) PROVE LedgerStep
  BY <1>4, <1>0 DEF Settle, CallInv, InFlight, Succeed, LedgerStep
<1>5. ASSUME NEW s \in Slots,
             \/ ResolveHit(s) \/ ResolveMiss(s) \/ PublishLands(s) \/ PublishReturns(s)
             \/ PublishFails(s) \/ StartReconcile(s) \/ StartBackfill(s)
      PROVE  UNCHANGED <<tokens, processed>>
  BY <1>5 DEF ResolveHit, ResolveMiss, PublishLands, PublishReturns, PublishFails,
              StartReconcile, StartBackfill, Reject, ResolveFailed, durable
<1>6. ASSUME \/ \E u \in Uris : Publish(u)
             \/ \E a \in Authorizations : Expire(a)
             \/ \E r \in Receipts : DeliverSettlement(r)
             \/ \E s \in Handlers, d \in Deps : DeliverDependency(s, d)
             \/ Crash \/ UNCHANGED vars
      PROVE  UNCHANGED <<tokens, processed>>
  BY <1>6 DEF Publish, Expire, DeliverSettlement, DeliverDependency, Crash, vars, durable
<1>7. UNCHANGED <<tokens, processed>> => LedgerStep
  BY DEF LedgerStep
<1>8. ASSUME NEW s \in Slots, Step(s) PROVE LedgerStep
  BY <1>8, <1>2, <1>3, <1>4, <1>5, <1>7 DEF Step
<1> HIDE DEF LedgerStep
<1> QED BY <1>1, <1>5, <1>6, <1>7, <1>8 DEF Next, Slots, Passes

Fees == [r \in Receipts |-> SettlementFee(Body[r].price, Policy, Body[r].proBono, IsSelfLoop(r))]

(* The treasury gets its row with the first receipt.                       *)
FeesAddUp ==
  /\ IsFiniteSet(processed)
  /\ IF tokens[Treasury] = NoRow THEN processed = {}
     ELSE tokens[Treasury] = Policy.grant + SumFunctionOnSet(Fees, processed)

(* For a settled receipt both computations of the fee agree.               *)
LEMMA FeeIsShare ==
  ASSUME NEW r \in Receipts, Authorized(r), IsSelfLoop(r) => Policy.feeWaived
  PROVE  /\ Fees[r] = TreasuryShare(Body[r].price, Policy, IsSelfLoop(r))
         /\ Fees[r] \in Nat
<1>1. /\ Body[r].price \in Nat /\ IsSelfLoop(r) \in BOOLEAN /\ Body[r].proBono \in BOOLEAN
      /\ Policy.bps \in Nat /\ Policy.minMinor \in Nat
      /\ Body[r].proBono => Body[r].price = 0
  BY BodyFields, PolicyAssumption DEF Authorized
<1>2. SettlementFee(Body[r].price, Policy, Body[r].proBono, IsSelfLoop(r))
        = TreasuryShare(Body[r].price, Policy, IsSelfLoop(r))
  BY <1>1, RecordAgreesWithLedger
<1>3. TreasuryShare(Body[r].price, Policy, IsSelfLoop(r)) \in 0..Body[r].price
  BY <1>1, ShareBounds
<1> QED BY <1>1, <1>2, <1>3 DEF Fees

LEMMA FeesAddUpStep ==
  ASSUME \A r \in Receipts : Treasury \notin {Body[r].requester, Body[r].provider},
         \A r \in Receipts : IsSelfLoop(r) => Policy.feeWaived,
         IndInv, FeesAddUp, [Next]_vars
  PROVE  FeesAddUp'
<1>1. CASE UNCHANGED <<tokens, processed>>
  BY <1>1 DEF FeesAddUp
<1>2. ASSUME NEW r \in settled, ApplyReceipt(r), ~UNCHANGED <<tokens, processed>>
      PROVE  FeesAddUp'
  <2> DEFINE share == TreasuryShare(Body[r].price, Policy, IsSelfLoop(r))
             held == Balance(tokens, Treasury)
  <2>1. r \in Receipts /\ Authorized(r)
    BY DEF IndInv, TypeOK, TablesInv
  <2>2. Fees[r] = share /\ Fees[r] \in Nat
    BY <2>1, FeeIsShare
  <2>3. Treasury \in Dids /\ Policy.grant \in Nat
    BY PolicyAssumption
  <2>4. IsFiniteSet(processed) /\ \A q \in processed \cup {r} : q \in Receipts /\ Fees[q] \in Int
    <3>1. \A q \in processed : q \in Receipts /\ Authorized(q)
      BY DEF IndInv, TypeOK, TablesInv
    <3> QED BY <3>1, <2>1, FeeIsShare DEF FeesAddUp
  <2>5. held \in Nat /\ held = Policy.grant + SumFunctionOnSet(Fees, processed)
    <3>1. tokens[Treasury] \in Nat \cup {NoRow}
      BY <2>3 DEF IndInv, TypeOK
    <3>2. CASE tokens[Treasury] = NoRow
      <4>1. SumFunctionOnSet(Fees, processed) = 0
        BY <3>2, SumEmpty DEF FeesAddUp
      <4> QED BY <2>3, <3>2, <4>1 DEF Balance
    <3>3. CASE tokens[Treasury] # NoRow
      BY <3>1, <3>3 DEF FeesAddUp, Balance
    <3> QED BY <3>2, <3>3
  <2>6. WithGrants(r)[Treasury] = held
    BY <2>3 DEF WithGrants
  <2> HIDE DEF share, held
  <2>7. CASE tokens' = WithGrants(r) /\ UNCHANGED processed
    BY <2>4, <2>5, <2>6, <2>7 DEF FeesAddUp, NoRow
  <2>8. CASE /\ r \notin processed /\ processed' = processed \cup {r}
             /\ \E due \in SUBSET Refreshable(r) : tokens' = Refreshed(AfterTransfer(r), due)
    <3>1. PICK due \in SUBSET Refreshable(r) : tokens' = Refreshed(AfterTransfer(r), due)
      BY <2>8
    <3>2. Treasury # Body[r].requester /\ Treasury # Body[r].provider /\ Treasury \notin due
      BY <2>1 DEF Refreshable
    <3>3. AfterTransfer(r)[Treasury] = held + share
      BY <2>2, <2>3, <2>5, <2>6, <3>2 DEF AfterTransfer, ReceiptDelta, share
    <3>4. tokens'[Treasury] = held + share
      BY <2>2, <2>3, <2>5, <3>1, <3>2, <3>3 DEF Refreshed
    <3>5. SumFunctionOnSet(Fees, processed') = Fees[r] + SumFunctionOnSet(Fees, processed)
      BY <2>4, <2>8, SumAdd
    <3>6. IsFiniteSet(processed') /\ SumFunctionOnSet(Fees, processed) \in Int
      BY <2>4, <2>8, FS_AddElement, SumInteger
    <3> QED BY <2>2, <2>3, <2>5, <3>4, <3>5, <3>6 DEF FeesAddUp, NoRow
  <2> QED BY <1>2, <2>7, <2>8 DEF ApplyReceipt
<1> QED BY <1>1, <1>2, NextLedger DEF LedgerStep

(* The treasury holds its grant and the fees the published settlements     *)
(* state, as long as it takes part in no receipt itself and self-loops are *)
(* fee-free: the two computations of the fee never drift apart             *)
(* (exchange.ts, onReceipt; token-balance.ts, applyReceipt).               *)
THEOREM TreasuryHoldsFees ==
  ASSUME \A r \in Receipts : Treasury \notin {Body[r].requester, Body[r].provider},
         \A r \in Receipts : IsSelfLoop(r) => Policy.feeWaived
  PROVE  Spec => []TreasuryMatchesSettlements
<1>1. Init => FeesAddUp
  BY FS_EmptySet, PolicyAssumption DEF Init, FeesAddUp
<1>2. IndInv /\ FeesAddUp /\ [Next]_vars => FeesAddUp'
  BY FeesAddUpStep
<1>3. FeesAddUp => TreasuryMatchesSettlements
  BY DEF FeesAddUp, TreasuryMatchesSettlements, Fees
<1> QED BY <1>1, <1>2, <1>3, Invariance, PTL DEF Spec
=============================================================================
