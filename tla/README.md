# A formal model of cocore

cocore is a cooperative network for LLM inference: requesters sign jobs and
payment authorizations on their own PDS, providers serve them and publish signed
receipts, an exchange turns receipts into settlement records and moves tokens in
a mutual-credit ledger. This directory holds TLA+ models of the parts of that
system whose correctness depends on orders of events, the TLC runs that check
them on small instances, and TLAPS proofs of the theorems that matter most.

## 1. The system

| Part | Where | State it keeps | What happens to it |
|---|---|---|---|
| Exchange | `packages/exchange/src/exchange.ts`, `settlement-store.ts` | tables `settled_receipt`, `consumed_authorization`, `authorization_charge`; an in-memory cache of published settlements | `onReceipt`: three lookups, verification, the `consume` transaction, publication |
| Receipt pipeline | `infra/services/src/receipt-pipeline.ts`, `resolve-record.ts` | parked receipts per missing URI, retry counters, rejected set, negative lookup cache | firehose events, dependency arrivals, the reconcile loop, the operator's backfill |
| Token ledger | `packages/exchange/src/token-balance.ts` | balances, event log, processed receipts and periods | grants, receipts, refreshes, patronage, admission, rebuild |
| AppView store and indexer | `packages/appview/src/store.ts`, `indexer/` | cache of every `dev.cocore.*` record, relay cursor | ingest, version-guarded upsert, delete, purge |
| Advisor | `infra/advisor/src` | connected machines, their attestations, cooldowns, live jobs and parked streams | provider WebSocket messages, job selection and dispatch, sweeper, re-prober |
| Provider agent | `provider/src` (Rust) | engines, in-flight inferences, update and schedule state | the other end of the advisor's WebSocket; publishes receipts |
| Console, shell, SDKs | `packages/console`, `provider-shell`, `packages/sdk`, `sdk/py` | browser and UI state, request builders | user interfaces and clients |

Interactions: a requester's client writes a job and an authorization to its PDS
and calls the advisor, which picks a machine and relays the encrypted stream; the
provider publishes a receipt; the relay (a firehose) carries every record to the
services container, where the indexer stores it and the receipt pipeline drives
the exchange and then the ledger. Within the container the parts share one
event loop and one SQLite database; between containers they share only records
on PDSes and WebSocket or HTTP messages.

What is hard: records arrive in any order, repeatedly or never; `onReceipt`
awaits five times, so calls for the same receipt or authorization overlap; the
tables survive a restart and the maps do not; a publication cannot be rolled
back. In the advisor, a machine may reconnect while its old socket is still
closing, a job's stream is detached and resumed, messages of a socket are
serialised but timers and HTTP requests are not.

What makes each part correct:

* exchange: a receipt is charged and published once, an authorization pays for
  what it was signed for, and whatever is settled is eventually paid;
* ledger: tokens are conserved, no balance is negative, the books agree with the
  settlement records, each period is distributed once;
* store: the cache converges to the newest version of each record, as far as
  `createdAt` orders them;
* advisor: output reaches the requester once and in order, a machine is offered
  jobs only while it is registered, attested and not cooling down, and every job
  ends unless its machine streams for ever.

## 2. Modules

| Module | Models | Builds on |
|---|---|---|
| `ExchangeFees` | the fee functions of `exchange.ts` and the ledger's split in `token-balance.ts` | |
| `ReceiptSettlement` | `receipt-pipeline.ts`, `resolve-record.ts`, `exchange.ts`, `settlement-store.ts` and the ledger calls they make | `ExchangeFees` |
| `ChargeOnce` | the abstract register that settlement promises to be | |
| `MCReceiptSettlement` | values of the constants for TLC | `ReceiptSettlement` |
| `MutualCredit` | the abstract account the ledger promises its members | |
| `TokenLedger` | `token-balance.ts` and the console's admission check | `ExchangeFees`, `MutualCredit` |
| `MCTokenLedger` | values of the constants for TLC | `TokenLedger` |
| `OrderedPipe` | the abstract stream a dispatched job promises its requester | |
| `StreamSession` | `sessions.ts`, `connection.ts` and the sweep of `registry.ts` in the advisor, `advisor.rs` in the provider | `OrderedPipe` |
| `RecordIndex` | the AppView's index of records (`store.ts`) behind the bridge and the relay | |
| `ProviderRecord` | the agent's publication of its provider record (`pds.rs`, `main.rs`) and the owner's edits of it (`record-transactor.server.ts`, `provider-record-pds.server.ts`) | `RecordIndex` |
| `MCProviderRecord` | values of the constants for TLC | `ProviderRecord` |
| `MachineRegistry` | the advisor's `registry.ts`, the attestation challenges of `connection.ts`, the sweeper and the re-prober of `main.ts` | |
| `PromptCustody` | the abstract handling of a prompt a request promises | |
| `JobDispatch` | the console's `inference-dispatch.server.ts`, the advisor's `jobs.ts` and all sessions of `sessions.ts` | `MachineRegistry`, `PromptCustody` |
| `MCJobDispatch` | values of the constants for TLC | `JobDispatch` |
| `SumLemmas` | what the proofs know of sums over finite sets | |
| `*_proofs` | theorems | the module of the name |

### ReceiptSettlement

Everything between two `await`s is one action. `call[s]` is what slot `s` of the
event loop is executing: a firehose handler, a reconcile pass or a backfill; its
`at` field names the `await` it is suspended in:

| `at` | suspended in | continued by |
|---|---|---|
| `job`, `auth`, `attestation` | `cfg.resolveRecord` (exchange.ts:143, 147, 176) | `ResolveHit`, `ResolveMiss` |
| `verify` | `verifyForChargeStrict` (exchange.ts:208) | `Consume` |
| `publish`, `sent` | `publisher.publish` (exchange.ts:341): request not yet at the PDS, response not yet back | `PublishLands`, `PublishReturns`, `PublishFails` |
| `indexed` | the firehose dispatch of the wrapped publish (main.ts:481) | `Settle` |

`todo` holds the receipts a drain of waiters or a pass has still to work
through. `published[r]` counts the settlement records on the exchange's PDS,
`settlements` those the store knows. Signatures, ceilings, currencies and expiry
of the job are one bit of the immutable content, `Body[r].authentic`; the owner
of the job, the authorization's expiry, the pro-bono invariant and the settled
set are kept apart, because they are read at different moments. `newer` is the
order of `indexed_at`, which bounds what a reconcile pass sees.

`Crash` is a restart of the container: the maps and the running calls are lost,
the database and the PDSes are not.

### TokenLedger

`token-balance.ts` is synchronous over SQLite and runs in one process, so an
operation is one action:

| Action | Code |
|---|---|
| `Dispatch(r)` | the console asks `checkAdmission` and then dispatches the job of `r`, or dispatches with the ledger unreachable |
| `ApplyReceipt(r)` | `processReceipt`: grants, the net movement of each party, the refreshes due |
| `GetBalance(d)` | `touchAndGetBalance`: the grant and the refresh a read brings with it |
| `DistributePriorMonth`, `DistributeWindow` | `distributePatronage`, from the scheduler and from the operator |
| `Rebuild` | `rebuildBalanceCache` |
| `NextMonth` | the clock; any set of members may have come due for a refresh |

`rows` and `tokens` are the table `token_balance`. `token_event` is kept as what
the code reads back from it: `log`, its sum per DID, `minted`, the part of it that
grants and refreshes made, `volume` and `turnover`, the flow each month's
patronage is scored by, and `payouts` per window. `processed` and `periods` are
the idempotency tables `processed_receipt` and `processed_period`; `job` is the
console's verdict on each job.

Requester, provider and treasury of a receipt may be one DID, which is where
the order of reads and writes matters: `Moved` applies one net movement per DID.
Patronage is credited with every share rounded down, and debited from the
treasury as the sum of what was credited. The code divides by the sum of the
scores it has just computed; the model keeps `turnover` beside `volume`, and
`PayoutWithinShare` fails if the two ever part. `EventsHaveRows` is what
`distributePatronage` takes for granted when it casts the row of a recipient it
found in the log.

The module is shown to implement `MutualCredit`, which has no log, rows, months or
rounding: only the payer of a receipt and the treasury ever lose a token, each
once per receipt or window, and what all hold changes with the mints alone.

### StreamSession

One dispatched job. The advisor's half is `session` (`SessionManager`'s entry
or its tombstone, with the timers armed), `heard` (what was written to the
requester's response) and `registry` (the socket whose `send` is registered for
the machine). The provider's half is `job` (`BufferedInvocation`) and `link`, the
socket it serves on. Between them each socket `c` has `up[c]` and `down[c]`,
the frames in flight, and `sock[c]`, the advisor's end of it: the provider may
be on its next socket while the advisor still works off frames of the last, and
may learn of a close before or after the frames in front of it.

| Action | Code |
|---|---|
| `OnRegister`, `RefuseRegister` | the `register` handler; the frame stays at the head of the queue while its token is verified |
| `OnResume`, `OnChunk`, `OnComplete`, `DropFrame` | `inference_resume`, `inference_chunk`, `inference_complete` behind `ownsCurrentRegistration` |
| `OnClose`, `HangUp`, `Sweep` | the close event, recycling and challenge failures, the registry's sweeper |
| `Dispatch`, `ClientGone` | `jobs.ts` |
| `IdleFires`, `GraceFires`, `TombstoneExpires` | the timers of `sessions.ts` |
| `Connect`, `LoseLink`, `RetentionExpires` | `resume_frames`, `detach_all` and its retention task |
| `Accept`, `Refuse`, `Produce`, `Finish`, `Panic` | `InvocationManager::start`, `refusal_frames`, `buffer_message` |
| `Drain`, `Acknowledge`, `HandleResumeResult` | the methods of these names |

A break of the link cuts the frames in flight anywhere. The content of a chunk
is its sequence number, so that a chunk replayed, skipped or out of place shows
in `heard`. The resume token is the session itself, since there is one. Legacy
machines, which neither buffer nor resume, are the same actions with
`session.resumable` false, chosen at the dispatch.

### ProviderRecord and RecordIndex

A machine's `compute.provider` record lives in its owner's repository and has two
writers. The agent (`dedup_and_publish_provider`) lists the collection, finds the
records that are this machine's, picks one to keep, collects the owner's
settings from all of them, deletes the duplicates and puts the merged record
with the kept record's CID as `swapRecord`. The owner's edits (console and command
line) read one record, change it and put it, or delete it, each under a swap.

| Action | Code |
|---|---|
| `AgentBegin`, `AgentList`, `AgentDelete`, `AgentPut`, `AgentConflict`, `AgentCreate`, `AgentAbort` | the steps of `dedup_and_publish_provider` between two requests |
| `TxnRead`, `TxnCommit`, `TxnConflict`, `TxnDelete`, `TxnAbort` | one owner operation |
| `Deliver`, `DeliverFails`, `Reconnect`, `Restart` | the relay's subscription: an event handled, an event whose error is logged and swallowed, a dropped connection, a restart of the container |
| `BridgePublish`, `BridgeUnpublish` | the mirror calls that a write sends to the AppView |
| `Tick` | the clock that `createdAt` is drawn from |

`pds` is the repository: for each record key a record or none; a CID is the
content. `agent` and `txn` hold what each writer saw, `cached` the agent's file
with its record key. Of a record the model keeps `createdAt`, the owner's
settings, the agent's state and what decides whose it is (fingerprint, key and
hardware profile, as `id`). `feed` is the relay's stream of commits, `mirrors` the
bridge calls under way, `idx` the rows of the index. `skipped` remembers the
commits the subscription passed over, `origin` the records before the first commit.

What the index owes a commit (`Indexed`) is stated in the order of commits, body
by body, and only for a commit that was `Bumped`: its `createdAt` is later than
that of every version before it. This is the condition under which the guard of
`store.ts` can work, and record-transactor.server.ts:83-87 asks it of owner edits.
Not every write meets it; see the observations in section 5.

### MachineRegistry and JobDispatch

`MachineRegistry` is the state of a machine at the advisor. `entry` is
`ProviderRegistry.byKey`, reduced to the socket an entry sends on and the two
flags that come and go; `ledger` is the failure ledger, whose lifetime is not the
entry's; `sock` is the advisor's end of every socket, `verifying` the sockets whose
register frame awaits its verification, `challenged` those whose challenge interval
runs and `asked` those whose challenge is unanswered. A setter acts on whatever
entry the machine has by then, as in the code, where the sockets of one machine
share its key.

A connection and its registration are two steps, because the handler awaits
`verifyServiceAuthToken` (connection.ts:452) and upserts afterwards without
looking at the socket. In between the socket may break, have its close event, or
be succeeded by one that registers first. Its late registration then makes an
entry whose socket is gone, overwrites and closes the live successor's, and starts
a challenge interval that no close event will clear. An entry therefore says
nothing of its socket, beyond that it is the machine's own and under challenge
(`TypeOK`); frames are taken from whoever owns it (`Speaks`, that is
`ownsCurrentRegistration`), open, closing or gone.

| Action | Code |
|---|---|
| `Connects` | a connection, up to the await of the `register` handler |
| `Register` (`Registered`), `RegisterRefused` | the handler after it: detach, `upsert`, close the previous socket, first challenge; or a token that does not verify, a full registry |
| `CloseEvent` (`CloseHandled`) | the close event: detach, blame, remove the entry if it is this socket's |
| `Rechallenge`, `Answered`, `Unanswered` | `sendChallenge`, `attestation_response`, `closeForUnanswered` |
| `Sweep`, `Reprobed` | the timers of `main.ts` |
| `Recovered`, `Recycle` | `recover_result`, `attemptRecycle` |
| `FailuresDecay`, `CooldownElapses` | time as `recordFailure` and `isCoolingDown` read it |
| `Drop`, `Wedge`, `Unwedge` | the network, and a serve loop that hangs behind a live socket |

`JobDispatch` adds the way of a request. `req` is the console's attempt loop,
`posts` are the advisor's handlers of `POST /jobs`, `sess` the sessions, `streams`
the responses still open, `runs` the machines at work.

| Action | Code |
|---|---|
| `Pick`, `NobodyLeft`, `StreamEnds`, `Leave` | `dispatchInferenceInner` |
| `AnswerLost` | a gateway's error in place of the advisor's answer: the console tries the next machine, the handler goes on |
| `Preflight`, `NoCapacity`, `PreflightTimesOut`, `Dispatch` | `selectProvider` up to its await, its three outcomes, and `dispatch` |
| `ResponseOver` | the finalizer of `jobsRoute` |
| `Chunk`, `Complete`, `Resume` | the frames of these names behind `ownsCurrentRegistration` and `ownedBy` |
| `IdleTimeout`, `GraceExpires`, `TombstoneExpires` | the timers of `sessions.ts` and their hooks |

`StreamSession` and `JobDispatch` look at the same sessions from two sides: the
first has one session with every frame in flight, the second all sessions,
machines and attempts, with a stream reduced to whose output it carries.

`PromptCustody` is what `excludeDids` and `maxAttempts` are for: a prompt goes to one
owner after the other, never back to one it has been with, and to nobody after a
response has begun. Its `holders` are the owners whose machines have an attempt
anywhere (`Placed`: a post on its way, a session or a run), so the refinement also
says that no re-registration, resumption or late handler puts a prompt where
`Pick` did not send it. A provider whose encryption key is malformed is passed over
without a post (inference-dispatch.server.ts:1002); the model leaves that out.

## 3. Runs

| Run | Shows | Bounds |
|---|---|---|
| `settlement_single` | one record, one charge and one token movement per receipt, one receipt per authorization; the books match the records; `ChargeOnce` is implemented | 2 receipts sharing a job and a singleJob authorization, 1 handler, 1 reconcile loop, 1 failed publish, 1 restart |
| `settlement_session` | the session budget holds and the accrued total is exact; a transfer that cannot be covered is refused and leaves no negative balance | receipts of 60 and 45 under a budget of 100 and a grant of 50, the operator's backfill |
| `settlement_live` | a receipt in the store whose dependencies exist is eventually paid | 1 receipt, no faults |
| `settlement_restart` | violated: a restart between two steps leaves a receipt unpaid for ever | 1 restart |
| `ledger_serial` | balances equal the sums of their log entries, tokens are only minted by grants and refreshes, no balance is negative, a payout fits its share and finds its rows, a period is paid once, an admitted job stays covered; `MutualCredit` is implemented | 2 receipts, one a self-loop whose fee is kept; 3 DIDs; 2 months; one unsettled job per requester |
| `ledger_concurrent` | violated: a job admitted beside another is not covered when it settles | the same, without that restriction |
| `session_resume` | the requester's stream implements `OrderedPipe`, the replay buffer covers what the session waits for, exactly the right timer is armed, every stream ends | 2 sockets used again and again, 3 chunks, a buffer of 2, 2 breaks |
| `session_registration` | violated: the registry holds a socket that is closed | the same |
| `record_publish` | an owner's setting is not undone by the agent, another machine's record is left alone, a handled commit that was bumped is never replaced in the index by one committed before it, and the index ends on the newest commit where that was bumped and not passed over | one publish, two owner operations, a duplicate and a sibling machine, late and repeated deliveries, one break, failed event or restart |
| `record_stranded` | violated: a setting on a duplicate is lost when the publish stops after the delete | one publish, no owner operation |
| `dispatch_failover` | a response carries its own attempt's output, no machine is blamed twice for a job, `PromptCustody` is implemented, the request ends unless its machine streams for ever | 1 request of 2 attempts, 2 owners' machines, one that resumes; 1 reconnection, 1 fault |
| `dispatch_standing` | a cooldown ends by time only; a late close does not evict a live machine; a machine that rights itself becomes eligible | 1 pinned request, 1 legacy machine; 2 reconnections, 2 faults |

Two receipts and two slots suffice for every race the code can have over one
receipt (two calls of the same one) and over one authorization (two receipts);
prices are chosen so that one receipt fits the budget, or the balance, and two
do not, and so that the fee floor is above the basis points. One fault and one
restart reach every point at which a call can be cut off. `MaxRetries = 1` (8 in
the code) lets a receipt exhaust its budget; `BatchSize` (200 in the code) is at
least the number of receipts.

In the ledger runs a grant is 41, the ceiling of a job 40 and the admission floor
1: one job is covered and two are not, and fees and patronage shares have
remainders to lose. Three DIDs let requester, provider and treasury be distinct
or coincide in pairs; two months give windows that are equal, nested and
disjoint.

In the stream runs, two sockets are the most that can be in play at once: the
one the registry holds and its replacement; a third could only be a socket
neither end uses (checked once: three sockets give 3.75 million states and no
error). Three chunks exceed the buffer of two, so the job runs into its limit, with
a chunk acknowledged and one in flight. Two breaks let a replay itself be cut off.

In the dispatch runs, `MaxSockets` and `MaxFaults` bound connections and faults; a
fault may be a break, a recycling or a hang, at any point. In `dispatch_failover`
one of each gives every race of one socket with its successor. `dispatch_standing`
has two of each on one machine, the least that lets a connection break before its
registration, be succeeded by one that registers, and then overwrite it; one of the
two reconnections is left for the machine to come back. With a threshold of 1 every
failure shows as a cooldown. `Watched` names the machines whose challenge interval
comes round: the flags it touches do not matter to the first run, which leaves it
empty.

Some parts rest on the theorems alone. Several jobs on one machine, where one close
event ends them all with one blame: `NobodyBlamedTwice` (both runs have one job). A
request pinned to a machine and a limit below the number of owners in
`PromptCustody`: `PromptHandedOn` (in `dispatch_failover` the limit equals the number
of owners and nothing is pinned). Failures adding up to a threshold above 1:
`NobodyShedsCooldown`. Self-loops, the clamp and the pro-bono case of the fee
bookkeeping: `TreasuryHoldsFees` (the settlement runs exercise the floor).

In the record runs an edit, a publish and each delivery may fall between any two
requests of another; `record_publish` has one of each in every order.

The violations are the findings of `PROJECT.json`; each quotes the comment that
promises otherwise.

Fairness (`FairSpec`): the event loop runs every pending continuation; the
periodic loop starts a pass after the last one; a lookup repeated for ever does
not miss for ever once its record is on its PDS, because misses are cached only
for a time and errors are transient. No fairness is assumed of the firehose:
every event may be lost, so what `ReceiptEventuallyPaid` shows is what the
reconcile loop alone guarantees for what is indexed.

In `StreamSession` fairness is assumed of `IdleFires` and `GraceFires` only: a
timer that stays armed fires. Nothing is assumed of the provider, the network or
the other timers. The code re-arms the idle timer at every frame and every
keepalive; frames are finitely many, and keepalives come from a running engine
call, which ends, so a timer is disarmed for good or stays armed.

`JobDispatch` has two fairness formulas, one for each of its liveness properties.
`RequestFairness` is about the console, the advisor's handlers and the timers of a
session. Nothing makes a machine produce or finish, or come back, or a close event
arrive: `EveryRequestEnds` rests on the idle timer. Every chunk and keepalive re-arms
that timer (sessions.ts:394, 512-516), so its fairness leaves out a machine that
streams for ever; a request ends if its machine falls silent or its engine ends.
`StandingFairness` is about the intervals of the challenge, the re-prober and the
sweeper, the end of a cooldown, and a machine's answers to challenges and pings
while its loop runs: that is what "a machine that rights itself" means in `Rejoins`.
In `ProviderRecord` only the subscription is fair: it goes on to the next event,
whether that one is indexed or fails.

## 4. Proofs

`ReceiptSettlement_proofs` proves, for any number of receipts, slots, retries,
faults and restarts and any fees, from the named assumptions on the constants:

* `TypeCorrect`: in particular no balance is ever negative;
* `OneSettlementRecord`, `AuthorizationUsedOnce`, `OnlySettledMove`;
* `ImplementsRegister`: `Spec => ChargesOnce`, the refinement of `ChargeOnce`;
* `SessionsWithinBudget` and `TreasuryHoldsFees`, which add up receipts.

The argument is one inductive invariant, `IndInv`. The safety properties speak
of the tables only and are not inductive, because a call that is suspended
between its check and its write could break them. `CallsInv` says what being
suspended at each `await` implies (a call that publishes has its receipt in
`settled` and, before the request lands, no record of it exists), `OnePublisher`
that no two calls publish for one receipt, and `TablesInv` relates the tables: a
settled singleJob receipt is the one its key is consumed by, budgets hold,
a cached or processed receipt has its record. `consume` being one transaction is
what makes `OnePublisher` inductive: the second call finds the receipt settled.

The only assumption beyond types is `NonceAssumption`: a nonce names one
authorization (16 random bytes, drawn by the requester).

The two sums rest on the refinement: `settled` and `charged` change in a `Charge` of
the register alone, and in both at once, so the accrued total is the sum of what
is settled (`ChargesAddUp`), and the bound `consume` checks is a bound on the sum.
Likewise every step either leaves the ledger alone or applies one settled receipt
(`LedgerStep`), which moves exactly the fee its settlement record states
(`FeesAddUp`, `FeeIsShare`). `TreasuryHoldsFees` has two hypotheses, and each is
needed. The treasury's DID is no requester and no provider: it would be paid and
charged besides its fees. And self-loops are fee-free: where the policy keeps
their fee the record states one and the ledger moves none, which is the exception
in `RecordAgreesWithLedger`.

`SumLemmas` holds what these proofs, and those of the ledger, know of
`SumFunctionOnSet`: the sum over the empty set, over a set less one element, of one
amount entered for some of the elements, of functions that agree, that are added,
scaled or ordered. The sum is a recursive function over
subsets. The library's rules of induction quantify over
operators, which the provers cannot instantiate; induction is therefore stated
over sets of naturals (`NaturalsFrom`, from the well-foundedness of `<`), and a
lemma is proved by forming the set of sizes it holds for.

`TokenLedger_proofs` proves, for any members, policy, clock and receipts:
`TypeCorrect` (no balance is negative) and `BooksAgree`, from an invariant that
relates every operation's balances to what it appends to the log;
`PaidOncePerPeriod`, from `PaidMarked` (a window has as many payouts as it has
entries in `processed_period`); and
`SerialAdmission`: an admitted job stays covered until it settles, provided a
requester has one unsettled job at a time and is not the treasury itself. Both
conditions are needed: `ledger_concurrent` drops the first, and the treasury is
debited by patronage, which asks nobody.

`TokensConserved` goes by way of the log. `LogAddsUp` says that the log's entries add
up to the mints: every transfer and every payout enters its counter-entry, a touch
enters what it mints. `BooksAgree` then carries the sum over to the balances, which
are written quite differently, as net movements.

`PayoutsFitTheShare` first shows that the total the scores are divided by is their
sum (`TurnoverIsSum`, an induction over the steps in which self-loops and the
treasury's own receipts are the cases to get right), and then that rounding every
share down loses less than one token per share (`CreditsFit`). Whether the
treasury can pay is another matter: `PayoutsNeverAbort` has the hypothesis that
the fraction is at most 10000 basis points. The code reads it from the environment
and does not check it (main.ts:114); above that, the CHECK aborts the payout, and
the model has no such step.

`RecipientsHaveRows` is inductive as it stands. `ImplementsMutualCredit` needs, for
each action, that the balances change by what the books say and that nobody but
the payer has less: a provider's net movement is never negative, because a fee is
clamped to the price; a rebuild changes nothing, because balances match the log.

`ExchangeFees_proofs` proves `RecordAgreesWithLedger`: record and ledger compute
the same fee unless a self-loop fee is kept.

`StreamSession_proofs` proves, for any number of sockets and breaks, any length of
the output and any size of the buffer: `TypeCorrect`, `SessionsAreTimed`,
`BufferCoversSession` and `StreamImplementsPipe`, the refinement of
`OrderedPipe`. The pipe's steps only look at the head of a queue, so the
invariant has to say what every frame in flight implies. `UpInv`: a chunk is one
the job has made, a completion states how the job ended and how much it made;
these stay true because a job that has ended makes nothing more. `DownInv`: an
acknowledgement never runs ahead of the session, which is why dropping what is
acknowledged loses nothing. For resumable sessions the sequence check does the
rest (`session.next` is the length of what was heard). Legacy sessions have no
such check, and the argument is one of position: `LegacyInv` says that the frames
on the registered socket carry on exactly where the requester's stream is,
because a legacy job dies with its socket and its session with the socket's
registration; `RegistryInv` (no registration waits behind a registered one) rules
out that a socket is registered twice.

`ProviderRecord_proofs` proves, for any record keys, settings, operations and
retries: `TypeCorrect`, `OwnerSettingsSurvive`, `SiblingsAreSafe` and
`IndexKeepsTheNewest`, the safety half of the index's convergence. The
invariant `Inv` adds to the types what the compare-and-swap rests on: the agent's
snapshot of what it will write or delete holds records of its own alone
(`AgentOK`), and a key never used has neither record nor history (`RecordsOK`).
That the agent has a record to publish onto at all needs an argument: `Newest` is
a CHOOSE, and `NewestIsOne` shows it has a candidate because stamps are bounded
and the natural numbers well founded.

`IndexKeepsTheNewest` is about the order of commits, which the store cannot see: it
compares stamps. Three facts connect the two. Every row and every mirror on its way
is the original record or a commit of its key (`RowsKnown`, `MirrorsKnown`, together
`Known`); the row of a key nobody asked to remove never loses in `createdAt`
(`NoOlder`: each handled, unskipped commit of the key has a stamp no later than the
row's); and a commit that was bumped has a later stamp than every version before
it. A row that is known and no older than a bumped commit is therefore that commit
or a later one.

`JobDispatch_proofs` proves, for any machines, jobs, sockets, attempts and
thresholds: `TypeCorrect`, `OutputStaysItsOwn`, `NobodyBlamedTwice`,
`NobodyShedsCooldown` and `NobodyEvictsALiveEntry`. `OutputOfAttempt` speaks of
what a stream has carried and is not inductive. `Placed(j, a, m)` gathers the
places an attempt can be: a post on its way, a run, a session. `Sources` says
that while a request may pick again every machine with an attempt of it belongs
to a burnt owner, the target it waits for excepted; hence `OneAttempt`, no
machine ever has two attempts of a job, and a chunk that `ownedBy` lets through
is of the attempt of its session. Every step but `Pick` only removes placements
(`Shrinks`) and moves a request in one of three ways (`Evolves`), so the
invariant is proved for all of them at once and for `Pick` by hand. `BlamedOnce`
is inductive with the types: a session opens with a credit and closes with, at
most, one debit, by whichever of five operations comes first; the credit of one
that `ResponseOver` or a re-registration closes is simply kept.

`PromptHandedOn` is the refinement of `PromptCustody`. `OwnersCounted` says that the
owners asked are as many as the attempts made, so that the bound on attempts is
one on owners; it holds because `Candidates` leaves out the owners tried and
`Failover` adds the last one to them. Every step but `Pick` leaves the owners asked
as they are and reopens no request (`Carries`), moves at most one request
(`OneMoves`) and adds no placement (`Shrinks`, from the proof of `OutputStaysItsOwn`);
`Pick` adds one, at the owner it asks (`PickAsks`).

Every safety property that a passing run checks is proved. Only model-checked are
the liveness properties, since fairness is out of the prover's reach:
`ReceiptEventuallyPaid`, the endings of `StreamSession` and `JobDispatch`, `Rejoins`
and the second half of the index's convergence. Of the arithmetic, the fee
functions are proved as the operators of `ExchangeFees`; JavaScript's numbers are
taken to be exact, as they are below 2^53.

## 5. Findings

1. Reconcile does not cover a restart in the middle of a settlement
   (`settlement_restart`).
2. Admission reserves nothing, so two jobs admitted against one balance cannot
   both settle (`ledger_concurrent`; README.md:100-101).
3. A registration whose token is verified after its socket has closed is entered
   all the same and stays until the sweep (`session_registration`;
   connection.ts:13). In `JobDispatch` the same step overwrites and closes a live
   successor, and its challenge interval, which nobody clears, goes on taking the
   attestation from whatever entry the machine has; `Rejoins` shows that the machine
   recovers each time.
4. The agent deletes a duplicate record before it has written the settings it
   took from it (`record_stranded`; pds.rs:455-457).

Two observations about `createdAt` as a version, which no run is given to:

* store.ts:14-17 calls it monotonic for provider records. It is not. The commands
  (main.rs:335-531) rewrite the record and leave it; two edits within one instant
  tie; and the agent draws its stamp before its swap loop (main.rs:2542), so that a
  publish which is retried, or overtaken by an owner's edit it then reads, commits an
  older stamp over a newer one.
* The store applies a body whose stamp is equal and refuses one whose stamp is older.
  So after an edit from the command line a late mirror of the version before it puts
  that version back, and after such a retry the index refuses the newest commit until
  the next publish. Without its premise `Bumped`, `HandledIsIndexed` is violated, by
  the command line alone: create, edit, handle both, mirror the creation late. This
  is what record-transactor.server.ts:83-87 warns of, and the console heeds.

## 6. Not modelled

Signatures, canonical encoding and sealing (pure functions of their input);
schemas and migrations; metrics and logs; the console and the shells (user
interfaces); engines and model loading in the provider. In the pipeline: the cap
of 10000 remembered rejections, the backfill's filter, records deleted from the
store by their owner, the ring buffer of outcomes. In the ledger: the operator's
wipe, the read models (leaderboards, windows of the console). In the stream: the
byte caps of the buffer (they fail a job as the frame cap does), fingerprints and
the cap on tombstones, several sessions of one machine, keepalives. In the index:
why an event fails (`DeliverFails` stands for a commit that cannot be verified or
parsed, a body the indexer refuses and a subscriber's error alike), and the relay's
delete events, which the code ignores. In the registry: the code-identity challenge,
ranking and filters, soft registrations without a token.

## 7. Plan

What is left, in this order: several jobs at one provider, with its slots and the
byte caps of the replay buffer, composed with `JobDispatch`'s sessions; the
app-password session with its shared refresh; device pairing (a code is consumed once); purge
and the relay's delete events in the index.
