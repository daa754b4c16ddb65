--------------------------- MODULE ProviderRecord ---------------------------
(***************************************************************************)
(* The provider records of one DID: who writes them, and what the AppView  *)
(* shows of them. One machine's agent publishes its record through         *)
(* dedup_and_publish_provider (provider/src/main.rs); the owner edits it   *)
(* from the console (transactRecord) and from the command line             *)
(* (cmd_set_active and its siblings). All of them read the record and      *)
(* write it back under a compare-and-swap on its CID. The index of         *)
(* RecordIndex is fed by the commits and by the bridge.                    *)
(*                                                                         *)
(* A CID is a hash of the content, so the model compares bodies. Of a body *)
(* it keeps createdAt, the owner's settings, the agent's own state and the *)
(* identity the reconciliation reads:                                      *)
(*   "current"     this machine's fingerprint or current signing key       *)
(*   "legacy"      this machine before its key rotation, no fingerprint    *)
(*   "sibling"     another machine of the owner, with a fingerprint        *)
(*   "oldsibling"  another machine, same model and name, no fingerprint    *)
(***************************************************************************)
EXTENDS RecordIndex

CONSTANTS
    OwnerKeys,       \* settings only the owner writes (OWNER_INTENT_KEYS)
    Settings,        \* the values of a setting; None is the removed key
    Txns,            \* owner operations
    Kinds,           \* what they are: "console" and "cli" edits, "remove"
    Edits,           \* the edits an operation may make: [key, val]
    InitialPds,      \* the repositories the agent may find
    ConsoleAttempts, \* maxAttempts of transactRecord (6)
    CliAttempts,     \* MAX_ATTEMPTS of the commands (4 or 5)
    AgentAttempts,   \* MAX_ATTEMPTS of dedup_and_publish_provider (6)
    MaxPublishes,    \* bound: publishes of the agent
    MaxTime          \* bound: the wall clock

VARIABLES
    pds,      \* pds[k]: the record in the owner's repository, or None
    now,      \* the wall clock, in units coarse enough for two stamps to tie
    agent,    \* the publish in progress
    cached,   \* ~/.cocore/provider-rkey.json
    txn,      \* txn[t]: the owner operation in progress
    used,     \* record keys ever used: createRecord draws a fresh one
    setting   \* history: the owner's last word on each setting of each record

vars == <<indexVars, pds, now, agent, cached, txn, used, setting>>

Identity == {"current", "legacy", "sibling", "oldsibling"}
AgentState == {"provisioning", "serving", "offline"}
Value == Settings \cup {None}
Body == [stamp : 0 .. MaxTime, owner : [OwnerKeys -> Value],
         agent : AgentState, id : Identity]
NoSettings == [key \in OwnerKeys |-> None]

IdleAgent == [pc |-> "idle", target |-> "offline", stamp |-> 0, attempt |-> 0,
              view |-> [k \in Rkeys |-> None], canon |-> None, todo |-> {},
              count |-> 0]
NewTxn == [pc |-> "new", kind |-> None, rkey |-> None, edit |-> None, view |-> None,
           stamp |-> 0, attempt |-> 0]

Over == [NewTxn EXCEPT !.pc = "done"]

ASSUME ProviderRecordAssumption ==
    /\ None \notin Settings
    /\ None \notin Rkeys /\ None \notin Nat
    /\ Kinds \subseteq {"console", "cli", "remove"}
    /\ Edits \subseteq [key : OwnerKeys, val : Value]
    /\ ConsoleAttempts \in Nat /\ CliAttempts \in Nat /\ AgentAttempts \in Nat
    /\ MaxTime \in Nat /\ MaxPublishes \in Nat
    /\ InitialPds \subseteq [Rkeys -> Body \cup {None}]
    /\ None \notin Body

Init ==
    /\ IndexInit
    /\ pds \in InitialPds
    /\ idx = pds
    /\ origin = pds
    /\ now = 0
    /\ agent = IdleAgent
    /\ cached \in {None} \cup {k \in Rkeys : pds[k] # None /\ pds[k].id \in {"current", "legacy"}}
    /\ txn = [t \in Txns |-> NewTxn]
    /\ used = {k \in Rkeys : pds[k] # None}
    /\ setting = [k \in Rkeys |-> IF pds[k] = None THEN NoSettings ELSE pds[k].owner]

----------------------------------------------------------------------------
(* reconcile_provider_records: which of the listed records are this        *)
(* machine's. A legacy record whose hardware profile matches is adopted    *)
(* only when it is the only one; the record of the cached key always is,   *)
(* unless its fingerprint says otherwise.                                  *)
Definitely(view, k) ==
    /\ view[k] # None
    /\ \/ view[k].id = "current"
       \/ view[k].id \in {"legacy", "oldsibling"} /\ k = cached

(* Mutant of LegacyCandidates: the hardware profile overrules a fingerprint. *)
AnyWithProfile(view) ==
    {k \in Rkeys : view[k] # None /\ view[k].id # "current" /\ k # cached}

LegacyCandidates(view) ==
    {k \in Rkeys : /\ view[k] # None
                   /\ view[k].id \in {"legacy", "oldsibling"}
                   /\ k # cached}

MineIn(view) ==
    {k \in Rkeys : Definitely(view, k)}
        \cup (IF \E k \in Rkeys : LegacyCandidates(view) = {k}
              THEN LegacyCandidates(view) ELSE {})

Newest(view, S) ==
    CHOOSE k \in S : \A j \in S : view[j].stamp <= view[k].stamp

(* Mutant of Canonical: the cached key, whether or not the record is there. *)
AlwaysCached(view) ==
    IF cached # None THEN cached ELSE Newest(view, MineIn(view))

Canonical(view) ==
    IF cached \in MineIn(view) THEN cached ELSE Newest(view, MineIn(view))

(* The body to publish onto: the canonical one, each absent setting filled *)
(* from the newest other record of this machine that has it.               *)
Harvest(view, c) ==
    [key \in OwnerKeys |->
        LET having == {j \in MineIn(view) : view[j].owner[key] # None} IN
        IF view[c].owner[key] # None \/ having = {}
        THEN view[c].owner[key]
        ELSE view[Newest(view, having)].owner[key]]

(* merge_agent_provider_fields: the agent's fields, createdAt and identity *)
(* among them, over that body; never a setting of the owner.               *)
Merge(view, c) ==
    [stamp |-> agent.stamp, owner |-> Harvest(view, c),
     agent |-> agent.target, id |-> "current"]

----------------------------------------------------------------------------
(* Between two publishes the agent keeps what it last meant to publish.    *)
Rest == [IdleAgent EXCEPT !.target = agent.target, !.count = agent.count]

(* The agent. A publish is made at serve start ("provisioning"), when the  *)
(* engines are up and at each attestation refresh ("serving") and from the *)
(* shutdown handler ("offline"). The record, createdAt included, is built  *)
(* before the first read and never rebuilt by a retry.                     *)
Follows(target) ==
    /\ target = "offline" => agent.target = "serving"
    /\ target = "serving" => agent.target # "offline"

AgentBegin(target) ==
    /\ agent.pc = "idle"
    /\ agent.count < MaxPublishes
    /\ Follows(target)
    /\ agent' = [agent EXCEPT !.pc = "list", !.target = target, !.stamp = now,
                              !.attempt = 1, !.count = @ + 1]
    /\ UNCHANGED <<indexVars, pds, now, cached, txn, used, setting>>

(* list_my_records and the reconciliation of what it returned. Duplicates  *)
(* are deleted on the first attempt only.                                  *)
AgentList ==
    /\ agent.pc = "list"
    /\ agent' =
         IF MineIn(pds) = {}
         THEN [agent EXCEPT !.pc = "create", !.view = pds]
         ELSE [agent EXCEPT !.pc = "put", !.view = pds, !.canon = Canonical(pds),
                            !.todo = IF agent.attempt = 1
                                     THEN MineIn(pds) \ {Canonical(pds)} ELSE {}]
    /\ UNCHANGED <<indexVars, pds, now, cached, txn, used, setting>>

(* One duplicate: deleted under the CID it was listed with. A refused swap *)
(* is answered "already gone", and the row is unpublished all the same. A  *)
(* call that fails is logged and the next duplicate follows.               *)
AgentDelete(k) ==
    /\ agent.pc = "put" /\ k \in agent.todo
    /\ agent' = [agent EXCEPT !.todo = @ \ {k}]
    /\ \/ /\ pds' = [pds EXCEPT ![k] = IF @ = agent.view[k] THEN None ELSE @]
          /\ Unpublished(k)
       \/ UNCHANGED <<indexVars, pds>>
    /\ UNCHANGED <<now, cached, txn, used, setting>>

(* Mutant of AgentPut: no swap guard. *)
AgentPutBlind ==
    /\ agent.pc = "put" /\ agent.todo = {}
    /\ pds' = [pds EXCEPT ![agent.canon] = Merge(agent.view, agent.canon)]
    /\ Published(agent.canon, Merge(agent.view, agent.canon))
    /\ agent' = Rest
    /\ cached' \in {cached, agent.canon}
    /\ UNCHANGED <<now, txn, used, setting>>

(* The put at the canonical key, under the CID of the canonical record. A  *)
(* refused swap reads again, a limited number of times. The answer may be  *)
(* lost, and then the key is not cached.                                   *)
AgentPut ==
    /\ agent.pc = "put" /\ agent.todo = {}
    /\ pds[agent.canon] = agent.view[agent.canon]
    /\ pds' = [pds EXCEPT ![agent.canon] = Merge(agent.view, agent.canon)]
    /\ Published(agent.canon, Merge(agent.view, agent.canon))
    /\ agent' = Rest
    /\ cached' \in {cached, agent.canon}
    /\ UNCHANGED <<now, txn, used, setting>>

AgentConflict ==
    /\ agent.pc = "put" /\ agent.todo = {}
    /\ pds[agent.canon] # agent.view[agent.canon]
    /\ agent' = IF agent.attempt < AgentAttempts
                THEN [agent EXCEPT !.pc = "list", !.attempt = @ + 1]
                ELSE Rest
    /\ UNCHANGED <<indexVars, pds, now, cached, txn, used, setting>>

(* No record is this machine's: a new one under a fresh key.               *)
AgentCreate(k) ==
    /\ agent.pc = "create" /\ k \notin used
    /\ LET body == [stamp |-> agent.stamp, owner |-> NoSettings,
                    agent |-> agent.target, id |-> "current"]
       IN pds' = [pds EXCEPT ![k] = body] /\ Published(k, body)
    /\ used' = used \cup {k}
    /\ agent' = Rest
    /\ cached' \in {cached, k}
    /\ UNCHANGED <<now, txn, setting>>

(* A failed read or request, the timeout of a publish (5s at shutdown, 10s *)
(* at a refresh), or the death of the process.                             *)
AgentAbort ==
    /\ agent.pc # "idle"
    /\ agent' = Rest
    /\ UNCHANGED <<indexVars, pds, now, cached, txn, used, setting>>

----------------------------------------------------------------------------
(* The owner. The console works on a row of its dashboard, the command     *)
(* line on the record find_my_provider_record takes for this machine's.    *)
Target(t, kind, k) ==
    CASE kind = "cli" -> pds[k] # None /\ (k = cached \/ pds[k].id = "current")
      [] kind # "cli" -> IF txn[t].pc = "new" THEN idx[k] # None ELSE k = txn[t].rkey

Attempts(t) == IF txn[t].kind = "cli" THEN CliAttempts ELSE ConsoleAttempts

(* What follows from the record that was read: one that is not there ends  *)
(* the operation, and so does, for the commands, one that already says so. *)
(* The console stamps createdAt between its read and its write, the        *)
(* commands leave it alone.                                                *)
AfterRead(t, kind, k, e) ==
    IF pds[k] = None \/ (kind = "cli" /\ pds[k].owner[e.key] = e.val)
    THEN Over
    ELSE [pc |-> "write", kind |-> kind, rkey |-> k, edit |-> e, view |-> pds[k],
          stamp |-> now, attempt |-> txn[t].attempt + 1]

(* transactRecord and cmd_set_*: read the latest record. *)
TxnRead(t) ==
    /\ txn[t].pc \in {"new", "retry"}
    /\ \E kind \in Kinds, k \in Rkeys, e \in Edits :
          /\ Target(t, kind, k)
          /\ txn[t].pc = "retry" => kind = txn[t].kind /\ e = txn[t].edit
          /\ txn' = [txn EXCEPT ![t] = AfterRead(t, kind, k, e)]
    /\ UNCHANGED <<indexVars, pds, now, agent, cached, used, setting>>

Patched(t) ==
    [txn[t].view EXCEPT !.owner[txn[t].edit.key] = txn[t].edit.val,
                        !.stamp = IF txn[t].kind = "cli" THEN @ ELSE txn[t].stamp]

TxnCommit(t) ==
    /\ txn[t].pc = "write" /\ txn[t].kind # "remove"
    /\ pds[txn[t].rkey] = txn[t].view
    /\ pds' = [pds EXCEPT ![txn[t].rkey] = Patched(t)]
    /\ Published(txn[t].rkey, Patched(t))
    /\ setting' = [setting EXCEPT ![txn[t].rkey][txn[t].edit.key] = txn[t].edit.val]
    /\ txn' = [txn EXCEPT ![t] = Over]
    /\ UNCHANGED <<now, agent, cached, used>>

TxnConflict(t) ==
    /\ txn[t].pc = "write" /\ txn[t].kind # "remove"
    /\ pds[txn[t].rkey] # txn[t].view
    /\ txn' = [txn EXCEPT ![t] = IF @.attempt < Attempts(t)
                                 THEN [@ EXCEPT !.pc = "retry"] ELSE Over]
    /\ UNCHANGED <<indexVars, pds, now, agent, cached, used, setting>>

(* deleteMyProviderRecord (an unpaired machine, or a loser of the console's *)
(* own clean-up): as for the agent, a refused swap is taken for "gone".     *)
TxnDelete(t) ==
    /\ txn[t].pc = "write" /\ txn[t].kind = "remove"
    /\ LET k == txn[t].rkey
           gone == pds[k] = txn[t].view
       IN /\ pds' = [pds EXCEPT ![k] = IF gone THEN None ELSE @]
          /\ setting' = [setting EXCEPT ![k] = IF gone THEN NoSettings ELSE @]
          /\ Unpublished(k)
    /\ txn' = [txn EXCEPT ![t] = Over]
    /\ UNCHANGED <<now, agent, cached, used>>

(* A read or a write that fails for another reason ends the operation.     *)
TxnAbort(t) ==
    /\ txn[t].pc \in {"retry", "write"}
    /\ txn' = [txn EXCEPT ![t] = Over]
    /\ UNCHANGED <<indexVars, pds, now, agent, cached, used, setting>>

Tick ==
    /\ now < MaxTime
    /\ now' = now + 1
    /\ UNCHANGED <<indexVars, pds, agent, cached, txn, used, setting>>

AgentNext ==
    \/ \E target \in AgentState : AgentBegin(target)
    \/ AgentList
    \/ \E k \in Rkeys : AgentDelete(k) \/ AgentCreate(k)
    \/ AgentPut \/ AgentConflict \/ AgentAbort

TxnNext(t) ==
    TxnRead(t) \/ TxnCommit(t) \/ TxnConflict(t) \/ TxnDelete(t) \/ TxnAbort(t)

Next ==
    \/ AgentNext
    \/ \E t \in Txns : TxnNext(t)
    \/ Tick
    \/ IndexNext /\ UNCHANGED <<pds, now, agent, cached, txn, used, setting>>

Spec == Init /\ [][Next]_vars

(* The relay's subscription is supervised and reconnects for ever, and it  *)
(* goes on to the next event whatever became of the last; nothing makes    *)
(* the agent publish, the owner edit, or a bridge call arrive.             *)
FairSpec ==
    /\ Spec
    /\ WF_vars(/\ Deliver \/ DeliverFails
               /\ UNCHANGED <<pds, now, agent, cached, txn, used, setting>>)

----------------------------------------------------------------------------
Commit == [rkey : Rkeys, body : Body]

(* The records, snapshots and messages have their types, and the snapshot  *)
(* an agent or an owner operation writes from holds the record it writes.  *)
TypeOK ==
    /\ pds \in [Rkeys -> Body \cup {None}]
    /\ idx \in [Rkeys -> Body \cup {None}]
    /\ feed \in Seq(Commit)
    /\ pos \in 0 .. Len(feed)
    /\ mirrors \subseteq [rkey : Rkeys, body : Body \cup {None}]
    /\ breaks \in Nat
    /\ skipped \subseteq 1 .. Len(feed)
    /\ removals \subseteq Rkeys
    /\ origin \in [Rkeys -> Body \cup {None}]
    /\ now \in 0 .. MaxTime
    /\ agent \in [pc : {"idle", "list", "put", "create"}, target : AgentState,
                  stamp : 0 .. MaxTime, attempt : Nat, count : 0 .. MaxPublishes,
                  view : [Rkeys -> Body \cup {None}], canon : Rkeys \cup {None},
                  todo : SUBSET Rkeys]
    /\ agent.pc = "put" => agent.canon \in Rkeys /\ agent.view[agent.canon] # None
    /\ cached \in Rkeys \cup {None}
    /\ txn \in [Txns -> [pc : {"new", "retry", "write", "done"},
                         kind : Kinds \cup {None}, rkey : Rkeys \cup {None}, edit : Edits \cup {None},
                         view : Body \cup {None}, stamp : 0 .. MaxTime, attempt : Nat]]
    /\ \A t \in Txns : txn[t].pc = "write" =>
          txn[t].rkey \in Rkeys /\ txn[t].edit \in Edits /\ txn[t].view \in Body
    /\ used \subseteq Rkeys
    /\ setting \in [Rkeys -> [OwnerKeys -> Value]]

(* A setting the owner gave a record is there until the owner gives it     *)
(* another value or removes it: no publish of the agent, no edit of        *)
(* another setting and no operation that started from an older version of  *)
(* the record undoes it (record-transactor.server.ts:7-17, and the merge   *)
(* of pds.rs).                                                             *)
OwnerSettingKept ==
    \A k \in Rkeys, key \in OwnerKeys :
        pds[k] # None /\ setting[k][key] # None
            => pds[k].owner[key] = setting[k][key]

(* The agent's clean-up never touches the record of a machine with another *)
(* fingerprint (pds.rs:411-424): such a record changes by the owner alone. *)
SiblingUntouched ==
    [][\A k \in Rkeys :
          pds[k] # None /\ pds[k].id = "sibling" /\ pds'[k] # pds[k]
              => agent' = agent]_vars

(* pds.rs:455-457: a setting stranded on another record of this machine is *)
(* carried forward. When no publish is running, a setting of a record the  *)
(* agent has deleted is on some record still (for edits that remove none). *)
IntentCarriedForward ==
    agent.pc = "idle" =>
        \A k \in Rkeys, key \in OwnerKeys :
            pds[k] = None /\ setting[k][key] # None
                => \E j \in Rkeys : pds[j] # None /\ pds[j].owner[key] # None

(* The writer of commit i gave it a createdAt later than that of every     *)
(* version before it, as transactRecord tells its callers to (record-      *)
(* transactor.server.ts:83-87). The commands never do, an edit within the  *)
(* same instant ties, and a retry of the agent may bring a stamp older     *)
(* than the edit it comes after.                                           *)
Bumped(i) ==
    LET k == feed[i].rkey IN
    /\ origin[k] # None => origin[k].stamp < feed[i].body.stamp
    /\ \A v \in 1 .. i - 1 :
          feed[v].rkey = k => feed[v].body.stamp < feed[i].body.stamp

(* What the index owes such a commit: it shows it or a later commit of the *)
(* record, unless the subscription passed over it or somebody asked to     *)
(* remove the record.                                                      *)
Indexed(i) ==
    LET k == feed[i].rkey IN
    i \notin skipped /\ k \notin removals /\ Bumped(i)
        => \E v \in i .. Len(feed) : feed[v] = [rkey |-> k, body |-> idx[k]]

(* A commit that was bumped past its predecessors and has been handled     *)
(* stays indexed: no mirror that comes late, no event that comes again and *)
(* no restart puts a version back that was committed before it, or loses   *)
(* the row (store.ts:11-21, upsert). Of other commits nothing is promised, *)
(* and a late mirror does put an older version back.                       *)
HandledIsIndexed == \A i \in 1 .. pos : Indexed(i)

(* The relay catches up, and the index with it (relay-firehose.ts,         *)
(* superviseRelay and handleEvent): for good, it shows of every record     *)
(* whose newest commit was bumped, and not passed over, that commit.       *)
NewestCommitIndexed == <>[](\A i \in 1 .. Len(feed) : Indexed(i))
=============================================================================
