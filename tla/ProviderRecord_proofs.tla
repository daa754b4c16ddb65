----------------------- MODULE ProviderRecord_proofs -----------------------
(***************************************************************************)
(* Type correctness and the safety of ProviderRecord, for any record keys, *)
(* settings, owner operations, retries and bounds. That a setting stranded *)
(* on a duplicate survives is not among them: record_stranded refutes it.  *)
(***************************************************************************)
EXTENDS ProviderRecord, WellFoundedInduction, TLAPS

----------------------------------------------------------------------------
(* The reconciliation.                                                     *)

View == [Rkeys -> Body \cup {None}]

(* Stamps are bounded, so among records there is one no other is newer     *)
(* than: the least of the distances to MaxTime.                            *)
LEMMA NewestIsOne ==
    ASSUME NEW view \in View, NEW S \in SUBSET Rkeys, S # {},
           \A k \in S : view[k] # None
    PROVE  Newest(view, S) \in S
<1> DEFINE T == {MaxTime - view[k].stamp : k \in S}
<1>1. MaxTime \in Nat
  BY ProviderRecordAssumption
<1>2. \A k \in S : view[k].stamp \in 0 .. MaxTime
  BY DEF View, Body
<1>3. T \subseteq Nat /\ T # {}
  BY <1>1, <1>2
<1>4. \E x \in T : \A y \in T : ~(<<y, x>> \in OpToRel(<, Nat))
  <2> HIDE DEF T
  <2> QED BY <1>3, NatLessThanWellFounded, WFMin
<1>5. PICK x \in T : \A y \in T : ~(<<y, x>> \in OpToRel(<, Nat))
  BY <1>4
<1>6. \A y \in T : x <= y
  <2> SUFFICES ASSUME NEW y \in T PROVE x <= y
    OBVIOUS
  <2>1. x \in Nat /\ y \in Nat
    BY <1>3
  <2>2. ~(y < x)
    BY <1>5, <2>1 DEF OpToRel
  <2> QED BY <2>1, <2>2
<1>7. PICK k \in S : x = MaxTime - view[k].stamp
  OBVIOUS
<1>8. \A j \in S : view[j].stamp <= view[k].stamp
  <2> SUFFICES ASSUME NEW j \in S PROVE view[j].stamp <= view[k].stamp
    OBVIOUS
  <2>1. MaxTime - view[k].stamp <= MaxTime - view[j].stamp
    BY <1>6, <1>7
  <2> QED BY <1>1, <1>2, <2>1
<1> QED BY <1>8 DEF Newest

(* What the agent takes for its own exists and is not a sibling's.         *)
LEMMA MineIsMine ==
    ASSUME NEW view \in View
    PROVE  /\ MineIn(view) \subseteq Rkeys
           /\ \A k \in MineIn(view) : view[k] # None /\ view[k].id # "sibling"
           /\ MineIn(view) # {} => Canonical(view) \in MineIn(view)
<1>1. MineIn(view) \subseteq Rkeys
  BY DEF MineIn, LegacyCandidates
<1>2. \A k \in MineIn(view) : view[k] # None /\ view[k].id # "sibling"
  <2> SUFFICES ASSUME NEW k \in MineIn(view) PROVE view[k] # None /\ view[k].id # "sibling"
    OBVIOUS
  <2>1. Definitely(view, k) \/ k \in LegacyCandidates(view)
    BY DEF MineIn
  <2> QED BY <2>1 DEF Definitely, LegacyCandidates
<1>3. MineIn(view) # {} => Newest(view, MineIn(view)) \in MineIn(view)
  BY <1>1, <1>2, NewestIsOne
<1> QED BY <1>1, <1>2, <1>3 DEF Canonical

(* The body the agent publishes keeps every setting its base has.          *)
LEMMA MergeKeeps ==
    ASSUME agent.stamp \in 0 .. MaxTime, agent.target \in AgentState,
           NEW view \in View, NEW c \in Rkeys, view[c] # None
    PROVE  /\ Merge(view, c) \in Body
           /\ \A key \in OwnerKeys : view[c].owner[key] # None
                 => Merge(view, c).owner[key] = view[c].owner[key]
<1>1. view[c].owner \in [OwnerKeys -> Value]
  BY DEF View, Body
<1>2. \A key \in OwnerKeys : Harvest(view, c)[key] \in Value
  <2> SUFFICES ASSUME NEW key \in OwnerKeys PROVE Harvest(view, c)[key] \in Value
    OBVIOUS
  <2> DEFINE having == {j \in MineIn(view) : view[j].owner[key] # None}
  <2>1. having \subseteq Rkeys /\ \A j \in having : view[j] # None
    BY MineIsMine
  <2>2. CASE view[c].owner[key] # None \/ having = {}
    BY <1>1, <2>2 DEF Harvest
  <2>3. CASE ~(view[c].owner[key] # None \/ having = {})
    <3>1. Newest(view, having) \in having
      <4> HIDE DEF having
      <4> QED BY <2>1, <2>3, NewestIsOne
    <3>2. view[Newest(view, having)].owner \in [OwnerKeys -> Value]
      BY <2>1, <3>1 DEF View, Body
    <3> QED BY <2>3, <3>2 DEF Harvest
  <2> QED BY <2>2, <2>3
<1>3. Harvest(view, c) \in [OwnerKeys -> Value]
  BY <1>2 DEF Harvest
<1>4. \A key \in OwnerKeys : view[c].owner[key] # None => Harvest(view, c)[key] = view[c].owner[key]
  BY DEF Harvest
<1>5. Merge(view, c).owner = Harvest(view, c)
  BY DEF Merge
<1>6. Merge(view, c) \in Body
  BY <1>3 DEF Merge, Body, Identity
<1> QED BY <1>4, <1>5, <1>6

----------------------------------------------------------------------------
(* The index.                                                              *)

IndexOK ==
    /\ idx \in View
    /\ feed \in Seq(Commit)
    /\ pos \in 0 .. Len(feed)
    /\ mirrors \subseteq [rkey : Rkeys, body : Body \cup {None}]
    /\ breaks \in Nat
    /\ skipped \subseteq 1 .. Len(feed)
    /\ removals \subseteq Rkeys
    /\ origin \in View

LEMMA PublishedTyped ==
    ASSUME IndexOK, NEW k \in Rkeys, NEW body \in Body, Published(k, body)
    PROVE  IndexOK'
<1> DEFINE c == [rkey |-> k, body |-> body]
<1>1. c \in Commit /\ c \in [rkey : Rkeys, body : Body \cup {None}]
  BY DEF Commit
<1>2. feed' = Append(feed, c) /\ mirrors' = mirrors \cup {c}
      /\ UNCHANGED <<idx, pos, breaks, skipped, removals, origin>>
  BY DEF Published
<1> HIDE DEF c
<1>3. feed' \in Seq(Commit) /\ Len(feed') = Len(feed) + 1 /\ Len(feed) \in Nat
  BY <1>1, <1>2 DEF IndexOK
<1> QED BY <1>1, <1>2, <1>3 DEF IndexOK

LEMMA UnpublishedTyped ==
    ASSUME IndexOK, NEW k \in Rkeys, Unpublished(k)
    PROVE  IndexOK'
<1>1. [rkey |-> k, body |-> None] \in [rkey : Rkeys, body : Body \cup {None}]
  OBVIOUS
<1> QED BY <1>1 DEF IndexOK, Unpublished

LEMMA IndexTyped ==
    ASSUME IndexOK, IndexNext \/ UNCHANGED indexVars
    PROVE  IndexOK'
<1>1. Len(feed) \in Nat
  BY DEF IndexOK
<1>2. CASE Deliver
  <2>1. feed[pos + 1] \in Commit
    BY <1>1, <1>2 DEF Deliver, IndexOK
  <2>2. idx' \in View /\ pos' \in 0 .. Len(feed)
    BY <1>1, <1>2, <2>1 DEF Deliver, Upsert, IndexOK, View, Commit
  <2> QED BY <1>2, <2>2 DEF Deliver, IndexOK
<1>7. CASE DeliverFails
  <2>1. pos + 1 \in 1 .. Len(feed) /\ pos + 1 \in 0 .. Len(feed) /\ breaks + 1 \in Nat
    BY <1>1, <1>7 DEF DeliverFails, IndexOK
  <2> QED BY <1>7, <2>1 DEF DeliverFails, IndexOK
<1>3. CASE Reconnect
  BY <1>1, <1>3 DEF Reconnect, IndexOK
<1>4. CASE Restart
  <2>1. pos \in Nat /\ (pos + 1) .. Len(feed) \subseteq 1 .. Len(feed)
    BY <1>1 DEF IndexOK
  <2>2. skipped' = skipped \cup ((pos + 1) .. Len(feed)) /\ pos' = Len(feed)
    BY <1>4 DEF Restart
  <2>3. breaks' \in Nat /\ UNCHANGED <<idx, feed, mirrors, removals, origin>>
    BY <1>4 DEF Restart, IndexOK
  <2>4. skipped' \subseteq 1 .. Len(feed)
    <3> DEFINE more == (pos + 1) .. Len(feed)
               all == 1 .. Len(feed)
    <3>1. skipped \subseteq all /\ more \subseteq all /\ skipped' = skipped \cup more
      BY <2>1, <2>2 DEF IndexOK
    <3> HIDE DEF more, all
    <3>2. skipped' \subseteq all
      BY <3>1
    <3> QED BY <3>2 DEF all
  <2>5. pos' \in 0 .. Len(feed)
    BY <1>1, <2>2
  <2> QED BY <2>3, <2>4, <2>5 DEF IndexOK
<1>5. ASSUME NEW m \in mirrors, BridgePublish(m) \/ BridgeUnpublish(m)
      PROVE  IndexOK'
  <2>1. m.rkey \in Rkeys /\ m.body \in Body \cup {None}
    BY DEF IndexOK
  <2>2. idx' \in View
    BY <1>5, <2>1 DEF BridgePublish, BridgeUnpublish, Upsert, IndexOK, View
  <2> QED BY <1>5, <2>2 DEF BridgePublish, BridgeUnpublish, IndexOK
<1>6. CASE UNCHANGED indexVars
  BY <1>6 DEF indexVars, IndexOK
<1> QED BY <1>2, <1>3, <1>4, <1>5, <1>6, <1>7 DEF IndexNext

----------------------------------------------------------------------------
(* Types, and what follows from the compare-and-swap: the agent's snapshot *)
(* holds its own records alone, and a key never used has no history.       *)

AgentType ==
    [pc : {"idle", "list", "put", "create"}, target : AgentState,
     stamp : 0 .. MaxTime, attempt : Nat, count : 0 .. MaxPublishes,
     view : View, canon : Rkeys \cup {None}, todo : SUBSET Rkeys]

AgentOK ==
    /\ agent \in AgentType
    /\ agent.pc = "put" =>
         /\ agent.canon \in Rkeys
         /\ \A k \in agent.todo \cup {agent.canon} :
               agent.view[k] # None /\ agent.view[k].id # "sibling"

TxnOK ==
    /\ txn \in [Txns -> [pc : {"new", "retry", "write", "done"},
                         kind : Kinds \cup {None}, rkey : Rkeys \cup {None}, edit : Edits \cup {None},
                         view : Body \cup {None}, stamp : 0 .. MaxTime, attempt : Nat]]
    /\ \A t \in Txns : txn[t].pc = "write" =>
          txn[t].rkey \in Rkeys /\ txn[t].edit \in Edits /\ txn[t].view \in Body

RecordsOK ==
    /\ pds \in View
    /\ now \in 0 .. MaxTime
    /\ cached \in Rkeys \cup {None}
    /\ used \subseteq Rkeys
    /\ setting \in [Rkeys -> [OwnerKeys -> Value]]
    /\ \A k \in Rkeys : k \notin used => pds[k] = None /\ setting[k] = NoSettings

Inv == IndexOK /\ AgentOK /\ TxnOK /\ RecordsOK /\ OwnerSettingKept

LEMMA IdleAgentTyped == IdleAgent \in AgentType /\ IdleAgent.pc = "idle"
<1>1. MaxTime \in Nat /\ MaxPublishes \in Nat /\ [k \in Rkeys |-> None] \in View
  BY ProviderRecordAssumption DEF View
<1> QED BY <1>1 DEF IdleAgent, AgentState, AgentType

LEMMA InvInit == Init => Inv
<1> SUFFICES ASSUME Init PROVE Inv
  OBVIOUS
<1>1. MaxTime \in Nat /\ MaxPublishes \in Nat /\ None \notin Body
  BY ProviderRecordAssumption
<1>2. pds \in View
  BY ProviderRecordAssumption DEF Init, View
<1>3. NoSettings \in [OwnerKeys -> Value]
  BY DEF NoSettings, Value
<1>4. IndexOK
  BY <1>2 DEF Init, IndexInit, IndexOK
<1>5. AgentOK
  BY IdleAgentTyped DEF Init, AgentOK
<1>6. TxnOK
  BY <1>1 DEF Init, TxnOK, NewTxn
<1>7. \A k \in Rkeys : pds[k] # None => pds[k].owner \in [OwnerKeys -> Value]
  BY <1>2 DEF View, Body
<1>8. RecordsOK
  BY <1>1, <1>2, <1>3, <1>7 DEF Init, RecordsOK
<1>9. OwnerSettingKept
  BY DEF Init, OwnerSettingKept, NoSettings
<1> QED BY <1>4, <1>5, <1>6, <1>8, <1>9 DEF Inv

LEMMA RestOK ==
    ASSUME AgentOK, agent' = Rest
    PROVE  AgentOK'
<1>1. agent.target \in AgentState /\ agent.count \in 0 .. MaxPublishes
  BY DEF AgentOK, AgentType
<1>2. Rest \in AgentType /\ Rest.pc = "idle"
  BY <1>1, IdleAgentTyped DEF Rest, AgentType
<1> QED BY <1>2 DEF AgentOK

LEMMA AgentStep ==
    ASSUME Inv, AgentNext
    PROVE  Inv'
<1> USE DEF Inv
<1>0. MaxTime \in Nat /\ None \notin Body /\ None \notin Rkeys /\ MaxPublishes \in Nat
  BY ProviderRecordAssumption
<1>1. ASSUME NEW target \in AgentState, AgentBegin(target)
      PROVE  Inv'
  <2>1. AgentOK'
    <3> DEFINE q == [agent EXCEPT !.pc = "list", !.target = target, !.stamp = now,
                                  !.attempt = 1, !.count = agent.count + 1]
    <3>1. agent \in AgentType /\ now \in 0 .. MaxTime
      BY DEF AgentOK, RecordsOK
    <3>2. agent.count + 1 \in 0 .. MaxPublishes
      BY <1>0, <1>1, <3>1 DEF AgentBegin, AgentType
    <3>3. q \in AgentType /\ q.pc = "list"
      BY <3>1, <3>2 DEF AgentType
    <3>4. agent' = q
      BY <1>1 DEF AgentBegin
    <3> QED BY <3>3, <3>4 DEF AgentOK
  <2>2. IndexOK'
    BY <1>1, IndexTyped DEF AgentBegin
  <2> QED BY <1>1, <2>1, <2>2 DEF AgentBegin, TxnOK, RecordsOK, OwnerSettingKept
<1>2. CASE AgentList
  <2>1. IndexOK'
    BY <1>2, IndexTyped DEF AgentList
  <2>2. /\ MineIn(pds) \subseteq Rkeys
        /\ \A k \in MineIn(pds) : pds[k] # None /\ pds[k].id # "sibling"
        /\ MineIn(pds) # {} => Canonical(pds) \in MineIn(pds)
    BY MineIsMine DEF RecordsOK
  <2>3. AgentOK'
    <3>1. CASE MineIn(pds) = {}
      BY <1>2, <3>1 DEF AgentList, AgentOK, AgentType, RecordsOK
    <3>2. CASE MineIn(pds) # {}
      <4> DEFINE todo == IF agent.attempt = 1 THEN MineIn(pds) \ {Canonical(pds)} ELSE {}
      <4>1. /\ Canonical(pds) \in Rkeys /\ todo \subseteq Rkeys
            /\ \A k \in todo \cup {Canonical(pds)} : pds[k] # None /\ pds[k].id # "sibling"
        BY <2>2, <3>2
      <4>2. agent' = [agent EXCEPT !.pc = "put", !.view = pds, !.canon = Canonical(pds), !.todo = todo]
        BY <1>2, <3>2 DEF AgentList
      <4> HIDE DEF todo
      <4> QED BY <4>1, <4>2 DEF AgentOK, AgentType, RecordsOK
    <3> QED BY <3>1, <3>2
  <2> QED BY <1>2, <2>1, <2>3 DEF AgentList, TxnOK, RecordsOK, OwnerSettingKept
<1>3. ASSUME NEW k \in Rkeys, AgentDelete(k)
      PROVE  Inv'
  <2>1. IndexOK'
    BY <1>3, UnpublishedTyped, IndexTyped DEF AgentDelete
  <2>2. AgentOK'
    BY <1>3 DEF AgentDelete, AgentOK, AgentType
  <2>3. pds' \in View /\ \A j \in Rkeys : pds'[j] = pds[j] \/ pds'[j] = None
    BY <1>3 DEF AgentDelete, RecordsOK, View
  <2>4. RecordsOK'
    BY <1>3, <2>3 DEF AgentDelete, RecordsOK
  <2>5. OwnerSettingKept'
    BY <1>3, <2>3 DEF AgentDelete, OwnerSettingKept
  <2> QED BY <1>3, <2>1, <2>2, <2>4, <2>5 DEF AgentDelete, TxnOK
<1>4. CASE AgentPut
  <2> DEFINE c == agent.canon
             body == Merge(agent.view, agent.canon)
  <2>1. /\ c \in Rkeys /\ agent.view \in View /\ agent.view[c] # None
        /\ agent.stamp \in 0 .. MaxTime /\ agent.target \in AgentState
    BY <1>4 DEF AgentPut, AgentOK, AgentType
  <2>2. /\ body \in Body
        /\ \A key \in OwnerKeys : agent.view[c].owner[key] # None
              => body.owner[key] = agent.view[c].owner[key]
    BY <2>1, MergeKeeps
  <2>3. /\ pds[c] = agent.view[c]
        /\ pds' = [pds EXCEPT ![c] = body]
        /\ Published(c, body)
        /\ agent' = Rest
        /\ cached' \in {cached, c}
        /\ UNCHANGED <<now, txn, used, setting>>
    BY <1>4 DEF AgentPut
  <2> HIDE DEF c, body
  <2>4. IndexOK' /\ AgentOK'
    BY <2>1, <2>2, <2>3, PublishedTyped, RestOK
  <2>5. pds' \in View /\ pds'[c] = body /\ \A j \in Rkeys : j # c => pds'[j] = pds[j]
    BY <2>1, <2>2, <2>3 DEF RecordsOK, View
  <2>6. RecordsOK'
    BY <2>1, <2>3, <2>5 DEF RecordsOK
  <2>7. OwnerSettingKept'
    BY <2>1, <2>2, <2>3, <2>5 DEF OwnerSettingKept
  <2> QED BY <2>3, <2>4, <2>6, <2>7 DEF TxnOK
<1>5. CASE AgentConflict
  <2>1. AgentOK'
    <3>1. CASE agent.attempt < AgentAttempts
      <4> DEFINE q == [agent EXCEPT !.pc = "list", !.attempt = agent.attempt + 1]
      <4>1. agent \in AgentType /\ agent.attempt + 1 \in Nat
        BY DEF AgentOK, AgentType
      <4>2. q \in AgentType /\ q.pc = "list"
        BY <4>1 DEF AgentType
      <4>3. agent' = q
        BY <1>5, <3>1 DEF AgentConflict
      <4> QED BY <4>2, <4>3 DEF AgentOK
    <3>2. CASE ~(agent.attempt < AgentAttempts)
      BY <1>5, <3>2, RestOK DEF AgentConflict
    <3> QED BY <3>1, <3>2
  <2>2. IndexOK'
    BY <1>5, IndexTyped DEF AgentConflict
  <2> QED BY <1>5, <2>1, <2>2 DEF AgentConflict, TxnOK, RecordsOK, OwnerSettingKept
<1>6. ASSUME NEW k \in Rkeys, AgentCreate(k)
      PROVE  Inv'
  <2> DEFINE body == [stamp |-> agent.stamp, owner |-> NoSettings,
                      agent |-> agent.target, id |-> "current"]
  <2>1. body \in Body
    BY DEF AgentOK, AgentType, Body, NoSettings, Value, Identity
  <2>2. /\ k \notin used
        /\ pds' = [pds EXCEPT ![k] = body]
        /\ Published(k, body)
        /\ used' = used \cup {k}
        /\ agent' = Rest
        /\ cached' \in {cached, k}
        /\ UNCHANGED <<now, txn, setting>>
    BY <1>6 DEF AgentCreate
  <2> HIDE DEF body
  <2>3. IndexOK' /\ AgentOK'
    BY <2>1, <2>2, PublishedTyped, RestOK
  <2>4. pds' \in View /\ \A j \in Rkeys : j # k => pds'[j] = pds[j]
    BY <2>1, <2>2 DEF RecordsOK, View
  <2>5. \A key \in OwnerKeys : setting'[k][key] = None
    BY <2>2 DEF RecordsOK, NoSettings
  <2>6. RecordsOK'
    BY <2>2, <2>4 DEF RecordsOK
  <2>7. OwnerSettingKept'
    BY <2>2, <2>4, <2>5 DEF OwnerSettingKept
  <2> QED BY <2>2, <2>3, <2>6, <2>7 DEF TxnOK
<1>7. CASE AgentAbort
  <2>1. IndexOK' /\ AgentOK'
    BY <1>7, IndexTyped, RestOK DEF AgentAbort
  <2> QED BY <1>7, <2>1 DEF AgentAbort, TxnOK, RecordsOK, OwnerSettingKept
<1> QED BY <1>1, <1>2, <1>3, <1>4, <1>5, <1>6, <1>7 DEF AgentNext

LEMMA TxnStep ==
    ASSUME Inv, NEW t \in Txns, TxnNext(t)
    PROVE  Inv'
<1> USE DEF Inv
<1>0. MaxTime \in Nat /\ None \notin Body
  BY ProviderRecordAssumption
<1> DEFINE TxnType == [pc : {"new", "retry", "write", "done"},
                       kind : Kinds \cup {None}, rkey : Rkeys \cup {None}, edit : Edits \cup {None},
                       view : Body \cup {None}, stamp : 0 .. MaxTime, attempt : Nat]
<1>1. Over \in TxnType /\ Over.pc = "done"
  BY <1>0 DEF Over, NewTxn
<1>2. txn \in [Txns -> TxnType] /\ txn[t] \in TxnType
  BY DEF TxnOK
<1>3. ASSUME NEW q \in TxnType, txn' = [txn EXCEPT ![t] = q],
             q.pc = "write" => q.rkey \in Rkeys /\ q.edit \in Edits /\ q.view \in Body
      PROVE  TxnOK'
  <2> HIDE DEF TxnType
  <2>1. txn' \in [Txns -> TxnType]
    BY <1>2, <1>3
  <2>2. \A u \in Txns : txn'[u].pc = "write" =>
           txn'[u].rkey \in Rkeys /\ txn'[u].edit \in Edits /\ txn'[u].view \in Body
    BY <1>2, <1>3 DEF TxnOK
  <2> QED BY <2>1, <2>2 DEF TxnOK, TxnType
<1>4. ASSUME UNCHANGED <<indexVars, pds, now, agent, cached, used, setting>>, TxnOK'
      PROVE  Inv'
  <2>1. IndexOK'
    BY <1>4, IndexTyped
  <2> QED BY <1>4, <2>1 DEF AgentOK, RecordsOK, OwnerSettingKept
<1>5. CASE TxnRead(t)
  <2>1. PICK kind \in Kinds, k \in Rkeys, e \in Edits :
           txn' = [txn EXCEPT ![t] = AfterRead(t, kind, k, e)]
    BY <1>5 DEF TxnRead
  <2> DEFINE q == [pc |-> "write", kind |-> kind, rkey |-> k, edit |-> e,
                   view |-> pds[k], stamp |-> now, attempt |-> txn[t].attempt + 1]
  <2>2. CASE txn' = [txn EXCEPT ![t] = Over]
    BY <1>1, <1>3, <1>4, <1>5, <2>2 DEF TxnRead
  <2>3. CASE pds[k] # None /\ txn' = [txn EXCEPT ![t] = q]
    <3>1. pds[k] \in Body /\ now \in 0 .. MaxTime /\ txn[t].attempt + 1 \in Nat
      BY <1>2, <2>3 DEF RecordsOK, View
    <3>2. q \in TxnType /\ q.rkey \in Rkeys /\ q.edit \in Edits /\ q.view \in Body
      BY <3>1
    <3> HIDE DEF q, TxnType
    <3>3. TxnOK'
      BY <1>3, <2>3, <3>2
    <3> QED BY <1>4, <1>5, <3>3 DEF TxnRead
  <2> QED BY <2>1, <2>2, <2>3 DEF AfterRead
<1>6. CASE TxnConflict(t)
  <2> DEFINE q == [txn[t] EXCEPT !.pc = "retry"]
  <2>1. q \in TxnType /\ q.pc = "retry"
    BY <1>2
  <2>2. txn' = [txn EXCEPT ![t] = q] \/ txn' = [txn EXCEPT ![t] = Over]
    BY <1>6 DEF TxnConflict
  <2> HIDE DEF q, TxnType
  <2>3. TxnOK'
    BY <1>1, <1>3, <2>1, <2>2
  <2> QED BY <1>4, <1>6, <2>3 DEF TxnConflict
<1>7. CASE TxnAbort(t)
  <2>1. TxnOK'
    BY <1>1, <1>3, <1>7 DEF TxnAbort
  <2> QED BY <1>4, <1>7, <2>1 DEF TxnAbort
<1>8. CASE TxnCommit(t)
  <2> DEFINE k == txn[t].rkey
             e == txn[t].edit
             body == Patched(t)
  <2>1. k \in Rkeys /\ e.key \in OwnerKeys /\ e.val \in Value /\ txn[t].view \in Body
        /\ txn[t].stamp \in 0 .. MaxTime
    <3>1. e \in [key : OwnerKeys, val : Value]
      BY <1>8, ProviderRecordAssumption DEF TxnCommit, TxnOK
    <3> QED BY <1>2, <1>8, <3>1 DEF TxnCommit, TxnOK
  <2>2. /\ body \in Body
        /\ body.owner = [txn[t].view.owner EXCEPT ![e.key] = e.val]
    BY <2>1 DEF Patched, Body
  <2>3. /\ pds[k] = txn[t].view
        /\ pds' = [pds EXCEPT ![k] = body]
        /\ Published(k, body)
        /\ setting' = [setting EXCEPT ![k][e.key] = e.val]
        /\ txn' = [txn EXCEPT ![t] = Over]
        /\ UNCHANGED <<now, agent, cached, used>>
    BY <1>8 DEF TxnCommit
  <2>4. TxnOK'
    BY <1>1, <1>3, <2>3
  <2>5. pds[k].owner \in [OwnerKeys -> Value] /\ body.owner = [pds[k].owner EXCEPT ![e.key] = e.val]
    BY <2>1, <2>2, <2>3 DEF Body
  <2> HIDE DEF k, e, body
  <2>6. IndexOK'
    BY <2>1, <2>2, <2>3, PublishedTyped
  <2>7. AgentOK'
    BY <2>3 DEF AgentOK
  <2>8. k \in used
    BY <1>0, <2>1, <2>3 DEF RecordsOK
  <2>9. pds' \in View /\ pds'[k] = body /\ \A j \in Rkeys : j # k => pds'[j] = pds[j]
    BY <2>1, <2>2, <2>3 DEF RecordsOK, View
  <2>10. /\ setting' \in [Rkeys -> [OwnerKeys -> Value]]
         /\ setting'[k] = [setting[k] EXCEPT ![e.key] = e.val]
         /\ \A j \in Rkeys : j # k => setting'[j] = setting[j]
    BY <2>1, <2>3 DEF RecordsOK
  <2>11. RecordsOK'
    BY <2>3, <2>8, <2>9, <2>10 DEF RecordsOK
  <2>12. OwnerSettingKept'
    <3> SUFFICES ASSUME NEW j \in Rkeys, NEW key \in OwnerKeys,
                        pds'[j] # None, setting'[j][key] # None
                 PROVE  pds'[j].owner[key] = setting'[j][key]
      BY DEF OwnerSettingKept
    <3>1. CASE j # k
      BY <2>9, <2>10, <3>1 DEF OwnerSettingKept
    <3>2. CASE j = k /\ key = e.key
      BY <2>1, <2>5, <2>9, <2>10, <3>2 DEF RecordsOK
    <3>3. CASE j = k /\ key # e.key
      <4>1. pds[k] # None /\ setting'[k][key] = setting[k][key]
        BY <1>0, <2>1, <2>3, <2>10, <3>3 DEF RecordsOK
      <4>2. pds[k].owner[key] = setting[k][key]
        BY <2>1, <3>3, <4>1 DEF OwnerSettingKept
      <4> QED BY <2>5, <2>9, <3>3, <4>1, <4>2
    <3> QED BY <3>1, <3>2, <3>3
  <2> QED BY <2>4, <2>6, <2>7, <2>11, <2>12
<1>9. CASE TxnDelete(t)
  <2> DEFINE k == txn[t].rkey
  <2>1. k \in Rkeys
    BY <1>9 DEF TxnDelete, TxnOK
  <2>2. /\ pds' = [pds EXCEPT ![k] = IF pds[k] = txn[t].view THEN None ELSE @]
        /\ setting' = [setting EXCEPT ![k] = IF pds[k] = txn[t].view THEN NoSettings ELSE @]
        /\ Unpublished(k)
        /\ txn' = [txn EXCEPT ![t] = Over]
        /\ UNCHANGED <<now, agent, cached, used>>
    BY <1>9 DEF TxnDelete
  <2>3. TxnOK'
    BY <1>1, <1>3, <2>2
  <2> HIDE DEF k
  <2>4. IndexOK' /\ AgentOK'
    BY <2>1, <2>2, UnpublishedTyped DEF AgentOK
  <2>5. NoSettings \in [OwnerKeys -> Value] /\ \A key \in OwnerKeys : NoSettings[key] = None
    BY DEF NoSettings, Value
  <2>6. /\ pds' \in View /\ setting' \in [Rkeys -> [OwnerKeys -> Value]]
        /\ \A j \in Rkeys : \/ pds'[j] = pds[j] /\ setting'[j] = setting[j]
                            \/ pds'[j] = None /\ setting'[j] = NoSettings
    BY <2>1, <2>2, <2>5 DEF RecordsOK, View
  <2>7. RecordsOK'
    BY <2>2, <2>6 DEF RecordsOK
  <2>8. OwnerSettingKept'
    BY <2>5, <2>6 DEF OwnerSettingKept
  <2> QED BY <2>3, <2>4, <2>7, <2>8
<1> QED BY <1>5, <1>6, <1>7, <1>8, <1>9 DEF TxnNext

LEMMA InvStep == Inv /\ [Next]_vars => Inv'
<1> SUFFICES ASSUME Inv, [Next]_vars PROVE Inv'
  OBVIOUS
<1>1. CASE AgentNext
  BY <1>1, AgentStep
<1>2. ASSUME NEW t \in Txns, TxnNext(t)
      PROVE  Inv'
  BY <1>2, TxnStep
<1>3. CASE Tick
  <2>1. now' \in 0 .. MaxTime
    BY <1>3, ProviderRecordAssumption DEF Tick, Inv, RecordsOK
  <2>2. IndexOK'
    BY <1>3, IndexTyped DEF Tick, Inv
  <2> QED BY <1>3, <2>1, <2>2 DEF Tick, Inv, AgentOK, TxnOK, RecordsOK, OwnerSettingKept
<1>4. CASE IndexNext /\ UNCHANGED <<pds, now, agent, cached, txn, used, setting>>
  <2>1. IndexOK'
    BY <1>4, IndexTyped DEF Inv
  <2> QED BY <1>4, <2>1 DEF Inv, AgentOK, TxnOK, RecordsOK, OwnerSettingKept
<1>5. CASE UNCHANGED vars
  <2>1. IndexOK'
    BY <1>5, IndexTyped DEF vars, Inv
  <2> QED BY <1>5, <2>1 DEF vars, Inv, AgentOK, TxnOK, RecordsOK, OwnerSettingKept
<1> QED BY <1>1, <1>2, <1>3, <1>4, <1>5 DEF Next

LEMMA Invariance == Spec => []Inv
BY InvInit, InvStep, PTL DEF Spec

----------------------------------------------------------------------------
(* Records, snapshots and messages keep their types; in particular the     *)
(* agent's reconciliation always finds a newest record to publish onto, so *)
(* that what it writes is a record.                                        *)
THEOREM TypeCorrect == Spec => []TypeOK
<1>1. Inv => TypeOK
  BY DEF Inv, IndexOK, AgentOK, AgentType, TxnOK, RecordsOK, View, TypeOK
<1> QED BY <1>1, Invariance, PTL

(* A setting the owner gave survives every publish of the agent, every     *)
(* edit of another setting and every operation that began from an older    *)
(* version: the merge keeps what its base has, and the compare-and-swap    *)
(* makes the base the record that is there.                                *)
THEOREM OwnerSettingsSurvive == Spec => []OwnerSettingKept
<1>1. Inv => OwnerSettingKept
  BY DEF Inv
<1> QED BY <1>1, Invariance, PTL

(* The agent writes and deletes at keys of its snapshot that hold its own  *)
(* records, under the version it saw there, and creates at fresh keys: a   *)
(* sibling machine's record is beyond it.                                  *)
THEOREM SiblingsAreSafe == Spec => SiblingUntouched
<1> DEFINE Safe == \A k \in Rkeys :
                      pds[k] # None /\ pds[k].id = "sibling" /\ pds'[k] # pds[k]
                          => agent' = agent
<1>1. Inv /\ [Next]_vars => Safe
  <2> SUFFICES ASSUME Inv, [Next]_vars, NEW j \in Rkeys,
                      pds[j] # None, pds[j].id = "sibling", pds'[j] # pds[j]
               PROVE  agent' = agent
    OBVIOUS
  <2>1. pds \in View /\ (agent.pc = "put" => \A k \in agent.todo \cup {agent.canon} :
                                               agent.view[k].id # "sibling")
    BY DEF Inv, RecordsOK, AgentOK
  <2>2. ASSUME NEW k \in Rkeys, AgentDelete(k)
        PROVE  FALSE
    BY <2>1, <2>2 DEF AgentDelete, View
  <2>3. ASSUME AgentPut
        PROVE  FALSE
    BY <2>1, <2>3 DEF AgentPut, View
  <2>4. ASSUME NEW k \in Rkeys, AgentCreate(k)
        PROVE  FALSE
    BY <2>1, <2>4 DEF AgentCreate, View, Inv, RecordsOK
  <2>5. ASSUME AgentNext
        PROVE  FALSE
    BY <2>2, <2>3, <2>4, <2>5 DEF AgentNext, AgentBegin, AgentList, AgentConflict, AgentAbort
  <2>6. ASSUME NEW t \in Txns, TxnNext(t)
        PROVE  agent' = agent
    BY <2>6 DEF TxnNext, TxnRead, TxnCommit, TxnConflict, TxnDelete, TxnAbort
  <2> QED BY <2>5, <2>6 DEF Next, Tick, vars
<1> QED BY <1>1, Invariance, PTL DEF Spec, SiblingUntouched

----------------------------------------------------------------------------
(* The index, first by createdAt.  A key that is being unpublished is one  *)
(* somebody asked to remove, so that the row of any other key only ever    *)
(* gains in createdAt and is never older than a commit that was read.      *)
RemovalsKnown == \A m \in mirrors : m.body = None => m.rkey \in removals

NoOlder(i) ==
    LET k == feed[i].rkey IN
    i \notin skipped /\ k \notin removals
        => idx[k] # None /\ idx[k].stamp >= feed[i].body.stamp

HandledNoOlder == \A i \in 1 .. pos : NoOlder(i)

Stamps == RemovalsKnown /\ HandledNoOlder

LEMMA UpsertGrows ==
    ASSUME IndexOK, NEW k \in Rkeys, NEW body \in Body, Upsert(k, body)
    PROVE  /\ idx' \in View /\ idx'[k] # None /\ idx'[k].stamp >= body.stamp
           /\ \A j \in Rkeys : idx[j] # None => idx'[j] # None /\ idx'[j].stamp >= idx[j].stamp
<1>1. MaxTime \in Nat /\ None \notin Nat /\ None \notin Body
  BY ProviderRecordAssumption
<1>2. body.stamp \in 0 .. MaxTime
  BY DEF Body
<1>3. idx \in View /\ \A j \in Rkeys : idx[j] # None => idx[j].stamp \in 0 .. MaxTime
  BY DEF IndexOK, View, Body
<1>4. /\ idx' \in View
      /\ idx'[k] = IF IsStale(body, idx[k]) THEN idx[k] ELSE body
      /\ \A j \in Rkeys : j # k => idx'[j] = idx[j]
  BY <1>3 DEF Upsert, View
<1>5. IsStale(body, idx[k]) => idx[k] # None /\ body.stamp < idx[k].stamp
  BY DEF IsStale
<1>6. ~IsStale(body, idx[k]) /\ idx[k] # None => body.stamp >= idx[k].stamp
  BY <1>1, <1>2, <1>3 DEF IsStale
<1>7. idx'[k] # None /\ idx'[k].stamp >= body.stamp
  BY <1>1, <1>2, <1>3, <1>4, <1>5
<1>8. idx[k] # None => idx'[k].stamp >= idx[k].stamp
  BY <1>1, <1>2, <1>3, <1>4, <1>6
<1> QED BY <1>1, <1>3, <1>4, <1>7, <1>8

(* A row that only gains in createdAt stays no older than its commits.     *)
LEMMA NoOlderStays ==
    ASSUME IndexOK, IndexOK', NEW i \in 1 .. Len(feed), NoOlder(i),
           feed'[i] = feed[i], i \in skipped => i \in skipped', removals \subseteq removals',
           \A j \in Rkeys : j \notin removals' /\ idx[j] # None
              => idx'[j] # None /\ idx'[j].stamp >= idx[j].stamp
    PROVE  NoOlder(i)'
<1>1. feed[i] \in Commit
  BY DEF IndexOK
<1>2. feed[i].rkey \in Rkeys /\ feed[i].body.stamp \in Nat
  BY <1>1, ProviderRecordAssumption DEF Commit, Body
<1>3. \A j \in Rkeys : /\ idx[j] # None => idx[j].stamp \in Nat
                       /\ idx'[j] # None => idx'[j].stamp \in Nat
  BY ProviderRecordAssumption DEF IndexOK, View, Body
<1> QED BY <1>2, <1>3 DEF NoOlder

LEMMA PublishedStamps ==
    ASSUME IndexOK, Stamps, NEW k \in Rkeys, NEW body \in Body, Published(k, body)
    PROVE  Stamps'
<1>1. IndexOK' /\ None \notin Body
  BY PublishedTyped, ProviderRecordAssumption
<1>2. RemovalsKnown'
  BY <1>1 DEF Published, RemovalsKnown, Stamps
<1>3. HandledNoOlder'
  <2> SUFFICES ASSUME NEW i \in 1 .. pos PROVE NoOlder(i)'
    BY DEF HandledNoOlder, Published
  <2>1. i \in 1 .. Len(feed) /\ NoOlder(i)
    BY DEF IndexOK, Stamps, HandledNoOlder
  <2>2. feed'[i] = feed[i]
    BY <2>1 DEF Published, IndexOK
  <2>3. \A j \in Rkeys : idx[j] # None => idx'[j] # None /\ idx'[j].stamp >= idx[j].stamp
    BY ProviderRecordAssumption DEF Published, IndexOK, View, Body
  <2> QED BY <1>1, <2>1, <2>2, <2>3, NoOlderStays DEF Published
<1> QED BY <1>2, <1>3 DEF Stamps

LEMMA UnpublishedStamps ==
    ASSUME IndexOK, Stamps, NEW k \in Rkeys, Unpublished(k)
    PROVE  Stamps'
<1>1. RemovalsKnown'
  BY DEF Unpublished, RemovalsKnown, Stamps
<1>2. HandledNoOlder'
  BY DEF Unpublished, HandledNoOlder, NoOlder, Stamps
<1> QED BY <1>1, <1>2 DEF Stamps

LEMMA IndexStamps ==
    ASSUME IndexOK, Stamps, IndexNext \/ UNCHANGED indexVars
    PROVE  Stamps'
<1>1. IndexOK' /\ Len(feed) \in Nat /\ pos \in 0 .. Len(feed)
  BY IndexTyped DEF IndexOK
<1>2. \A j \in Rkeys : idx[j] # None => idx[j].stamp \in Nat
  BY ProviderRecordAssumption DEF IndexOK, View, Body
<1>3. \A i \in 1 .. pos : i \in 1 .. Len(feed) /\ NoOlder(i)
  BY <1>1 DEF Stamps, HandledNoOlder
<1>4. CASE Deliver
  <2>1. feed[pos + 1] \in Commit /\ pos + 1 \in 1 .. Len(feed)
    BY <1>1, <1>4 DEF Deliver, IndexOK
  <2>2. feed[pos + 1].rkey \in Rkeys /\ feed[pos + 1].body \in Body
    BY <2>1 DEF Commit
  <2>3. /\ idx'[feed[pos + 1].rkey] # None
        /\ idx'[feed[pos + 1].rkey].stamp >= feed[pos + 1].body.stamp
        /\ \A j \in Rkeys : idx[j] # None => idx'[j] # None /\ idx'[j].stamp >= idx[j].stamp
    BY <1>4, <2>2, UpsertGrows DEF Deliver
  <2>4. ASSUME NEW i \in Nat, i = pos + 1 PROVE NoOlder(i)'
    BY <1>4, <2>3, <2>4 DEF Deliver, NoOlder
  <2>5. ASSUME NEW i \in 1 .. pos PROVE NoOlder(i)'
    <3>1. i # pos + 1
      BY <1>1
    <3> QED BY <1>1, <1>3, <1>4, <2>3, <3>1, NoOlderStays DEF Deliver
  <2>6. \A i \in 1 .. pos' : i \in 1 .. pos \/ (i \in Nat /\ i = pos + 1)
    BY <1>1, <1>4 DEF Deliver
  <2>7. HandledNoOlder'
    BY <2>4, <2>5, <2>6 DEF HandledNoOlder
  <2> QED BY <1>4, <2>7 DEF Deliver, RemovalsKnown, Stamps
<1>10. CASE DeliverFails
  <2>1. \A i \in 1 .. pos' : i \in 1 .. pos \/ i \in skipped'
    BY <1>1, <1>10 DEF DeliverFails
  <2>2. HandledNoOlder'
    BY <1>3, <1>10, <2>1 DEF DeliverFails, HandledNoOlder, NoOlder
  <2> QED BY <1>10, <2>2 DEF DeliverFails, RemovalsKnown, Stamps
<1>5. CASE Reconnect
  <2>1. \A i \in 1 .. pos' : i \in 1 .. pos
    BY <1>1, <1>5 DEF Reconnect
  <2>2. HandledNoOlder'
    BY <1>3, <1>5, <2>1 DEF Reconnect, HandledNoOlder, NoOlder
  <2> QED BY <1>5, <2>2 DEF Reconnect, RemovalsKnown, Stamps
<1>6. CASE Restart
  <2>1. \A i \in 1 .. pos' : i \in 1 .. pos \/ i \in skipped'
    BY <1>1, <1>6 DEF Restart
  <2>2. HandledNoOlder'
    BY <1>3, <1>6, <2>1 DEF Restart, HandledNoOlder, NoOlder
  <2> QED BY <1>6, <2>2 DEF Restart, RemovalsKnown, Stamps
<1>7. ASSUME NEW m \in mirrors, BridgePublish(m)
      PROVE  Stamps'
  <2>1. m.rkey \in Rkeys /\ m.body \in Body
    BY <1>7 DEF BridgePublish, IndexOK
  <2>2. \A j \in Rkeys : idx[j] # None => idx'[j] # None /\ idx'[j].stamp >= idx[j].stamp
    BY <1>7, <2>1, UpsertGrows DEF BridgePublish
  <2>3. ASSUME NEW i \in 1 .. pos PROVE NoOlder(i)'
    BY <1>1, <1>3, <1>7, <2>2, NoOlderStays DEF BridgePublish
  <2>4. HandledNoOlder'
    BY <1>7, <2>3 DEF BridgePublish, HandledNoOlder
  <2> QED BY <1>7, <2>4 DEF BridgePublish, RemovalsKnown, Stamps
<1>8. ASSUME NEW m \in mirrors, BridgeUnpublish(m)
      PROVE  Stamps'
  <2>1. m.rkey \in Rkeys /\ m.rkey \in removals /\ idx' = [idx EXCEPT ![m.rkey] = None]
    BY <1>8 DEF BridgeUnpublish, IndexOK, Stamps, RemovalsKnown
  <2>2. \A j \in Rkeys : j \notin removals' /\ idx[j] # None
            => idx'[j] # None /\ idx'[j].stamp >= idx[j].stamp
    BY <1>2, <1>8, <2>1 DEF BridgeUnpublish, IndexOK, View
  <2>3. ASSUME NEW i \in 1 .. pos PROVE NoOlder(i)'
    BY <1>1, <1>3, <1>8, <2>2, NoOlderStays DEF BridgeUnpublish
  <2>4. HandledNoOlder'
    BY <1>8, <2>3 DEF BridgeUnpublish, HandledNoOlder
  <2> QED BY <1>8, <2>4 DEF BridgeUnpublish, RemovalsKnown, Stamps
<1>9. CASE UNCHANGED indexVars
  BY <1>9 DEF indexVars, Stamps, RemovalsKnown, HandledNoOlder, NoOlder
<1> QED BY <1>4, <1>5, <1>6, <1>7, <1>8, <1>9, <1>10 DEF IndexNext

(* Then by commit: a row is the record the index began with or one that    *)
(* was committed, and so is every body a mirror carries.                   *)
RowsKnown ==
    \A k \in Rkeys : idx[k] # None =>
        \/ idx[k] = origin[k]
        \/ \E v \in 1 .. Len(feed) : feed[v] = [rkey |-> k, body |-> idx[k]]

MirrorsKnown ==
    \A m \in mirrors : m.body # None => \E v \in 1 .. Len(feed) : feed[v] = m

Known == RowsKnown /\ MirrorsKnown

LEMMA PublishedKnown ==
    ASSUME IndexOK, Known, NEW k \in Rkeys, NEW body \in Body, Published(k, body)
    PROVE  Known'
<1> DEFINE c == [rkey |-> k, body |-> body]
<1>1. /\ feed' = Append(feed, c) /\ mirrors' = mirrors \cup {c}
      /\ UNCHANGED <<idx, origin>>
  BY DEF Published
<1> HIDE DEF c
<1>2. /\ Len(feed) \in Nat /\ Len(feed') = Len(feed) + 1 /\ feed'[Len(feed) + 1] = c
      /\ \A v \in 1 .. Len(feed) : feed'[v] = feed[v]
  BY <1>1 DEF IndexOK
<1>3. 1 .. Len(feed) \subseteq 1 .. Len(feed') /\ Len(feed) + 1 \in 1 .. Len(feed')
  BY <1>2
<1>4. RowsKnown'
  BY <1>1, <1>2, <1>3 DEF Known, RowsKnown
<1>5. MirrorsKnown'
  BY <1>1, <1>2, <1>3 DEF Known, MirrorsKnown
<1> QED BY <1>4, <1>5 DEF Known

LEMMA UnpublishedKnown ==
    ASSUME Known, NEW k \in Rkeys, Unpublished(k)
    PROVE  Known'
BY DEF Unpublished, Known, RowsKnown, MirrorsKnown

(* A body that was committed, or is refused, leaves the row known.         *)
LEMMA UpsertKnown ==
    ASSUME IndexOK, RowsKnown, NEW v \in 1 .. Len(feed), feed[v] \in Commit,
           Upsert(feed[v].rkey, feed[v].body), UNCHANGED <<feed, origin>>
    PROVE  RowsKnown'
<1> DEFINE k == feed[v].rkey
<1>1. k \in Rkeys /\ feed[v] = [rkey |-> k, body |-> feed[v].body]
  BY DEF Commit
<1>2. /\ idx'[k] = idx[k] \/ idx'[k] = feed[v].body
      /\ \A j \in Rkeys : j # k => idx'[j] = idx[j]
  BY <1>1 DEF Upsert, IndexOK, View
<1> HIDE DEF k
<1> QED BY <1>1, <1>2 DEF RowsKnown

LEMMA IndexKnown ==
    ASSUME IndexOK, Known, IndexNext \/ UNCHANGED indexVars
    PROVE  Known'
<1>1. CASE Deliver
  <2>1. pos + 1 \in 1 .. Len(feed)
    BY <1>1 DEF Deliver, IndexOK
  <2>2. feed[pos + 1] \in Commit
    BY <2>1 DEF IndexOK
  <2>3. Upsert(feed[pos + 1].rkey, feed[pos + 1].body) /\ UNCHANGED <<feed, mirrors, origin>>
    BY <1>1 DEF Deliver
  <2>4. RowsKnown'
    BY <2>1, <2>2, <2>3, UpsertKnown DEF Known
  <2> QED BY <2>3, <2>4 DEF Known, MirrorsKnown
<1>2. CASE DeliverFails \/ Reconnect \/ Restart
  BY <1>2 DEF DeliverFails, Reconnect, Restart, Known, RowsKnown, MirrorsKnown
<1>3. ASSUME NEW m \in mirrors, BridgePublish(m)
      PROVE  Known'
  <2>1. PICK v \in 1 .. Len(feed) : feed[v] = m
    BY <1>3 DEF BridgePublish, Known, MirrorsKnown
  <2>2. feed[v] \in Commit
    BY DEF IndexOK
  <2>3. /\ Upsert(feed[v].rkey, feed[v].body) /\ UNCHANGED <<feed, origin>>
        /\ mirrors' \subseteq mirrors
    BY <1>3, <2>1 DEF BridgePublish
  <2>4. RowsKnown'
    BY <2>2, <2>3, UpsertKnown DEF Known
  <2> QED BY <2>3, <2>4 DEF Known, MirrorsKnown
<1>4. ASSUME NEW m \in mirrors, BridgeUnpublish(m)
      PROVE  Known'
  BY <1>4 DEF BridgeUnpublish, IndexOK, View, Known, RowsKnown, MirrorsKnown
<1>5. CASE UNCHANGED indexVars
  BY <1>5 DEF indexVars, Known, RowsKnown, MirrorsKnown
<1> QED BY <1>1, <1>2, <1>3, <1>4, <1>5 DEF IndexNext

IndexInv == Stamps /\ Known

(* A row that is no older than a bumped commit is that commit or a later   *)
(* one: every version before it is older.                                  *)
LEMMA KnownAndNoOlder ==
    ASSUME IndexOK, IndexInv
    PROVE  HandledIsIndexed
<1> SUFFICES ASSUME NEW i \in 1 .. pos,
                    i \notin skipped, feed[i].rkey \notin removals, Bumped(i)
             PROVE  \E v \in i .. Len(feed) : feed[v] = [rkey |-> feed[i].rkey, body |-> idx[feed[i].rkey]]
  BY DEF HandledIsIndexed, Indexed
<1> DEFINE k == feed[i].rkey
<1>1. Len(feed) \in Nat /\ pos \in 0 .. Len(feed) /\ i \in 1 .. Len(feed)
  BY DEF IndexOK
<1>2. feed[i] \in Commit
  BY <1>1 DEF IndexOK
<1>3. k \in Rkeys /\ feed[i].body.stamp \in Nat
  BY <1>2, ProviderRecordAssumption DEF Commit, Body
<1>4. idx[k] # None /\ idx[k].stamp >= feed[i].body.stamp
  BY DEF IndexInv, Stamps, HandledNoOlder, NoOlder
<1>5. idx[k].stamp \in Nat
  BY <1>3, <1>4, ProviderRecordAssumption DEF IndexOK, View, Body
<1>6. idx[k] # origin[k]
  BY <1>3, <1>4, <1>5 DEF Bumped
<1>7. PICK v \in 1 .. Len(feed) : feed[v] = [rkey |-> k, body |-> idx[k]]
  BY <1>3, <1>4, <1>6 DEF IndexInv, Known, RowsKnown
<1>8. ~(v \in 1 .. i - 1)
  <2> SUFFICES ASSUME v \in 1 .. i - 1 PROVE FALSE
    OBVIOUS
  <2>1. feed[v].rkey = k /\ feed[v].body = idx[k]
    BY <1>7
  <2>2. idx[k].stamp < feed[i].body.stamp
    BY <2>1 DEF Bumped
  <2> QED BY <1>3, <1>4, <1>5, <2>2
<1>9. v \in i .. Len(feed)
  BY <1>1, <1>8
<1> QED BY <1>7, <1>9

LEMMA IndexInvStep == Inv /\ IndexInv /\ [Next]_vars => IndexInv'
<1> SUFFICES ASSUME Inv, IndexInv, [Next]_vars PROVE IndexInv'
  OBVIOUS
<1>1. IndexOK
  BY DEF Inv
<1>2. ASSUME UNCHANGED indexVars \/ IndexNext PROVE IndexInv'
  BY <1>1, <1>2, IndexStamps, IndexKnown DEF IndexInv
<1>3. ASSUME NEW k \in Rkeys, AgentDelete(k) PROVE IndexInv'
  BY <1>1, <1>2, <1>3, UnpublishedStamps, UnpublishedKnown DEF IndexInv, AgentDelete
<1>4. CASE AgentPut
  <2>1. agent.canon \in Rkeys /\ agent.view \in View /\ agent.view[agent.canon] # None
        /\ agent.stamp \in 0 .. MaxTime /\ agent.target \in AgentState
    BY <1>4 DEF AgentPut, Inv, AgentOK, AgentType
  <2>2. Merge(agent.view, agent.canon) \in Body
    BY <2>1, MergeKeeps
  <2> QED BY <1>1, <1>4, <2>1, <2>2, PublishedStamps, PublishedKnown DEF IndexInv, AgentPut
<1>5. ASSUME NEW k \in Rkeys, AgentCreate(k) PROVE IndexInv'
  <2>1. [stamp |-> agent.stamp, owner |-> NoSettings, agent |-> agent.target, id |-> "current"]
          \in Body
    BY DEF Inv, AgentOK, AgentType, Body, NoSettings, Value, Identity
  <2> QED BY <1>1, <1>5, <2>1, PublishedStamps, PublishedKnown DEF IndexInv, AgentCreate
<1>6. CASE AgentNext
  BY <1>2, <1>3, <1>4, <1>5, <1>6
     DEF AgentNext, AgentBegin, AgentList, AgentConflict, AgentAbort
<1>7. ASSUME NEW t \in Txns, TxnCommit(t) PROVE IndexInv'
  <2>1. txn[t].rkey \in Rkeys /\ txn[t].edit \in Edits /\ txn[t].view \in Body
        /\ txn[t].stamp \in 0 .. MaxTime
    BY <1>7 DEF TxnCommit, Inv, TxnOK
  <2>2. txn[t].edit.key \in OwnerKeys /\ txn[t].edit.val \in Value
    BY <2>1, ProviderRecordAssumption
  <2>3. Patched(t) \in Body
    BY <2>1, <2>2 DEF Patched, Body
  <2> QED BY <1>1, <1>7, <2>1, <2>3, PublishedStamps, PublishedKnown DEF IndexInv, TxnCommit
<1>8. ASSUME NEW t \in Txns, TxnDelete(t) PROVE IndexInv'
  <2>1. txn[t].rkey \in Rkeys
    BY <1>8 DEF TxnDelete, Inv, TxnOK
  <2> QED BY <1>1, <1>8, <2>1, UnpublishedStamps, UnpublishedKnown DEF IndexInv, TxnDelete
<1>9. ASSUME NEW t \in Txns, TxnNext(t) PROVE IndexInv'
  BY <1>2, <1>7, <1>8, <1>9 DEF TxnNext, TxnRead, TxnConflict, TxnAbort
<1> QED BY <1>2, <1>6, <1>9 DEF Next, Tick, vars

(* A commit whose createdAt is later than that of every version before it, *)
(* and that the relay's subscription has read, is never lost from the      *)
(* index nor replaced by a version committed before it, for any number of  *)
(* commits, mirrors, failed events, reconnections and restarts, in any     *)
(* order of arrival.                                                       *)
THEOREM IndexKeepsTheNewest == Spec => []HandledIsIndexed
<1>1. Init => IndexInv
  BY DEF Init, IndexInit, IndexInv, Stamps, RemovalsKnown, HandledNoOlder, Known, RowsKnown, MirrorsKnown
<1>2. Inv /\ IndexInv => HandledIsIndexed
  BY KnownAndNoOlder DEF Inv
<1> QED BY <1>1, <1>2, Invariance, IndexInvStep, PTL DEF Spec
=============================================================================
