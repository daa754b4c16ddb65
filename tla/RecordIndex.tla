---------------------------- MODULE RecordIndex ----------------------------
(***************************************************************************)
(* The AppView's record index (packages/appview/src/store.ts) and the two  *)
(* writers that feed it: the relay subscription (indexer/relay-firehose.ts)*)
(* which reads the commits of a repository in order, and the bridge mirror *)
(* (dev.cocore.bridge.publish / unpublish), a best-effort call made after  *)
(* each write to the repository, unordered with everything else.           *)
(*                                                                         *)
(* A body is a record with a field "stamp", its createdAt, or None where a *)
(* collection has no such field; everything else in it belongs to the      *)
(* module that writes the repository.                                      *)
(***************************************************************************)
EXTENDS Naturals, Sequences

CONSTANTS
    Rkeys,          \* the record keys of one repository and collection
    None,           \* no record, no row, no value
    MaxBreaks       \* bound: dropped subscriptions, events whose handling fails
                    \* and container restarts

VARIABLES
    idx,      \* idx[k]: the row of the store, or None
    feed,     \* every commit of a record to the repository, in relay order
    pos,      \* how many entries of feed the subscription has handled
    mirrors,  \* bridge calls in flight: a body to publish, None to unpublish
    breaks,   \* how many of these there were
    skipped,  \* history: positions of feed that were passed over, and not read since
    removals, \* history: keys the bridge was asked to unpublish
    origin    \* history: the records before the first commit of feed

indexVars == <<idx, feed, pos, mirrors, breaks, skipped, removals, origin>>

IndexInit ==
    /\ feed = <<>>
    /\ pos = 0
    /\ mirrors = {}
    /\ breaks = 0
    /\ skipped = {}
    /\ removals = {}

----------------------------------------------------------------------------
(* Mutant of IsStale: the last arrival wins. *)
NeverStale(body, row) == FALSE

(* Store.upsert: a body strictly older than the one held is dropped, an    *)
(* equal or newer one applies, and a body without createdAt on either side *)
(* is last writer wins. The read and the write are one transaction.        *)
IsStale(body, row) ==
    /\ row # None
    /\ body.stamp # None
    /\ row.stamp # None
    /\ body.stamp < row.stamp

Upsert(k, body) ==
    idx' = [idx EXCEPT ![k] = IF IsStale(body, @) THEN @ ELSE body]

(* A write to the repository: the commit enters the relay's stream, and    *)
(* the writer then calls the bridge.                                       *)
Published(k, body) ==
    /\ feed' = Append(feed, [rkey |-> k, body |-> body])
    /\ mirrors' = mirrors \cup {[rkey |-> k, body |-> body]}
    /\ UNCHANGED <<idx, pos, breaks, skipped, removals, origin>>

(* A delete: only the bridge tells the index, the subscription skips the   *)
(* relay's delete events.                                                  *)
Unpublished(k) ==
    /\ mirrors' = mirrors \cup {[rkey |-> k, body |-> None]}
    /\ removals' = removals \cup {k}
    /\ UNCHANGED <<idx, feed, pos, breaks, skipped, origin>>

----------------------------------------------------------------------------
(* Mutant of Deliver: nobody opens a dropped subscription again. *)
DeliverUntilBreak ==
    /\ breaks = 0
    /\ pos < Len(feed)
    /\ Upsert(feed[pos + 1].rkey, feed[pos + 1].body)
    /\ pos' = pos + 1
    /\ skipped' = skipped \ {pos + 1}
    /\ UNCHANGED <<feed, mirrors, breaks, removals, origin>>

(* RelayFirehose.handleEvent: the next commit goes through Indexer.ingest  *)
(* to Store.upsert.                                                        *)
Deliver ==
    /\ pos < Len(feed)
    /\ Upsert(feed[pos + 1].rkey, feed[pos + 1].body)
    /\ pos' = pos + 1
    /\ skipped' = skipped \ {pos + 1}
    /\ UNCHANGED <<feed, mirrors, breaks, removals, origin>>

(* An event that cannot be verified or parsed, that the indexer refuses or *)
(* that a subscriber fails on: it is logged and the stream goes on.        *)
DeliverFails ==
    /\ pos < Len(feed)
    /\ breaks < MaxBreaks
    /\ breaks' = breaks + 1
    /\ pos' = pos + 1
    /\ skipped' = skipped \cup {pos + 1}
    /\ UNCHANGED <<idx, feed, mirrors, removals, origin>>

(* The subscription drops or ends, and superviseRelay opens it again from  *)
(* the cursor of the runner, which trails the events already handled.      *)
Reconnect ==
    /\ breaks < MaxBreaks
    /\ breaks' = breaks + 1
    /\ \E p \in 0 .. pos : pos' = p
    /\ UNCHANGED <<idx, feed, mirrors, skipped, removals, origin>>

(* The services container restarts: the store is on disk, but the stored   *)
(* cursor is not handed to the runner (initialCursor ends in a variable    *)
(* nobody reads), so the subscription starts at the head of the stream.    *)
Restart ==
    /\ breaks < MaxBreaks
    /\ breaks' = breaks + 1
    /\ skipped' = skipped \cup ((pos + 1) .. Len(feed))
    /\ pos' = Len(feed)
    /\ UNCHANGED <<idx, feed, mirrors, removals, origin>>

(* A bridge call arrives: publish dispatches the body to the indexer,      *)
(* unpublish deletes the row whatever it holds. A call that fails, or whose*)
(* writer dies before making it, is one that stays in flight for ever:     *)
(* nobody retries, and nothing here makes a call arrive.                   *)
BridgePublish(m) ==
    /\ m.body # None
    /\ Upsert(m.rkey, m.body)
    /\ mirrors' = mirrors \ {m}
    /\ UNCHANGED <<feed, pos, breaks, skipped, removals, origin>>

BridgeUnpublish(m) ==
    /\ m.body = None
    /\ idx' = [idx EXCEPT ![m.rkey] = None]
    /\ mirrors' = mirrors \ {m}
    /\ UNCHANGED <<feed, pos, breaks, skipped, removals, origin>>

IndexNext ==
    \/ Deliver
    \/ DeliverFails
    \/ Reconnect
    \/ Restart
    \/ \E m \in mirrors : BridgePublish(m) \/ BridgeUnpublish(m)
=============================================================================
