-------------------------- MODULE MCProviderRecord --------------------------
(***************************************************************************)
(* Two settings and three record keys. What the agent finds: the record of *)
(* its last serve next to one stranded by a key rotation that holds a      *)
(* setting of its own; or nothing but the record of a sibling.             *)
(***************************************************************************)
EXTENDS ProviderRecord

CONSTANTS k1, k2, k3

MCActiveOnly == {[key |-> "active", val |-> "off"]}

Record(id, active, tier) ==
    [stamp |-> 0, agent |-> "offline", id |-> id,
     owner |-> [key \in {"active", "tier"} |-> IF key = "active" THEN active ELSE tier]]

Repository(a, b) == [k \in Rkeys |-> CASE k = k1 -> a [] k = k2 -> b [] k = k3 -> None]

Rotated == Repository(Record("current", "on", None), Record("legacy", None, "on"))
Newcomer == Repository(None, Record("sibling", "on", None))

MCInitialPds == {Rotated, Newcomer}
MCRotatedOnly == {Rotated}
=============================================================================
