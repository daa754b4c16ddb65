--------------------------- MODULE PromptCustody ---------------------------
(***************************************************************************)
(* What a request promises whoever wrote its prompt, without machines,     *)
(* sockets, posts or answers: the prompt is handed to one owner after the  *)
(* other, to none twice, to no more than the request allows and to none    *)
(* once the request is settled; and nobody has it but by being handed it.  *)
(* JobDispatch is shown to implement it.                                   *)
(***************************************************************************)
EXTENDS Naturals, FiniteSets

CONSTANTS
    Requests,
    Owners,
    Limit       \* Limit[r]: how many owners may be tried

VARIABLES
    open,       \* requests that may still be handed on
    asked,      \* asked[r]: the owners r was handed to
    holders     \* holders[r]: the owners that have the prompt of r in work

vars == <<open, asked, holders>>

Init ==
    /\ open = Requests
    /\ asked = [r \in Requests |-> {}]
    /\ holders = [r \in Requests |-> {}]

(* Owners may be done with a prompt at any time.                           *)
Release(others) == \A r \in others : holders'[r] \subseteq holders[r]

Ask(r, o) ==
    /\ r \in open
    /\ o \notin asked[r]
    /\ Cardinality(asked[r]) < Limit[r]
    /\ asked' = [asked EXCEPT ![r] = @ \cup {o}]
    /\ holders'[r] \subseteq holders[r] \cup {o}
    /\ Release(Requests \ {r})
    /\ UNCHANGED open

(* A response has begun, or the request has failed.                        *)
Settle(r) ==
    /\ r \in open
    /\ open' = open \ {r}
    /\ Release(Requests)
    /\ UNCHANGED asked

Work == Release(Requests) /\ UNCHANGED <<open, asked>>

Next ==
    \/ \E r \in Requests, o \in Owners : Ask(r, o)
    \/ \E r \in Requests : Settle(r)
    \/ Work

Spec == Init /\ [][Next]_vars
=============================================================================
