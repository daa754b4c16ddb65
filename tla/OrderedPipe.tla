----------------------------- MODULE OrderedPipe -----------------------------
(* What a dispatched job promises its requester: the chunks the provider    *)
(* makes arrive in order and once each, and the stream ends once, as a      *)
(* completion only when everything that was made has arrived.               *)
EXTENDS Naturals, Sequences

VARIABLES
  made,     \* chunks the invocation has made
  outcome,  \* "running", or how the invocation ended
  chunks,   \* the chunks the requester has received
  end       \* "none", or how the requester's stream ended

vars == <<made, outcome, chunks, end>>

Completions == {"served", "failed"}

Init == made = 0 /\ outcome = "running" /\ chunks = <<>> /\ end = "none"

Make == /\ outcome = "running"
        /\ made' = made + 1
        /\ outcome' \in {"running", "failed"}
        /\ UNCHANGED <<chunks, end>>

Stop == /\ outcome = "running"
        /\ outcome' \in Completions \cup {"dropped"}
        /\ UNCHANGED <<made, chunks, end>>

Deliver == /\ end = "none"
           /\ Len(chunks) < made
           /\ chunks' = Append(chunks, Len(chunks))
           /\ UNCHANGED <<made, outcome, end>>

Complete == /\ end = "none"
            /\ outcome \in Completions
            /\ Len(chunks) = made
            /\ end' = outcome
            /\ UNCHANGED <<made, outcome, chunks>>

BreakOff == /\ end = "none"
            /\ end' \in {"error", "left"}
            /\ UNCHANGED <<made, outcome, chunks>>

Next == Make \/ Stop \/ Deliver \/ Complete \/ BreakOff

Spec == Init /\ [][Next]_vars
=============================================================================
