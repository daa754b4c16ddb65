--------------------------- MODULE MCTokenLedger ---------------------------
(* Values for the constants of TokenLedger.                                *)
EXTENDS TokenLedger, TLC

CONSTANTS alice, bob, coop, r1, r2

Job(requester, provider, price) ==
  [requester |-> requester, provider |-> provider, price |-> price]

(* alice buys a job from bob and runs one at home; her grant covers the    *)
(* first and then not even the fee of the second.                          *)
MCTerms == (r1 :> Job(alice, bob, 40)) @@ (r2 :> Job(alice, alice, 30))

(* Two jobs for bob.                                                       *)
MCTwoJobs == (r1 :> Job(alice, bob, 40)) @@ (r2 :> Job(alice, bob, 30))

MCPolicy == [bps |-> 1000, minMinor |-> 0, feeWaived |-> FALSE, selfLoopMin |-> 0,
             grant |-> 41, refresh |-> 7, floor |-> 1, ceiling |-> 40,
             patronageBps |-> 7000]
=============================================================================
