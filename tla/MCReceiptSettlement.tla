------------------------ MODULE MCReceiptSettlement ------------------------
(* Values for the constants of ReceiptSettlement.                          *)
EXTENDS ReceiptSettlement, TLC

CONSTANTS r1, r2, j1, a1, t1, alice, bob, coop, n1, h1, h2, loop, op

MCReceipts    == {r1, r2}
MCOneReceipt  == {r1}
MCDeps        == {j1, a1, t1}
MCDids        == {alice, bob, coop}
MCNonces      == {n1}
MCOwner       == (j1 :> alice) @@ (a1 :> alice) @@ (t1 :> bob)
MCJobAuth     == [d \in MCDeps |-> a1]

Receipt(price, proBono, provider) ==
  [requester |-> alice, provider |-> provider, job |-> j1, attestation |-> t1,
   price |-> price, proBono |-> proBono, authentic |-> TRUE]

MCPolicy == [bps |-> 500, minMinor |-> 5, feeWaived |-> TRUE, selfLoopMin |-> 0,
             grant |-> 100, refresh |-> 0]

(* Two receipts against one job and so one authorization.                  *)
MCBody        == [r \in Receipts |-> Receipt(60, FALSE, bob)]
MCSingleJob   == [d \in MCDeps |-> [nonce |-> n1, scope |-> "singleJob", budget |-> NoBudget]]
MCSession     == [d \in MCDeps |-> [nonce |-> n1, scope |-> "session", budget |-> 100]]

(* A grant of 50 covers the second receipt and not the first.              *)
MCUneven      == (r1 :> Receipt(60, FALSE, bob)) @@ (r2 :> Receipt(45, FALSE, bob))
MCSmallGrant  == [MCPolicy EXCEPT !.grant = 50]

MCSymmetry == Permutations(MCReceipts)
=============================================================================
