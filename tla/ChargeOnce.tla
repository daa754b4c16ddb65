----------------------------- MODULE ChargeOnce -----------------------------
(***************************************************************************)
(* What the settlement side of the exchange promises, without calls,       *)
(* lookups, memory, crashes or the order of events: a receipt is charged   *)
(* at most once against its authorization, its charge is recorded on the   *)
(* PDS at most once, and its tokens move at most once, in this order.      *)
(* ReceiptSettlement is shown to implement it.                             *)
(***************************************************************************)
EXTENDS Integers

CONSTANTS
  Receipts, Keys,
  KeyOf,         \* the authorization a receipt draws on
  Price,
  OneShot,       \* receipts whose authorization pays for one receipt only
  Cap            \* Cap[r]: the most its authorization may ever be charged, or NoCap
CONSTANT NoCap

VARIABLES
  charged,       \* receipts charged
  spent,         \* total charged per authorization
  recorded,      \* receipts whose settlement record is published
  moved          \* receipts whose tokens have moved

vars == <<charged, spent, recorded, moved>>

Init ==
  /\ charged = {} /\ recorded = {} /\ moved = {}
  /\ spent = [k \in Keys |-> 0]

Charge(r) ==
  /\ r \notin charged
  /\ r \in OneShot => \A q \in charged \cap OneShot : KeyOf[q] # KeyOf[r]
  /\ Cap[r] # NoCap => spent[KeyOf[r]] + Price[r] <= Cap[r]
  /\ charged' = charged \cup {r}
  /\ spent' = [spent EXCEPT ![KeyOf[r]] = @ + Price[r]]
  /\ UNCHANGED <<recorded, moved>>

Record(r) ==
  /\ r \in charged \ recorded
  /\ recorded' = recorded \cup {r}
  /\ UNCHANGED <<charged, spent, moved>>

Move(r) ==
  /\ r \in recorded \ moved
  /\ moved' = moved \cup {r}
  /\ UNCHANGED <<charged, spent, recorded>>

Next == \E r \in Receipts : Charge(r) \/ Record(r) \/ Move(r)

Spec == Init /\ [][Next]_vars
=============================================================================
