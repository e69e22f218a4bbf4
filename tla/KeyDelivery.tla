---------------------------- MODULE KeyDelivery ----------------------------
(***************************************************************************)
(* What app/billing promises about the key a payment for Pro comes with:   *)
(* its delivery is in the hands of one request at a time, which hands the  *)
(* key out, gives the delivery back or takes it to its grave; what was     *)
(* handed out or lost is never delivered again (/rotatekey makes it good). *)
(* ProKeys, with its two doors, Stars redeliveries, rotations and crashes, *)
(* is shown to implement this.                                             *)
(***************************************************************************)
CONSTANT Payment

VARIABLE delivery   \* payment -> where the delivery of its key has got to

Becomes(p, state) == delivery' = [delivery EXCEPT ![p] = state]

Init == delivery = [p \in Payment |-> "none"]

\* The payment is settled; a Stars charge is answered by the request that
\* settles it.
Grant(p) == delivery[p] = "none" /\ (Becomes(p, "due") \/ Becomes(p, "out"))

\* deliver_key_once
Claim(p) == delivery[p] = "due" /\ Becomes(p, "out")

GiveBack(p) == delivery[p] = "out" /\ Becomes(p, "due")

Give(p) == delivery[p] = "out" /\ Becomes(p, "given")

\* The request dies, its answer is lost, or the payment is refunded first.
Burn(p) == delivery[p] \in {"due", "out"} /\ Becomes(p, "burnt")

Next == \E p \in Payment : Grant(p) \/ Claim(p) \/ GiveBack(p) \/ Give(p) \/ Burn(p)

Spec == Init /\ [][Next]_delivery
=============================================================================
