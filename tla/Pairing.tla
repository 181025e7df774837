------------------------------- MODULE Pairing -------------------------------
(***************************************************************************)
(* What the carousel promises: every balloon that is filled gets one row   *)
(* with its own passport, and then its own full weight in that row.        *)
(***************************************************************************)
CONSTANT Balloons

VARIABLE card      \* the row of a balloon: none yet, opened, complete, or
                   \* one that has something of another balloon

Init == card = [b \in Balloons |-> "none"]

Open(b) == card[b] = "none" /\ card' = [card EXCEPT ![b] = "opened"]
Complete(b) == card[b] = "opened" /\ card' = [card EXCEPT ![b] = "complete"]

Next == \E b \in Balloons : Open(b) \/ Complete(b)

Spec == Init /\ [][Next]_card

TypeOK == card \in [Balloons -> {"none", "opened", "complete", "mixed"}]
=============================================================================
