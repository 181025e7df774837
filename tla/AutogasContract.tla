--------------------------- MODULE AutogasContract ---------------------------
(***************************************************************************)
(* What one filling cycle promises: the batch is opened by Django while    *)
(* the PLC waits for it, only then does the PLC run the batch, it is       *)
(* saved with the weights of this very cycle while the PLC waits for that, *)
(* and only then does the PLC return to its initial state.                 *)
(*                                                                         *)
(* The header of autogas/SU2/Code/BatchProcess.txt and the docstrings of   *)
(* autogas/batch_events.py describe this protocol.                         *)
(***************************************************************************)
VARIABLES
  phase,   \* of the PLC: "idle", "requested" (step 1), "running" (steps 2-5)
  batch    \* of this cycle: "none", "open", "saved"

TypeOK ==
  /\ phase \in {"idle", "requested", "running"}
  /\ batch \in {"none", "open", "saved"}

Init == phase = "idle" /\ batch = "none"

Request ==
  /\ phase = "idle" /\ phase' = "requested"
  /\ UNCHANGED batch

Open ==
  /\ phase = "requested" /\ batch = "none"
  /\ batch' = "open"
  /\ UNCHANGED phase

Run ==
  /\ phase = "requested" /\ batch = "open"
  /\ phase' = "running"
  /\ UNCHANGED batch

Save ==
  /\ phase = "running" /\ batch = "open"
  /\ batch' = "saved"
  /\ UNCHANGED phase

Finish ==
  /\ phase = "running" /\ batch = "saved"
  /\ phase' = "idle" /\ batch' = "none"

Next == Request \/ Open \/ Run \/ Save \/ Finish

Spec == Init /\ [][Next]_<<phase, batch>>

=============================================================================
