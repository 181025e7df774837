---------------------------- MODULE BalloonLedger ----------------------------
(***************************************************************************)
(* What a register of balloon batches promises to the state system         *)
(* Miriada: the content of a batch may change while the batch is open, a   *)
(* batch is done only when every balloon in it has been reported, and what *)
(* is done does not change any more (docstrings of                         *)
(* filling_station/services/batches.py, class BatchStatus of models.py).   *)
(***************************************************************************)
CONSTANTS Batches, Balloons

VARIABLES
  state,      \* [Batches -> {"absent", "open", "done"}]
  content,    \* [Batches -> SUBSET Balloons]
  reported    \* [Batches -> SUBSET Balloons]

ledgerVars == <<state, content, reported>>

Init ==
  /\ state = [b \in Batches |-> "absent"]
  /\ content = [b \in Batches |-> {}]
  /\ reported = [b \in Batches |-> {}]

Open(b) ==
  /\ state[b] = "absent"
  /\ state' = [state EXCEPT ![b] = "open"]
  /\ UNCHANGED <<content, reported>>

Change(b) ==
  /\ state[b] = "open"
  /\ \E s \in SUBSET Balloons : content' = [content EXCEPT ![b] = s]
  /\ UNCHANGED <<state, reported>>

Report(b) ==
  /\ state[b] = "open"
  /\ \E s \in SUBSET content[b] : reported' = [reported EXCEPT ![b] = @ \cup s]
  /\ UNCHANGED <<state, content>>

Finish(b) ==
  /\ state[b] = "open"
  /\ content[b] \subseteq reported[b]
  /\ state' = [state EXCEPT ![b] = "done"]
  /\ UNCHANGED <<content, reported>>

Next == \E b \in Batches : Open(b) \/ Change(b) \/ Report(b) \/ Finish(b)

Spec == Init /\ [][Next]_ledgerVars

=============================================================================
