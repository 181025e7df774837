----------------------------- MODULE MCStation -----------------------------
\* Seven parts of the station that share no state: in each behaviour one of
\* them moves, which is chosen at the beginning, and the others rest in one of
\* their initial states.
EXTENDS SettingsCache, Checkpoint, TtnFiles, Passages, FeigFrames,
  VehicleChoice, FrameStream, TLC

CONSTANTS c1, c2, w1, w2, l1, l2, t1, t2

VARIABLE focus

NoteKind == [a |-> "auto", a2 |-> "auto", b |-> "balloon"]
Parts == {{"tag"}, {"date", "time", "tag"}, {"date"}}

\* Cisterns and tractors, one of which may be out of use, and two trailers behind
\* any of them.
TruckKinds ==
  {[type |-> "cistern", active |-> TRUE], [type |-> "tractor", active |-> TRUE],
   [type |-> "tractor", active |-> FALSE]}

AllFleets ==
  {[truck |-> [t \in Trucks |->
                 [type |-> k[t].type, active |-> k[t].active, here |-> t \in here]],
    trailer |-> [x \in Trailers |->
                 [gas |-> TRUE, active |-> x \in used, here |-> x \in here,
                  truck |-> behind[x]]]]
   : k \in [Trucks -> TruckKinds], here \in SUBSET (Trucks \cup Trailers),
     behind \in [Trailers -> Trucks], used \in {{3}, {3, 4}}}

\* No value of these sets is told from another one of its set.
Symmetry ==
  Permutations({c1, c2}) \cup Permutations({w1, w2}) \cup Permutations({l1, l2})
  \cup Permutations({t1, t2})

Still(part, state) == focus # part => state

Init ==
  /\ focus \in {"settings", "checkpoint", "ttn", "passages", "frames", "choice",
               "stream"}
  /\ PassageInit
  /\ Still("passages", /\ MishapInit
                       /\ cards = [t \in Tags |-> IF t = t1 THEN NewCard(0) ELSE NoCard])
  /\ SettingsInit
  /\ Still("settings", table = [n \in Carousels |-> "a"] /\ job[l1] # Rest)
  /\ CheckpointInit
  /\ Still("checkpoint", present = [v \in Vehicles |-> "out"])
  /\ TtnInit
  /\ Still("ttn", amounts = [d \in Notes |-> 0])
  /\ FrameInit
  /\ Still("frames", event.command = 99 /\ event.status = 0)
  /\ ChoiceInit
  /\ Still("choice", /\ \A t \in Trucks : truck[t] = [type |-> "cistern",
                                                     active |-> TRUE, here |-> FALSE]
                     /\ \A x \in Trailers : trailer[x] = [gas |-> TRUE, truck |-> 1,
                                                     active |-> x = 3, here |-> FALSE])
  /\ StreamInit

Next ==
  /\ focus' = focus
  /\ \/ /\ focus = "settings" /\ SettingsNext
        /\ UNCHANGED <<checkpointVars, ttnVars, passageVars, frameVars, choiceVars, streamVars>>
     \/ /\ focus = "checkpoint" /\ CheckpointNext
        /\ UNCHANGED <<settingsVars, ttnVars, passageVars, frameVars, choiceVars, streamVars>>
     \/ /\ focus = "ttn" /\ TtnNext
        /\ UNCHANGED <<settingsVars, checkpointVars, passageVars, frameVars, choiceVars, streamVars>>
     \/ /\ focus = "passages" /\ PassageNext
        /\ UNCHANGED <<settingsVars, checkpointVars, ttnVars, frameVars, choiceVars, streamVars>>
     \/ /\ focus = "frames" /\ FrameNext
        /\ UNCHANGED <<settingsVars, checkpointVars, ttnVars, passageVars, choiceVars, streamVars>>
     \/ /\ focus = "choice" /\ ChoiceNext
        /\ UNCHANGED <<settingsVars, checkpointVars, ttnVars, passageVars, frameVars, streamVars>>
     \/ /\ focus = "stream" /\ StreamNext
        /\ UNCHANGED <<settingsVars, checkpointVars, ttnVars, passageVars, frameVars, choiceVars>>

Spec ==
  Init /\ [][Next]_<<focus, mishapVars, settingsVars, checkpointVars, ttnVars,
                     passageVars, frameVars, choiceVars, streamVars>>
=============================================================================
