------------------------------ MODULE MCRailway ------------------------------
\* Two tanks: one comes, the other leaves without having come, the first
\* leaves.
EXTENDS RailwayScales

ThreeWeighings ==
  << [tank |-> 1, full |-> TRUE], [tank |-> 2, full |-> FALSE],
     [tank |-> 1, full |-> FALSE] >>

Mishaps ==
  {{}, {"unplated"}, {"twice"}, {"manual"}, {"send"}, {"apart"}, {"link"},
   {"restart"},
   {"incomplete"}, {"expire"}, {"crash"}, {"database"}, 
   {"late"},   {"edit"}, {"ask"}, {"ask", "form"}, {"ask", "slowread"}}
====
