----------------------------- MODULE TankVisits -----------------------------
(***************************************************************************)
(* What the railway scales promise: weighings are booked once and in their *)
(* order, a full tank opens a visit of that tank, and the empty one closes *)
(* the visit that is open.  A departure that no arrival belongs to stays   *)
(* alone, until the next one of that tank takes its place.                 *)
(***************************************************************************)
EXTENDS Naturals, Sequences

CONSTANT Plan     \* the weighings in their order: [tank, full]

Tanks == {Plan[w].tank : w \in DOMAIN Plan}

VARIABLE visits   \* of each tank: weighing at arrival and departure, 0: none

Init == visits = [t \in Tanks |-> <<>>]

Booked(w) == \E t \in Tanks : \E i \in DOMAIN visits[t] :
               w \in {visits[t][i].arrival, visits[t][i].departure}

Open(t) == visits[t] # <<>> /\ visits[t][Len(visits[t])].departure = 0

\* The last visit of a tank is a departure whose arrival nobody has booked.
Lone(t) == visits[t] # <<>> /\ visits[t][Len(visits[t])].arrival = 0

\* No weighing from w on is booked.
Fresh(w) == \A x \in DOMAIN Plan : x >= w => ~Booked(x)

Book(w) ==
  LET t == Plan[w].tank
      old == visits[t]
  IN  /\ Fresh(w) /\ (Plan[w].full \/ ~Lone(t))
      /\ visits' = [visits EXCEPT ![t] =
           IF Plan[w].full THEN Append(old, [arrival |-> w, departure |-> 0])
           ELSE IF Open(t) THEN [old EXCEPT ![Len(old)].departure = w]
           ELSE Append(old, [arrival |-> 0, departure |-> w])]

\* The arrival was missed again: the former departure is lost.
Overwrite(w) ==
  LET t == Plan[w].tank
  IN  /\ Fresh(w) /\ ~Plan[w].full /\ Lone(t)
      /\ visits' = [visits EXCEPT ![t] = [@ EXCEPT ![Len(@)].departure = w]]

Next == \E w \in DOMAIN Plan : Book(w) \/ Overwrite(w)

Spec == Init /\ [][Next]_visits
=============================================================================
