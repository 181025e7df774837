---------------------------- MODULE VehicleChoice ----------------------------
(***************************************************************************)
(* Which vehicle a batch of the autogas column is booked on                *)
(* (autogas/batch_events.py, filling_station/services/transport.py).       *)
(*                                                                         *)
(* A request for a number is answered with one combination of a truck and  *)
(* a trailer, or with a list of them.  The panel shows them as texts, and  *)
(* the confirmation finds the vehicles again by these texts, in tables     *)
(* that may have changed since.  AutogasCycle leaves the choice open; here *)
(* it is all there is: tags are written and read in one step.              *)
(*                                                                         *)
(* A registration number is a natural number, its order that of the        *)
(* alphabet.  entry_at is left out: which of several vehicles came last is *)
(* open.                                                                   *)
(***************************************************************************)
EXTENDS Mishaps, Sequences, FiniteSets

CONSTANTS
  Trucks, Trailers,   \* registration numbers
  Service,            \* those of service records: no pattern, with a space
  Fleets,             \* bound: what is in the tables at first
  ListSize            \* VEHICLE_LIST_SIZE, 10 in the code

TruckRow ==
  [type : {"cistern", "tractor", "other"}, active : BOOLEAN, here : BOOLEAN]
TrailerRow == [gas : BOOLEAN, active : BOOLEAN, here : BOOLEAN, truck : Trucks]

ASSUME PlatesAreNat == Trucks \cup Trailers \subseteq Nat \ {0}
ASSUME TablesAreFinite == IsFiniteSet(Trucks) /\ IsFiniteSet(Trailers)
\* A number that has a pattern has that of a truck or that of a trailer.
ASSUME PatternsDiffer == Trucks \cap Trailers \subseteq Service
ASSUME FleetsAreTables ==
  Fleets \subseteq [truck : [Trucks -> TruckRow], trailer : [Trailers -> TrailerRow]]
ASSUME ListIsShort == ListSize \in Nat

VARIABLES
  truck,     \* table Truck: [type, active, here]
  trailer,   \* table Trailer: [gas, active, here, truck]
  panel,     \* vehicle_select: the texts that are shown
  meant,     \* the combinations that they stand for
  booking    \* what the last confirmation made of which combination

choiceVars == <<truck, trailer, panel, meant, booking>>

NoCombo == [truck |-> 0, trailer |-> 0]
Alone(t) == [truck |-> t, trailer |-> 0]
With(x) == [truck |-> trailer[x].truck, trailer |-> x]

Blank == [ready |-> FALSE, proposed |-> <<>>, lines |-> <<>>]

ChoiceInit ==
  /\ \E f \in Fleets : truck = f.truck /\ trailer = f.trailer
  /\ panel = Blank /\ meant = <<>>
  /\ booking = <<>>

-----------------------------------------------------------------------------
(* Numbers and texts.                                                      *)

\* In the tables a number is canonical; a service record stays as it was typed.
Stored(n) == [number |-> n, form |-> "canonical"]

\* Every form of a number that has a pattern leads to the canonical one.
CanonicalizeRegistrationNumber(text) ==
  IF text.number \in Service THEN text ELSE Stored(text.number)

\* On the panel numbers have no space.
FormatHmi(n) == [number |-> n, form |-> "hmi"]

\* The numbers on a proposal or in a line of the list.
FormatListLine(c) ==
  IF c.trailer = 0 THEN <<FormatHmi(c.truck)>>
  ELSE <<FormatHmi(c.truck), FormatHmi(c.trailer)>>

ParseVehicleListLine(line) ==
  [i \in DOMAIN line |-> CanonicalizeRegistrationNumber(line[i])]

-----------------------------------------------------------------------------
(* Queries.                                                                *)

Cisterns == {t \in Trucks : truck[t].active /\ truck[t].type = "cistern"}
Tractors == {t \in Trucks : truck[t].active /\ truck[t].type = "tractor"}
GasTrailers == {x \in Trailers : trailer[x].active /\ trailer[x].gas}

\* ordering = ['-is_on_station', '-entry_at'] and first()
FirstOf(S, table) ==
  IF \E n \in S : table[n].here THEN {n \in S : table[n].here} ELSE S

Lowest(S) == CHOOSE n \in S : \A m \in S : n =< m

LinkedGasTrailer(t) == FirstOf({x \in GasTrailers : trailer[x].truck = t}, trailer)

\* Mutant: the trailer that was named is not looked at.
FindTransportsByTruck(texts) ==
  LET named == FirstOf({t \in Cisterns \cup Tractors : Stored(t) \in texts}, truck)
  IN  UNION {IF t \in Cisterns THEN {Alone(t)}
             ELSE {With(x) : x \in LinkedGasTrailer(t)} : t \in named}

\* The combinations that may be found for some numbers; none, if the truck that
\* comes first is a tractor without a trailer.
FindTransports(texts) ==
  LET named == FirstOf({t \in Cisterns \cup Tractors : Stored(t) \in texts}, truck)
      behind == FirstOf({x \in GasTrailers : Stored(x) \in texts}, trailer)
      linked(t) ==
        IF behind = {} THEN LinkedGasTrailer(t)
        ELSE UNION {IF trailer[x].truck = t THEN {x} ELSE LinkedGasTrailer(t) : x \in behind}
  IN  UNION {IF t \in Cisterns THEN {Alone(t)} ELSE {With(x) : x \in linked(t)}
             : t \in named}

\* Only the first tractor on the station is asked for its trailer.
FindOnStationCombo ==
  LET here(S) == {t \in S : truck[t].here}
      follows == {With(x) : x \in LinkedGasTrailer(Lowest(here(Tractors)))}
      left == {x \in GasTrailers : trailer[x].here /\ trailer[x].truck \in Tractors}
  IN  IF here(Cisterns) # {} THEN {Alone(Lowest(here(Cisterns)))}
      ELSE IF here(Tractors) # {} /\ follows # {} THEN follows
      ELSE IF left # {} THEN {With(Lowest(left))} ELSE {}

OnStation(c) == truck[c.truck].here \/ (c.trailer # 0 /\ trailer[c.trailer].here)

Before(c, d) ==
  \/ OnStation(c) /\ ~OnStation(d)
  \/ /\ OnStation(c) = OnStation(d)
     /\ \/ c.truck < d.truck
        \/ c.truck = d.truck /\ c.trailer < d.trailer

AllCombos ==
  {Alone(t) : t \in Cisterns}
  \cup {With(x) : x \in {y \in GasTrailers : trailer[y].truck \in Tractors}}

\* How many combinations come before this one.
Rank(c) == Cardinality({d \in AllCombos : Before(d, c)})

BuildManualVehicleList ==
  LET n == Cardinality(AllCombos)
  IN  [i \in 1 .. (IF n < ListSize THEN n ELSE ListSize) |->
         CHOOSE c \in AllCombos : Rank(c) = i - 1]

-----------------------------------------------------------------------------
(* Steps.                                                                  *)

\* The weighbridge cameras list the numbers of three hours, or no answer comes.
GetTransportNumbers(seen) == {CanonicalizeRegistrationNumber(
                                [number |-> n, form |-> "compact"]) : n \in seen}

ShowProposal(c) ==
  /\ panel' = [ready |-> TRUE, proposed |-> FormatListLine(c), lines |-> <<>>]
  /\ meant' = <<c>>

ShowList(cs) ==
  /\ panel' = [Blank EXCEPT !.lines = [i \in DOMAIN cs |-> FormatListLine(cs[i])]]
  /\ meant' = cs

\* process_autogas_batch_create
AnswerRequest ==
  /\ panel = Blank
  /\ \E seen \in SUBSET (Trucks \cup Trailers) :
       LET found == FindTransports(GetTransportNumbers(seen))
       IN  IF found # {} THEN \E c \in found : ShowProposal(c)
           ELSE IF FindOnStationCombo # {}
             THEN \E c \in FindOnStationCombo : ShowProposal(c)
             ELSE ShowList(BuildManualVehicleList)
  /\ Smooth /\ UNCHANGED <<truck, trailer, booking>>

\* No combination, or those that the numbers may lead to.
ComboFromNumbers(line) ==
  FindTransports({CanonicalizeRegistrationNumber(line[i]) : i \in DOMAIN line})

ComboFromListSelection(i) ==
  IF i \in DOMAIN panel.lines THEN ComboFromNumbers(ParseVehicleListLine(panel.lines[i]))
  ELSE {}

\* process_autogas_operator_confirm: list_mode is the panel's own, and so is
\* the index.
Confirm ==
  /\ booking = <<>> /\ panel # Blank
  /\ \E listMode \in BOOLEAN, i \in 1 .. ListSize + 1 :
       LET shown == IF ~listMode /\ panel.ready THEN meant[1]
                    ELSE IF listMode /\ ~panel.ready /\ i \in DOMAIN meant
                      THEN meant[i] ELSE NoCombo
           found == IF listMode THEN ComboFromListSelection(i)
                    ELSE ComboFromNumbers(panel.proposed)
       IN  IF found = {} THEN booking' = <<shown, NoCombo>>
           ELSE \E c \in found : booking' = <<shown, c>>
  /\ Smooth /\ UNCHANGED <<truck, trailer, panel, meant>>

\* While the operator looks at the panel, vehicles come and go ...
Move ==
  /\ booking = <<>> /\ panel # Blank
  /\ \/ \E t \in Trucks : truck' = [truck EXCEPT ![t].here = ~@] /\ UNCHANGED trailer
     \/ \E x \in Trailers : trailer' = [trailer EXCEPT ![x].here = ~@] /\ UNCHANGED truck
  /\ Smooth /\ UNCHANGED <<panel, meant, booking>>

\* ... and somebody edits a vehicle: its type, its activity, or the truck that
\* a trailer belongs to.
EditFleet ==
  /\ booking = <<>> /\ panel # Blank /\ Slip("edit")
  /\ \/ /\ \E t \in Trucks :
             \/ truck' = [truck EXCEPT ![t].active = ~@]
             \/ \E type \in {"cistern", "tractor", "other"} :
                  truck' = [truck EXCEPT ![t].type = type]
        /\ UNCHANGED trailer
     \/ /\ \E x \in Trailers :
             \/ trailer' = [trailer EXCEPT ![x].active = ~@]
             \/ trailer' = [trailer EXCEPT ![x].gas = ~@]
             \/ \E t \in Trucks : trailer' = [trailer EXCEPT ![x].truck = t]
        /\ UNCHANGED truck
  /\ UNCHANGED <<panel, meant, booking>>

ChoiceNext == AnswerRequest \/ Confirm \/ Move \/ EditFleet

ChoiceSpec ==
  MishapInit /\ ChoiceInit /\ [][ChoiceNext]_<<mishapVars, choiceVars>>

-----------------------------------------------------------------------------
\* A cistern alone, or a tractor with an active trailer of its own.
Whole(c) ==
  \/ c.trailer = 0 /\ c.truck \in Cisterns
  \/ c.trailer \in GasTrailers /\ c.truck \in Tractors
     /\ trailer[c.trailer].truck = c.truck

\* The batch is booked on the combination that the operator has confirmed,
\* although it is found again by its text; after an edit at least on the same
\* truck, with a trailer of its own (combo_from_list_selection, find_transports).
\* A service record with a space in its number is not found again: its truck is
\* rejected, and for its trailer the tractor may get another one.
ConfirmedAsShown ==
  booking # <<>> =>
    LET shown == booking[1]
        booked == booking[2]
    IN  /\ booked # NoCombo => booked.truck = shown.truck /\ Whole(booked)
        /\ ("edit" \notin mishaps /\ {shown.truck, shown.trailer} \cap Service = {})
             => booked = shown
=============================================================================
