----------------------------- MODULE Checkpoint -----------------------------
(***************************************************************************)
(* Presence of trucks and trailers on the station (transport/services.py,  *)
(* the management commands of transport, the API and the forms that edit   *)
(* vehicles).                                                              *)
(*                                                                         *)
(* Every minute a task asks Intellect for the plates that the cameras of   *)
(* the gate have seen in the last minutes, and takes each once for each    *)
(* direction: a key in the cache, which lives as long as the window, tells *)
(* what has been taken.  In the evening all vehicles are closed.           *)
(*                                                                         *)
(* A poll is at a minute, a passage between two minutes; entry_at and      *)
(* departure_at are left out, and so are plates of unknown vehicles, for   *)
(* which nothing is written.                                               *)
(***************************************************************************)
EXTENDS Mishaps, Sequences, SequencesExt

CONSTANTS
  Vehicles,
  Timeout,       \* CACHE_TIMEOUT, in minutes
  Window,        \* delta_minutes for the cameras of the gate
  MaxMinute,     \* bound: minutes
  MaxPassages    \* bound: passages

\* intellect.py asks for five minutes, services.py keeps a key for 300 seconds.
ASSUME CheckpointBounds ==
  {MaxMinute, MaxPassages, Timeout} \subseteq Nat /\ Window \in 2 .. Timeout

VARIABLES
  minute,
  due,           \* the poll of the minute is still to be made
  seen,          \* Intellect: what it lists, the oldest first
  list,          \* what the poll has still to take
  held,          \* the presence it has read for the head of the list
  taken,         \* cache: the minute at which vehicle and direction were taken
  present,       \* is_on_station
  closed,        \* the task of the evening has run
  inside,        \* where the vehicles are
  shown,         \* where sightings and the evening say that they are
  crossed,        \* the minute of the last passage of a vehicle in a direction
  passages       \* bound

checkpointVars ==
  <<minute, due, seen, list, held, taken, present, closed, inside, shown,
    crossed, passages>>

\* The life of a key that is set up to two minutes after a passage.
Life == Timeout + 2

Never == -Life - 1
Unread == "unread"
Directions == {"in", "out"}      \* is_on_station: TRUE, FALSE

CheckpointInit ==
  /\ minute = 0 /\ due = TRUE /\ seen = <<>> /\ list = <<>> /\ held = Unread
  /\ taken = [k \in Vehicles \X Directions |-> Never] /\ crossed = taken
  /\ present \in [Vehicles -> Directions] /\ inside = present /\ shown = present
  /\ closed = FALSE /\ passages = 0

\* The direction of a sighting: by camera, "1" is away from it.
CheckOnStation(camera, direction) ==
  CASE <<camera, direction>> \in {<<27, 1>>, <<28, 2>>, <<23, 4>>} -> "in"
    [] <<camera, direction>> \in {<<27, 2>>, <<28, 1>>, <<23, 3>>} -> "out"
    [] OTHER -> Unread

-----------------------------------------------------------------------------
\* A vehicle passes the gate, in front of one of its cameras.  It should not
\* pass again within a minute, nor the same way as long as the key of the last
\* time may live, nor just when a poll is made; the camera may misread it.
Pass(v) ==
  /\ passages < MaxPassages /\ passages' = passages + 1 /\ list = <<>>
  /\ \E camera \in {27, 28}, direction \in {1, 2} :
       LET in == CheckOnStation(camera, direction)
           again == \E d \in Directions :
                      minute - crossed[<<v, d>>] =< (IF d = in THEN Life ELSE 1)
       IN /\ in # inside[v] /\ inside' = [inside EXCEPT ![v] = in]
          /\ crossed' = [crossed EXCEPT ![<<v, in>>] = minute]
          /\ \/ /\ seen' = Append(seen, [v |-> v, in |-> in, at |-> minute])
                /\ shown' = [shown EXCEPT ![v] = in]
                /\ IF again THEN ~due /\ Slip("return")
                   ELSE IF due THEN Slip("edge") ELSE Smooth
             \/ /\ seen' = Append(seen, [v |-> v, in |-> Unread, at |-> minute])
                /\ shown' = shown
                /\ ~due /\ Slip("misread")
  /\ UNCHANGED <<minute, due, list, held, taken, present, closed>>

\* A minute is over; Intellect lists only what is in the window.
Tick ==
  /\ minute < MaxMinute /\ ~due /\ list = <<>>
  /\ minute' = minute + 1 /\ due' = TRUE
  /\ \E n \in 0 .. Len(seen) :
       /\ \A i \in DOMAIN seen : i > n <=> minute' - seen[i].at =< Window
       /\ seen' = SubSeq(seen, n + 1, Len(seen))
  /\ taken' = [k \in DOMAIN taken |->
                 IF minute' - taken[k] > Timeout THEN Never ELSE taken[k]]
  /\ crossed' = [k \in DOMAIN crossed |->
                  IF minute' - crossed[k] > Life THEN Never ELSE crossed[k]]
  /\ Smooth /\ UNCHANGED <<list, held, present, closed, inside, shown, passages>>

\* The task asks Intellect; or it expires, or the answer is an error.
Poll ==
  /\ due /\ due' = FALSE
  /\ \/ Smooth /\ list' = seen
     \/ Slip("skipped") /\ list' = <<>>
     \/ Slip("unordered") /\ list' = Reverse(seen)
  /\ UNCHANGED <<minute, seen, held, taken, present, closed, inside, shown,
                crossed, passages>>

-----------------------------------------------------------------------------
Key(s) == <<s.v, s.in>>

\* A key may be gone or not when it is as old as its timeout.
Cached(s) == minute - taken[Key(s)] =< Timeout
Expired(s) == minute - taken[Key(s)] >= Timeout

\* The head of the list was taken already, or has no direction.
SkipSighting ==
  /\ list # <<>> /\ held = Unread
  /\ IF Head(list).in = Unread THEN TRUE ELSE Cached(Head(list))
  /\ list' = Tail(list)
  /\ Smooth
  /\ UNCHANGED <<minute, due, seen, held, taken, present, closed, inside,
                shown, crossed, passages>>

FindVehicle ==
  /\ list # <<>> /\ held = Unread /\ Head(list).in # Unread /\ Expired(Head(list))
  /\ held' = present[Head(list).v]
  /\ Smooth
  /\ UNCHANGED <<minute, due, seen, list, taken, present, closed, inside,
                shown, crossed, passages>>

\* The row is written when its presence was another one.
ApplyStationStatus(v, in) ==
  present' = IF held = in THEN present ELSE [present EXCEPT ![v] = in]

\* Mutant: one key for both directions.
ProcessWithOneKey ==
  /\ held # Unread
  /\ LET s == Head(list) IN
     /\ ApplyStationStatus(s.v, s.in)
     /\ \/ /\ taken' = [taken EXCEPT ![<<s.v, "in">>] = minute, ![<<s.v, "out">>] = minute]
           /\ Smooth
        \/ taken' = taken /\ Slip("cache")
  /\ list' = Tail(list) /\ held' = Unread
  /\ UNCHANGED <<minute, due, seen, closed, inside, shown, crossed, passages>>

\* The row, then the key, unless the cache fails or the worker dies.
ProcessEvent ==
  /\ held # Unread
  /\ LET s == Head(list) IN
     /\ ApplyStationStatus(s.v, s.in)
     /\ \/ taken' = [taken EXCEPT ![Key(s)] = minute] /\ Smooth
        \/ taken' = taken /\ Slip("cache")
  /\ list' = Tail(list) /\ held' = Unread
  /\ UNCHANGED <<minute, due, seen, closed, inside, shown, crossed, passages>>

\* In the evening.  A sighting that is still to be taken then may count
\* before it or after it.
CloseAllOnStation ==
  /\ ~closed /\ closed' = TRUE
  /\ IF \E i \in DOMAIN seen : seen[i].in # Unread /\ taken[Key(seen[i])] =< seen[i].at
     THEN Slip("evening") ELSE Smooth
  /\ present' = [v \in Vehicles |-> "out"] /\ shown' = present'
  /\ UNCHANGED <<minute, due, seen, list, held, taken, inside, crossed, passages>>

\* A request or a form saves a whole row, with the presence that it has read
\* before or that somebody has chosen.
EditVehicle(v) ==
  /\ Slip("edit") /\ \E in \in Directions : present' = [present EXCEPT ![v] = in]
  /\ UNCHANGED <<minute, due, seen, list, held, taken, closed, inside, shown,
                crossed, passages>>

CheckpointNext ==
  \/ \E v \in Vehicles : Pass(v) \/ EditVehicle(v)
  \/ Tick \/ Poll \/ SkipSighting \/ FindVehicle \/ ProcessEvent
  \/ CloseAllOnStation

CheckpointSpec ==
  /\ MishapInit /\ CheckpointInit
  /\ [][CheckpointNext]_<<mishapVars, checkpointVars>>

-----------------------------------------------------------------------------
\* Once no sighting is listed any more, a vehicle is present when it was seen
\* to come in last, unless the evening has closed it since (services.py: every
\* sighting is taken once and in order, although the list repeats it for as
\* long as a key lives).  One poll that is skipped or in another order, or one
\* key that is lost, does no harm as long as vehicles take their time.
PresenceFollows ==
  (/\ mishaps \cap {"return", "edge", "misread", "edit", "evening"} = {}
   /\ slips =< 1 /\ seen = <<>> /\ list = <<>>)
  => present = shown
=============================================================================
