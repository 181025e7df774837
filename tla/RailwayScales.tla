---------------------------- MODULE RailwayScales ----------------------------
(***************************************************************************)
(* The railway scales: the PLC program SU1/Code/RailwayProcess.txt, the    *)
(* OPC UA bridge (OpcBridge, here with triggers that have idempotency      *)
(* keys), the three Celery tasks (railway_service/services), the tables    *)
(* of batches, tanks and visits, the cached statistics, and the web forms  *)
(* and requests that change the tables.                                    *)
(*                                                                         *)
(* Weights stand for themselves: a row keeps the number of the weighing    *)
(* it took its weight from.  gas_weight is written with the departure, from *)
(* the two weights of the row, and is left out.  The comparison with OCR   *)
(* and the photos change nothing else and are left out.                    *)
(***************************************************************************)
EXTENDS Integers, Sequences, FiniteSets, Bags

CONSTANTS
  Plan,         \* the weighings in their order: [tank, full]
  MishapSets,   \* what may go wrong in a behaviour
  MaxSlips,     \* bound: things that go wrong
  MaxQueries,   \* bound: requests for statistics
  WriteThrough, MaxAttempts

Weighings == DOMAIN Plan
Numbers == {Plan[w].tank : w \in Weighings}

ASSUME RailwayBounds ==
  MaxSlips \in Nat /\ MaxQueries \in Nat /\ WriteThrough \in BOOLEAN
  /\ MaxAttempts \in Nat \ {0}
ASSUME PlanIsSequence ==
  Plan \in Seq([tank : Nat \ {0}, full : BOOLEAN])

-----------------------------------------------------------------------------
(* Tags and triggers.                                                      *)

Rank == [camera_worked |-> 1, active |-> 2, type_known |-> 3]
Tags == DOMAIN Rank

Pos ==
  [railway_batch_started |-> {"active", "type_known"},
   railway_batch_ended   |-> {},
   railway_camera_worked |-> {"camera_worked"}]

Neg ==
  [railway_batch_started |-> {},
   railway_batch_ended   |-> {"active"},
   railway_camera_worked |-> {}]

Triggers == DOMAIN Pos

VARIABLES
  plc, sampled, snap, initialized, link, queue, attempt, orphan, idem,
  mishaps,   \* what may go wrong in this behaviour
  slips,     \* how often something did
  turn,      \* the last weighing, 0: none yet
  scale,     \* "free", "settling": a tank rolls on, "stable"
  reg,       \* weighing in stable_weight and on_station
  btype,     \* railway_batch.batch_type
  moved,     \* weight_change_detected
  heard,     \* batch_type and weighing in the snapshot of the dispatcher
  plate,     \* the last number that Intellect has recognised, as a weighing
  tasks,     \* bag of Celery tasks
  batches,   \* table RailwayBatch, oldest row first
  present,   \* table RailwayTank: is_on_station, or "new": no row
  hist,      \* table RailwayTankHistory, oldest row first
  stat,      \* railway_batch_statistic in the cache
  query,     \* statistics that a request has computed and not yet stored
  queries,   \* requests for statistics so far
  form       \* tank of a form that is saved and not yet committed, 0: none

bridgeRest == <<sampled, snap, initialized, link, attempt, orphan, idem>>
bridgeVars == <<plc, queue, bridgeRest>>
scaleVars == <<turn, scale, reg, btype, moved, plate>>
tables == <<batches, present, hist>>
webVars == <<stat, query, queries, form>>
vars == <<bridgeVars, mishaps, slips, scaleVars, heard, tasks, tables, webVars>>

Bridge == INSTANCE OpcBridge WITH
  Guarded <- {"railway_batch_started", "railway_batch_ended"}

NoStat == [left |-> {-1}, here |-> {}]

Init ==
  /\ Bridge!BridgeInit
  /\ mishaps \in MishapSets /\ slips = 0
  /\ turn = 0 /\ scale = "free" /\ reg = 0 /\ btype = 0 /\ moved = FALSE
  /\ heard = [type |-> 0, reg |-> 0]
  /\ plate = 0
  /\ tasks = EmptyBag
  /\ batches = <<>> /\ present = [t \in Numbers |-> "new"] /\ hist = <<>>
  /\ stat = NoStat /\ query = NoStat /\ queries = 0 /\ form = 0

Slip(kind) == kind \in mishaps /\ slips < MaxSlips /\ slips' = slips + 1

\* Everything that follows from the last event has happened: what takes a
\* minute or more, such as the next tank, comes after it.
Served ==
  /\ tasks = EmptyBag /\ queue = <<>>
  /\ IF link = "up" THEN sampled = plc ELSE mishaps \cap {"link", "restart"} # {}

InTime == IF Served THEN slips' = slips ELSE Slip("late")

-----------------------------------------------------------------------------
(* The PLC and the tanks on its scales.                                    *)

\* The next tank rolls onto the scales.
Roll ==
  /\ scale = "free" /\ turn + 1 \in Weighings
  /\ InTime
  /\ turn' = turn + 1 /\ scale' = "settling"
  /\ UNCHANGED <<plc, reg, btype, moved, plate>>

\* The weight is stable, which takes longer than a task: the first tank starts
\* the batch and gives its type.
Stabilize ==
  /\ scale = "settling" /\ scale' = "stable"
  /\ IF tasks = EmptyBag THEN slips' = slips ELSE Slip("late")
  /\ reg' = turn /\ moved' = TRUE
  /\ IF "active" \in plc THEN UNCHANGED <<plc, btype>>
     ELSE /\ btype' = IF Plan[turn].full THEN 1 ELSE 2
          /\ plc' = plc \cup {"active", "type_known"}
  /\ UNCHANGED <<turn, plate>>

\* The tank moves: the camera stops, and Intellect has its number or still
\* that of an earlier tank, or none.  A tank may only have jerked.
Shoot ==
  /\ scale = "stable"
  /\ plc' = plc \cup {"camera_worked"}
  /\ \/ plate' = turn /\ scale' = "free" /\ slips' = slips
     \/ plate' \in {0, plate} /\ scale' = "free" /\ Slip("unplated")
     \/ plate' = turn /\ scale' = "settling" /\ Slip("twice")
  /\ UNCHANGED <<turn, reg, btype, moved>>

EndBatch ==
  /\ plc' = plc \ {"active", "type_known"}
  /\ btype' = 0 /\ moved' = FALSE

\* completion_time_minutes after the last tank: by then no idempotency key of
\* 30 seconds is left.
Complete ==
  /\ scale = "free" /\ "active" \in plc /\ moved
  /\ InTime /\ (idem = {} \/ "late" \in mishaps)
  /\ EndBatch
  /\ UNCHANGED <<turn, scale, reg, plate>>

\* The commands of the panel, honoured at once.
Panel ==
  /\ Slip("manual")
  /\ \/ "active" \in plc /\ EndBatch
     \/ /\ "active" \notin plc /\ plc' = plc \cup {"active"}
        /\ moved' = FALSE /\ btype' = btype
  /\ UNCHANGED <<turn, scale, reg, plate>>

Plc ==
  /\ Roll \/ Stabilize \/ Shoot \/ Complete \/ Panel
  /\ UNCHANGED <<bridgeRest, queue, mishaps, heard, tasks, tables, webVars>>

-----------------------------------------------------------------------------
(* The bridge.                                                             *)

NewTask(kind, h) == [kind |-> kind, type |-> h.type, reg |-> h.reg,
                     stage |-> "queued", number |-> 0]

\* send_task fails and the trigger does not fire again.
Sent(fires) ==
  \/ slips' = slips /\ tasks' = tasks (+) SetToBag({NewTask(tr, heard') : tr \in fires})
  \/ fires # {} /\ Slip("send") /\ tasks' = tasks

Arrived(fires) == IF tasks' = tasks THEN {} ELSE fires

Connect == Bridge!Connect /\ UNCHANGED <<slips, heard, tasks>>

InitialRead ==
  /\ heard' = [type |-> btype, reg |-> reg]
  /\ Sent(Bridge!InitialReadFires)
  /\ Bridge!InitialRead(Arrived(Bridge!InitialReadFires))

\* The server samples all items together, or some only.  The weight and
\* on_station were reported while the camera was still on.
Publish ==
  \E S \in {Tags} \cup (IF "apart" \in mishaps THEN {{t} : t \in Tags} ELSE {}) :
    /\ heard' = [type |-> IF "type_known" \in S THEN btype ELSE heard.type,
                 reg |-> reg]
    /\ Sent(Bridge!PublishFires(S))
    /\ Bridge!Publish(S, Arrived(Bridge!PublishFires(S)))

WriteDone == Bridge!WriteDone /\ UNCHANGED <<slips, heard, tasks>>

Lose ==
  /\ \/ Bridge!Disconnect /\ Slip("link")
     \/ Bridge!PopForNobody /\ slips' = slips
     \/ Bridge!Disconnect /\ Slip("restart")
     \/ "restart" \in mishaps /\ Bridge!Restart /\ slips' = slips
     \/ InTime /\ \E tr \in idem : Bridge!ExpireKey(tr)
  /\ UNCHANGED <<heard, tasks>>

BridgeStep ==
  /\ Connect \/ InitialRead \/ Publish \/ WriteDone \/ Lose
  /\ UNCHANGED <<mishaps, scaleVars, tables, webVars>>

-----------------------------------------------------------------------------
(* The tasks.                                                              *)

Waits(t, kind, stage) == t.kind = kind /\ t.stage = stage

Done(t) == tasks' = tasks (-) SetToBag({t})
Becomes(t, u) == tasks' = (tasks (-) SetToBag({t})) (+) SetToBag({u})

ActiveRows == {i \in DOMAIN batches : batches[i].active}
Newest == CHOOSE i \in ActiveRows : \A j \in ActiveRows : j <= i

\* Mutant: the active batch is not looked for.
LookNoRow(t) ==
  /\ Waits(t, "railway_batch_started", "queued")
  /\ Becomes(t, [t EXCEPT !.stage = "insert"])
  /\ UNCHANGED <<queue, tables, stat>>

\* process_railway_batch_started locks the active row, if there is one.
Look(t) ==
  /\ Waits(t, "railway_batch_started", "queued")
  /\ IF ActiveRows = {}
     THEN Becomes(t, [t EXCEPT !.stage = "insert"]) /\ batches' = batches
     ELSE /\ Done(t)
          /\ batches' = [batches EXCEPT ![Newest].type = IF @ = 0 THEN t.type ELSE @]
  /\ UNCHANGED <<queue, present, hist, stat>>

Insert(t) ==
  /\ Waits(t, "railway_batch_started", "insert")
  /\ Done(t)
  /\ batches' = Append(batches, [active |-> TRUE, type |-> t.type, tanks |-> {}])
  /\ UNCHANGED <<queue, present, hist, stat>>

\* Mutant: the first row, active or not.
EndFirst(t) ==
  /\ Waits(t, "railway_batch_ended", "queued")
  /\ Done(t)
  /\ batches' = IF batches = <<>> THEN batches ELSE [batches EXCEPT ![1].active = FALSE]
  /\ UNCHANGED <<queue, present, hist, stat>>

\* process_railway_batch_ended
End(t) ==
  /\ Waits(t, "railway_batch_ended", "queued")
  /\ Done(t)
  /\ batches' = IF ActiveRows = {} THEN batches
                ELSE [batches EXCEPT ![Newest].active = FALSE]
  /\ UNCHANGED <<queue, present, hist, stat>>

\* Django's part of the handshake, whatever became of the tank.
Reset == Bridge!Enqueue(<<[tag |-> "camera_worked", val |-> FALSE]>>)

\* Mutant: nobody asks whether a number was found.
FetchAnyway(t) ==
  /\ Waits(t, "railway_camera_worked", "queued")
  /\ Becomes(t, [t EXCEPT !.stage = "save",
                          !.number = IF plate = 0 THEN -1 ELSE Plan[plate].tank])
  /\ UNCHANGED <<slips, queue, tables, stat>>

\* process_railway_tank_event: a value that OPC reports as bad ends the task
\* before the reset is in reach.
Fetch(t) ==
  /\ Waits(t, "railway_camera_worked", "queued")
  /\ \/ /\ plate # 0
        /\ Becomes(t, [t EXCEPT !.stage = "save", !.number = Plan[plate].tank])
        /\ queue' = queue /\ slips' = slips
     \/ plate = 0 /\ Done(t) /\ Reset /\ slips' = slips
     \/ Slip("incomplete") /\ Done(t) /\ queue' = queue
  /\ UNCHANGED <<tables, stat>>

\* Mutant: saving a tank leaves the statistics in the cache.
SaveTankQuietly(t) ==
  /\ Waits(t, "railway_camera_worked", "save")
  /\ present' = [present EXCEPT ![t.number] = IF Plan[t.reg].full THEN "in" ELSE "out"]
  /\ Becomes(t, [t EXCEPT !.stage = "book"])
  /\ UNCHANGED <<queue, batches, hist, stat>>

\* The tank is created or saved; every save clears the statistics.
SaveTank(t) ==
  /\ Waits(t, "railway_camera_worked", "save")
  /\ present' = [present EXCEPT ![t.number] = IF Plan[t.reg].full THEN "in" ELSE "out"]
  /\ stat' = NoStat
  /\ Becomes(t, [t EXCEPT !.stage = "book"])
  /\ UNCHANGED <<queue, batches, hist>>

RowsOf(n) == {i \in DOMAIN hist : hist[i].tank = n}
LastRow(n) == CHOOSE i \in RowsOf(n) : \A j \in RowsOf(n) : j <= i

\* The row that a departure closes: the last one of the tank, unless it has
\* both dates.
Closes(n, i) ==
  RowsOf(n) # {} /\ i = LastRow(n)
  /\ ~(hist[i].arrival # 0 /\ hist[i].departure # 0)

\* Mutant: a departure never looks for the arrival.
BookAppends(t) ==
  /\ Waits(t, "railway_camera_worked", "book")
  /\ hist' = Append(hist, [tank |-> t.number,
                           arrival |-> IF Plan[t.reg].full THEN t.reg ELSE 0,
                           departure |-> IF Plan[t.reg].full THEN 0 ELSE t.reg])
  /\ stat' = NoStat
  /\ Becomes(t, [t EXCEPT !.stage = "add"])
  /\ UNCHANGED <<queue, batches, present>>

\* An arrival opens a row of history, a departure closes one or makes one.
Book(t) ==
  /\ Waits(t, "railway_camera_worked", "book")
  /\ LET n == t.number
         row == [tank |-> n, arrival |-> 0, departure |-> 0]
     IN  \/ /\ Plan[t.reg].full
            /\ hist' = Append(hist, [row EXCEPT !.arrival = t.reg])
         \/ /\ ~Plan[t.reg].full
            /\ \E i \in DOMAIN hist :
                 Closes(n, i) /\ hist' = [hist EXCEPT ![i].departure = t.reg]
         \/ /\ ~Plan[t.reg].full
            /\ ~\E i \in DOMAIN hist : Closes(n, i)
            /\ hist' = Append(hist, [row EXCEPT !.departure = t.reg])
  /\ stat' = NoStat
  /\ Becomes(t, [t EXCEPT !.stage = "add"])
  /\ UNCHANGED <<queue, batches, present>>

\* Mutant: without an active batch the task ends there.
AddOrStop(t) ==
  /\ Waits(t, "railway_camera_worked", "add")
  /\ IF ActiveRows = {} THEN UNCHANGED <<batches, queue>>
     ELSE batches' = [batches EXCEPT ![Newest].tanks = @ \cup {t.number}] /\ Reset
  /\ Done(t)
  /\ UNCHANGED <<present, hist, stat>>

\* The tank joins the active batch, and camera_worked is reset.
Add(t) ==
  /\ Waits(t, "railway_camera_worked", "add")
  /\ batches' = IF ActiveRows = {} THEN batches
                ELSE [batches EXCEPT ![Newest].tanks = @ \cup {t.number}]
  /\ Done(t) /\ Reset
  /\ UNCHANGED <<present, hist, stat>>

\* A task waits longer than expires=60, or its worker dies.  An error of the
\* database ends it too; that of the camera still resets the flag.
Fails(t) ==
  /\ Done(t)
  /\ \/ t.stage = "queued" /\ Slip("expire") /\ queue' = queue
     \/ Slip("crash") /\ queue' = queue
     \/ /\ Slip("database")
        /\ IF t.kind = "railway_camera_worked" THEN Reset ELSE queue' = queue
  /\ UNCHANGED <<tables, stat>>

Run(t) ==
  \/ Fetch(t)
  \/ (Look(t) \/ Insert(t) \/ End(t) \/ SaveTank(t) \/ Book(t) \/ Add(t))
     /\ slips' = slips

Celery ==
  /\ \E t \in BagToSet(tasks) : Run(t) \/ Fails(t)
  /\ UNCHANGED <<plc, bridgeRest, mishaps, scaleVars, heard, query, queries, form>>

-----------------------------------------------------------------------------
(* Statistics, forms, requests.                                            *)

\* The first row of a tank in the order -arrival_at: PostgreSQL puts rows
\* without an arrival first.
FirstRow(n) ==
  LET blank == {i \in RowsOf(n) : hist[i].arrival = 0}
      among == IF blank # {} THEN blank ELSE RowsOf(n)
  IN  CHOOSE i \in among : \A j \in among : hist[j].arrival <= hist[i].arrival

\* What the statistics say: the rows with a departure, and the tanks here with
\* the weight of their first row.
Statistics ==
  [left |-> {i \in DOMAIN hist : hist[i].departure # 0},
   here |-> {<<n, IF RowsOf(n) = {} THEN 0 ELSE hist[FirstRow(n)].arrival>> :
               n \in {n \in Numbers : present[n] = "in"}}]

\* A request finds nothing in the cache and computes; then it stores.
Compute ==
  /\ "ask" \in mishaps /\ queries < MaxQueries
  /\ stat = NoStat /\ query = NoStat
  /\ query' = Statistics /\ queries' = queries + 1
  /\ UNCHANGED <<slips, tables, stat, form>>

KeepInCache ==
  /\ query # NoStat
  /\ stat' = query /\ query' = NoStat
  /\ UNCHANGED <<slips, tables, queries, form>>

\* RailwayTankUpdateView: the signals clear the cache before the commit.
SaveForm ==
  /\ form = 0 /\ Slip("form")
  /\ form' \in {n \in Numbers : present[n] # "new"}
  /\ stat' = NoStat
  /\ UNCHANGED <<tables, query, queries>>

CommitForm ==
  /\ form # 0 /\ form' = 0
  /\ present' = [present EXCEPT ![form] = IF @ = "in" THEN "out" ELSE "in"]
  /\ UNCHANGED <<slips, batches, hist, stat, query, queries>>

\* POST and PATCH of RailwayBatchView, and the form of a batch: is_active and
\* the type are taken as they come.
EditBatch ==
  /\ Slip("edit")
  /\ \/ batches' = Append(batches, [active |-> TRUE, type |-> 0, tanks |-> {}])
     \/ \E i \in DOMAIN batches :
          batches' = [batches EXCEPT ![i].active = ~@]
  /\ UNCHANGED <<present, hist, webVars>>

\* Without "slowread" no row is saved between the two steps of a request.
Quick == "slowread" \in mishaps \/ query = NoStat

Web ==
  /\ Compute \/ KeepInCache \/ SaveForm \/ CommitForm \/ EditBatch
  /\ UNCHANGED <<bridgeVars, mishaps, scaleVars, heard, tasks>>

Next == Plc \/ BridgeStep \/ (Quick /\ Celery) \/ Web

Spec == Init /\ [][Next]_vars

\* The link comes up, the server samples, the writer writes, workers run, a
\* request ends.  Nothing is asked of tanks and operators.
FairSpec ==
  /\ Spec
  /\ WF_vars(BridgeStep /\ (Connect \/ InitialRead \/ Publish \/ WriteDone))
  /\ WF_vars(Quick /\ Celery)
  /\ WF_vars(Web /\ KeepInCache)

-----------------------------------------------------------------------------
Task == [kind : Triggers, type : 0 .. 2, reg : {0} \cup Weighings,
         stage : {"queued", "insert", "save", "book", "add"},
         number : {0} \cup Numbers]

StatType == [left : SUBSET (Nat \cup {-1}),
             here : SUBSET (Numbers \X ({0} \cup Weighings))]

TypeOK ==
  /\ Bridge!BridgeTypeOK
  /\ mishaps \in MishapSets /\ slips \in 0 .. MaxSlips
  /\ turn \in {0} \cup Weighings /\ scale \in {"free", "settling", "stable"}
  /\ reg \in {0} \cup Weighings /\ plate \in {0} \cup Weighings
  /\ btype \in 0 .. 2 /\ moved \in BOOLEAN
  /\ heard \in [type : 0 .. 2, reg : {0} \cup Weighings]
  /\ IsABag(tasks) /\ BagToSet(tasks) \subseteq Task
  /\ batches \in Seq([active : BOOLEAN, type : 0 .. 2, tanks : SUBSET Numbers])
  /\ present \in [Numbers -> {"new", "in", "out"}]
  /\ hist \in Seq([tank : Numbers, arrival : {0} \cup Weighings,
                   departure : {0} \cup Weighings])
  /\ stat \in StatType /\ query \in StatType /\ queries \in 0 .. MaxQueries
  /\ form \in {0} \cup Numbers

\* A step that comes late has been all that went wrong, if one may come late.
Prompt == "late" \in mishaps => slips < 2

\* At most one batch is active, whatever becomes of link, bridge, panel and
\* tasks and however often, as long as nobody sets is_active by hand.  One delay
\* does no harm alone.  But a start that sleeps between its two statements for
\* longer than its idempotency key lives, and meets a restart of the bridge or
\* three more delays, adds a second row.
OneActiveRow == (Prompt /\ "edit" \notin mishaps) => Cardinality(ActiveRows) <= 1

\* The cached statistics are those of the tables: every save clears them.
StatisticsFresh ==
  mishaps \cap {"form", "slowread"} = {} => stat \in {NoStat, Statistics}

\* A batch of the PLC gets an active row of its type, and none is active for
\* ever after the batch has ended.  A link that is broken while one batch ends
\* and the next one starts lets the old row go on, with its type.
Undisturbed ==
  mishaps \cap {"manual", "send", "late", "expire", "crash", "database", "edit"} = {}

BatchFollowsScale ==
  /\ \A k \in {1, 2} :
       (Undisturbed /\ "active" \in plc /\ btype = k)
         ~> \/ "active" \notin plc
            \/ \E i \in ActiveRows :
                 batches[i].type = k \/ mishaps \cap {"link", "restart"} # {}
  /\ (Undisturbed /\ "active" \notin plc) ~> ("active" \in plc \/ ActiveRows = {})

\* "Django сбрасывает railway_tank.camera_worked после обработки запроса"
\* (RailwayProcess.txt): whatever the task meets, except that it is never run.
CameraIsReset ==
  (/\ mishaps \cap {"send", "expire", "crash", "incomplete", "link", "restart"} = {}
   /\ "camera_worked" \in plc) ~> ("camera_worked" \notin plc)

-----------------------------------------------------------------------------
\* The k-th of a set of numbers.
Nth(S, k) == CHOOSE i \in S : Cardinality({j \in S : j <= i}) = k

\* The history of each tank by itself.
Visits ==
  [n \in Numbers |-> [k \in 1 .. Cardinality(RowsOf(n)) |->
     LET row == hist[Nth(RowsOf(n), k)]
     IN  [arrival |-> row.arrival, departure |-> row.departure]]]

Ledger == INSTANCE TankVisits WITH visits <- Visits

\* The history books the weighings in their order, each once and under its
\* tank, and a departure on the arrival it belongs to: unless a number is not
\* recognised, a task runs late (the queue or the link held it up) or twice, or
\* a tank is photographed twice.
KeepsVisits ==
  /\ Ledger!Init
  /\ [][mishaps \cap {"unplated", "twice", "late", "link", "restart"} = {}
          => Ledger!Next]_hist
=============================================================================
