---------------------------- MODULE AutogasCycle ----------------------------
(***************************************************************************)
(* One filling cycle of the autogas column, end to end: the PLC program    *)
(* autogas/SU2/Code/BatchProcess.txt and the operator at its panel, the    *)
(* OPC UA bridge (module OpcBridge), the Celery tasks of autogas/tasks.py  *)
(* that run in any order on several workers (autogas/batch_events.py), and *)
(* the table of batches with its "one active batch" constraint             *)
(* (autogas/services.py, autogas/models.py).                               *)
(***************************************************************************)
EXTENDS Naturals, Sequences, FiniteSets, Bags

CONSTANTS
  MaxCycles,     \* bound: cycles the operator starts
  MaxStops,      \* bound: times the operator presses stop_batch
  MaxConfirms,   \* bound: times the operator presses operator_confirm
  MaxDrops,      \* bound: times the bridge loses its session
  Blocks,        \* sets of OPC items the server samples together
  Lookups,       \* what a vehicle lookup can yield, see RunCreate
  Faults,        \* kinds of failures that may happen
  Patient,       \* does the operator start a cycle only when all is settled?
  WriteThrough,
  MaxAttempts

FaultKinds ==
  {"send", "expire", "crash", "database", "refused", "unconfirmed", "restart"}
LookupKinds == {"unknown_type", "propose", "list", "empty_list"}

ASSUME BoundsAreNat ==
  MaxCycles \in Nat /\ MaxStops \in Nat /\ MaxConfirms \in Nat /\ MaxDrops \in Nat
ASSUME AttemptsArePositive == MaxAttempts \in Nat \ {0}
ASSUME ChoicesAreKnown ==
  /\ Faults \subseteq FaultKinds
  /\ Lookups \subseteq LookupKinds
  /\ WriteThrough \in BOOLEAN /\ Patient \in BOOLEAN

-----------------------------------------------------------------------------
(* Tags and triggers.                                                      *)

Rank ==
  [stop_batch |-> 1, request_batch_create |-> 2, response_batch_create |-> 3,
   request_batch_complete |-> 4, response_batch_complete |-> 5,
   proposed_ready |-> 6, operator_confirm |-> 7, vehicle_list_0 |-> 8]

Tags == DOMAIN Rank

\* The weighing results are read with the tags; they stand before
\* request_batch_complete in the registry.
Items == Tags \cup {"weights"}

Pos ==
  [autogas_batch_create     |-> {"request_batch_create"},
   autogas_operator_confirm |-> {"operator_confirm", "request_batch_create"},
   autogas_batch_complete   |-> {"request_batch_complete"},
   autogas_batch_stopped    |-> {"stop_batch"}]

Neg ==
  [autogas_batch_create     |-> {"response_batch_create", "proposed_ready",
                                 "vehicle_list_0"},
   autogas_operator_confirm |-> {"response_batch_create"},
   autogas_batch_complete   |-> {"response_batch_complete"},
   autogas_batch_stopped    |-> {}]

Triggers == DOMAIN Pos

ASSUME BlocksCoverItems == Blocks \subseteq SUBSET Items /\ UNION Blocks = Items

VARIABLES
  plc, sampled, snap, initialized, link, queue, attempt, orphan, idem,
  step,          \* vehicle_batch.process_step
  cycle,         \* number of the cycle the PLC is in, or was last in
  weighed,       \* cycle whose results the PLC's weight tags hold, 0: none
  seen,          \* the same of the dispatcher's snapshot
  tasks,         \* bag of Celery tasks queued or running
  batches,       \* table AutoGasBatch, oldest row first
  activations,   \* times the PLC made a batch active
  stops, confirms, drops

plcVars == <<step, cycle, weighed>>
djangoVars == <<tasks, batches>>
countVars == <<activations, stops, confirms, drops>>

Bridge == INSTANCE OpcBridge WITH Guarded <- {}

vars == <<plc, sampled, snap, initialized, link, queue, attempt, orphan, idem,
          step, cycle, weighed, seen, tasks, batches,
          activations, stops, confirms, drops>>

\* A task carries the cycle its trigger fired in and the weights of its
\* payload.  A confirm task is "inserting" between the check for an active
\* batch and the INSERT of create_active_batch.
TaskType == [kind : Triggers, cycle : 0 .. MaxCycles, weights : 0 .. MaxCycles,
             stage : {"queued", "inserting"}]

BatchType == [cycle : 0 .. MaxCycles, weights : 0 .. MaxCycles,
              status : {"active", "completed", "cancelled"}]

\* Type invariant.
TypeOK ==
  /\ Bridge!BridgeTypeOK
  /\ step \in 0 .. 5
  /\ cycle \in 0 .. MaxCycles
  /\ weighed \in 0 .. MaxCycles
  /\ seen \in 0 .. MaxCycles
  /\ IsABag(tasks) /\ BagToSet(tasks) \subseteq TaskType
  /\ batches \in Seq(BatchType)
  /\ activations \in Nat
  /\ stops \in 0 .. MaxStops
  /\ confirms \in 0 .. MaxConfirms
  /\ drops \in 0 .. MaxDrops

Init ==
  /\ Bridge!BridgeInit
  /\ step = 0 /\ cycle = 0 /\ weighed = 0 /\ seen = 0
  /\ tasks = EmptyBag
  /\ batches = <<>>
  /\ activations = 0 /\ stops = 0 /\ confirms = 0 /\ drops = 0

-----------------------------------------------------------------------------
(* The PLC: one scan of BatchProcess.txt per action.  stop_batch is looked *)
(* at first, and whenever a scan ends in step 0 its safe state clears every *)
(* handshake and vehicle_select tag.  The weights the scales show are free. *)

\* A scan that finds stop_batch set, by the panel or by Django.
PlcStop ==
  /\ "stop_batch" \in plc
  /\ step' = 0
  /\ plc' = {}
  /\ UNCHANGED <<cycle, weighed, activations>>

\* A scan in step 0 without a start command: late writes are wiped.
PlcIdle ==
  /\ step = 0
  /\ plc # {} /\ "stop_batch" \notin plc
  /\ plc' = {}
  /\ UNCHANGED <<plcVars, activations>>

\* Nothing of the last cycle is under way any more.
Settled ==
  /\ tasks = EmptyBag /\ queue = <<>>
  /\ snap = plc /\ seen = weighed

\* The operator's start_batch with valid types, honoured in step 0 only.
PlcStart ==
  /\ step = 0 /\ "stop_batch" \notin plc
  /\ cycle < MaxCycles
  /\ Patient => Settled
  /\ step' = 1
  /\ cycle' = cycle + 1
  /\ weighed' = 0
  /\ plc' = {"request_batch_create"}
  /\ UNCHANGED activations

\* Mutants: the response is not taken back, or not waited for.
PlcActivateKeeps ==
  /\ step = 1 /\ "stop_batch" \notin plc
  /\ {"request_batch_create", "response_batch_create"} \subseteq plc
  /\ plc' = plc \ {"request_batch_create"}
  /\ step' = 2
  /\ activations' = activations + 1
  /\ UNCHANGED <<cycle, weighed>>

PlcActivateEarly ==
  /\ step = 1 /\ "stop_batch" \notin plc
  /\ "request_batch_create" \in plc
  /\ plc' = plc \ {"request_batch_create", "response_batch_create"}
  /\ step' = 2
  /\ activations' = activations + 1
  /\ UNCHANGED <<cycle, weighed>>

\* Step 1 with Django's response and a stable weight.
PlcActivate ==
  /\ step = 1 /\ "stop_batch" \notin plc
  /\ {"request_batch_create", "response_batch_create"} \subseteq plc
  /\ plc' = plc \ {"request_batch_create", "response_batch_create"}
  /\ step' = 2
  /\ activations' = activations + 1
  /\ UNCHANGED <<cycle, weighed>>

\* Steps 2 and 3: the vehicle leaves the scales, and comes back.
PlcAdvance ==
  /\ step \in {2, 3} /\ "stop_batch" \notin plc
  /\ step' = step + 1
  /\ UNCHANGED <<plc, cycle, weighed, activations>>

\* Step 4: second weighing, results, request for completion.
PlcWeigh ==
  /\ step = 4 /\ "stop_batch" \notin plc
  /\ step' = 5
  /\ weighed' = cycle
  /\ plc' = plc \cup {"request_batch_complete"}
  /\ UNCHANGED <<cycle, activations>>

\* Mutant: the PLC does not wait for the response.
PlcFinishEarly ==
  /\ step = 5 /\ "stop_batch" \notin plc
  /\ step' = 0
  /\ plc' = {}
  /\ UNCHANGED <<cycle, weighed, activations>>

\* Step 5: Django confirmed that the completed batch is saved.
PlcFinish ==
  /\ step = 5 /\ "stop_batch" \notin plc
  /\ {"request_batch_complete", "response_batch_complete"} \subseteq plc
  /\ step' = 0
  /\ plc' = {}
  /\ UNCHANGED <<cycle, weighed, activations>>

PlcScan ==
  /\ \/ PlcStop \/ PlcIdle \/ PlcStart \/ PlcActivate
     \/ PlcAdvance \/ PlcWeigh \/ PlcFinish
  /\ UNCHANGED <<sampled, snap, initialized, link, queue, attempt, orphan, idem, seen,
                 djangoVars, stops, confirms, drops>>

-----------------------------------------------------------------------------
(* The operator's panel GS21 sets PLC tags directly.                       *)

PressStop ==
  /\ step # 0 /\ stops < MaxStops
  /\ plc' = plc \cup {"stop_batch"}
  /\ stops' = stops + 1
  /\ UNCHANGED confirms

PressConfirm ==
  /\ step = 1 /\ confirms < MaxConfirms
  /\ "operator_confirm" \notin plc
  /\ plc' = plc \cup {"operator_confirm"}
  /\ confirms' = confirms + 1
  /\ UNCHANGED stops

Panel ==
  /\ PressStop \/ PressConfirm
  /\ UNCHANGED <<sampled, snap, initialized, link, queue, attempt, orphan, idem,
                 plcVars, seen, djangoVars, activations, drops>>

-----------------------------------------------------------------------------
(* The bridge.  A trigger that fires puts a task into the Celery queue;    *)
(* send_task may fail.                                                     *)

\* Mutant: the payload is built from the previous snapshot.
NewTaskStale(kind, weights) ==
  [kind |-> kind, cycle |-> cycle, weights |-> seen, stage |-> "queued"]

NewTask(kind, weights) ==
  [kind |-> kind, cycle |-> cycle, weights |-> weights, stage |-> "queued"]

SentOf(fires) ==
  IF "send" \in Faults THEN SUBSET fires ELSE {fires}

BridgeConnect ==
  /\ Bridge!Connect
  /\ UNCHANGED <<plcVars, seen, djangoVars, countVars>>

BridgeInitialRead ==
  \E sent \in SentOf(Bridge!InitialReadFires) :
    /\ Bridge!InitialRead(sent)
    /\ seen' = weighed
    /\ tasks' = tasks (+) SetToBag({NewTask(tr, weighed) : tr \in sent})
    /\ UNCHANGED <<plcVars, batches, countVars>>

BridgePublish ==
  \E S \in Blocks :
  \E sent \in SentOf(Bridge!PublishFires(S)) :
    /\ Bridge!Publish(S, sent)
    /\ seen' = IF "weights" \in S THEN weighed ELSE seen
    /\ tasks' = tasks (+) SetToBag({NewTask(tr, seen') : tr \in sent})
    /\ UNCHANGED <<plcVars, batches, countVars>>

\* The weight items change without any Boolean tag changing.
BridgePublishWeights ==
  \E S \in Blocks :
    /\ link = "up"
    /\ "weights" \in S /\ seen # weighed
    /\ Bridge!Heard(S) = {}
    /\ seen' = weighed
    /\ UNCHANGED <<plc, sampled, snap, initialized, link, queue, attempt, orphan, idem,
                   plcVars, djangoVars, countVars>>

BridgeWrite == 
  /\ \/ Bridge!WriteDone
     \/ "refused" \in Faults /\ Bridge!WriteFailed(FALSE)
     \/ "unconfirmed" \in Faults /\ Bridge!WriteFailed(TRUE)
  /\ UNCHANGED <<plcVars, seen, djangoVars, countVars>>

BridgeLoss ==
  /\ \/ Bridge!Disconnect /\ drops < MaxDrops /\ drops' = drops + 1
     \/ Bridge!PopForNobody /\ UNCHANGED drops
     \/ "restart" \in Faults /\ Bridge!Restart /\ UNCHANGED drops
  /\ UNCHANGED <<plcVars, seen, djangoVars, activations, stops, confirms>>

-----------------------------------------------------------------------------
(* The Celery tasks.                                                       *)

To(tag, val) == [tag |-> tag, val |-> val]

\* write_tag calls of a task, in order.  A worker that dies leaves out the
\* rest of them, and so does Redis when it goes away.
Push(ws) ==
  IF "crash" \in Faults
    THEN \E n \in 0 .. Len(ws) : Bridge!Enqueue(SubSeq(ws, 1, n))
    ELSE Bridge!Enqueue(ws)

Waiting(t, kind, stage) == t.kind = kind /\ t.stage = stage

\* Mutant: a task that ran is left in the queue's books.
DoneBooked(t) == tasks' = [tasks EXCEPT ![t] = 0]

Done(t) == tasks' = tasks (-) SetToBag({t})

\* process_autogas_batch_create: an unknown type stops the batch; a vehicle
\* found is proposed; otherwise the list for a manual choice, perhaps empty.
CreateWrites(lookup) ==
  CASE lookup = "unknown_type" -> <<To("stop_batch", TRUE)>>
    [] lookup = "propose"      -> <<To("proposed_ready", TRUE),
                                    To("vehicle_list_0", FALSE)>>
    [] lookup = "list"         -> <<To("proposed_ready", FALSE),
                                    To("vehicle_list_0", TRUE)>>
    [] lookup = "empty_list"   -> <<To("proposed_ready", FALSE),
                                    To("vehicle_list_0", FALSE)>>

RunCreate(t) ==
  /\ Waiting(t, "autogas_batch_create", "queued")
  /\ \E lookup \in Lookups : Push(CreateWrites(lookup))
  /\ Done(t)
  /\ UNCHANGED batches

\* Mutant: filter(is_active=True) is forgotten.
ActiveIdsAll == 1 .. Len(batches)

ActiveIds == {i \in 1 .. Len(batches) : batches[i].status = "active"}

ConfirmFails == <<To("stop_batch", TRUE), To("operator_confirm", FALSE)>>

\* Mutant: operator_confirm is not taken back.
RejectConfirmSilent(t) ==
  /\ Waiting(t, "autogas_operator_confirm", "queued")
  /\ Done(t)
  /\ UNCHANGED <<queue, batches>>

\* process_autogas_operator_confirm: types unknown; vehicle not found, or an
\* error of the database, also by the INSERT.
RejectConfirm(t) ==
  /\ t.kind = "autogas_operator_confirm"
  /\ \/ t.stage = "queued" /\ "unknown_type" \in Lookups /\ Push(ConfirmFails)
     \/ t.stage = "queued" /\ Push(<<To("operator_confirm", FALSE)>>)
     \/ /\ t.stage = "inserting" /\ "database" \in Faults
        /\ Push(<<To("operator_confirm", FALSE)>>)
  /\ Done(t)
  /\ UNCHANGED batches

\* create_active_batch: the query for an active row; select_for_update locks
\* nothing when there is none.
BeginInsert(t) ==
  /\ Waiting(t, "autogas_operator_confirm", "queued")
  /\ IF ActiveIds # {}
       THEN Push(ConfirmFails) /\ Done(t)
       ELSE /\ tasks' = (tasks (-) SetToBag({t}))
                         (+) SetToBag({[t EXCEPT !.stage = "inserting"]})
            /\ UNCHANGED queue
  /\ UNCHANGED batches

AckCreated ==
  <<To("response_batch_create", TRUE), To("operator_confirm", FALSE),
    To("proposed_ready", FALSE), To("vehicle_list_0", FALSE)>>

\* Mutant: the table has no constraint.
FinishInsertUnchecked(t) ==
  /\ Waiting(t, "autogas_operator_confirm", "inserting")
  /\ batches' = Append(batches,
        [cycle |-> t.cycle, weights |-> 0, status |-> "active"])
  /\ Push(AckCreated)
  /\ Done(t)

\* The INSERT, which uniq_one_active_autogas_batch rejects when another task
\* was faster; then _ack_batch_created.
FinishInsert(t) ==
  /\ Waiting(t, "autogas_operator_confirm", "inserting")
  /\ IF ActiveIds # {}
       THEN Push(ConfirmFails) /\ UNCHANGED batches
       ELSE /\ batches' = Append(batches,
                 [cycle |-> t.cycle, weights |-> 0, status |-> "active"])
            /\ Push(AckCreated)
  /\ Done(t)

\* filter(is_active=True).order_by('-begin_at', '-pk').first(), locked
Latest == CHOOSE i \in ActiveIds : \A j \in ActiveIds : j <= i

\* process_autogas_batch_complete: no active batch is acknowledged as well.
RunComplete(t) ==
  /\ Waiting(t, "autogas_batch_complete", "queued")
  /\ batches' = IF ActiveIds = {} THEN batches
                ELSE [batches EXCEPT ![Latest] =
                        [@ EXCEPT !.status = "completed", !.weights = t.weights]]
  /\ Push(<<To("response_batch_complete", TRUE)>>)
  /\ Done(t)

\* process_autogas_batch_stopped: cancel_active_batch.
RunStopped(t) ==
  /\ Waiting(t, "autogas_batch_stopped", "queued")
  /\ batches' = IF ActiveIds = {} THEN batches
                ELSE [batches EXCEPT ![Latest] = [@ EXCEPT !.status = "cancelled"]]
  /\ Done(t)
  /\ UNCHANGED queue

RunTask(t) ==
  \/ RunCreate(t) \/ RejectConfirm(t) \/ BeginInsert(t) \/ FinishInsert(t)
  \/ RunComplete(t) \/ RunStopped(t)

\* expires=60: a task that waited too long is dropped.  An error of the
\* database ends any other task than the confirmation without a trace.
DropTask(t) ==
  /\ \/ "expire" \in Faults /\ t.stage = "queued"
     \/ "database" \in Faults /\ t.kind # "autogas_operator_confirm"
  /\ Done(t)
  /\ UNCHANGED <<queue, batches>>

Celery ==
  /\ \E t \in BagToSet(tasks) : RunTask(t) \/ DropTask(t)
  /\ UNCHANGED <<plc, sampled, snap, initialized, link, attempt, orphan, idem,
                 plcVars, seen, countVars>>

-----------------------------------------------------------------------------
Next ==
  \/ PlcScan
  \/ Panel
  \/ BridgeConnect
  \/ BridgeInitialRead
  \/ BridgePublish
  \/ BridgePublishWeights
  \/ BridgeWrite
  \/ BridgeLoss
  \/ Celery

Spec == Init /\ [][Next]_vars

-----------------------------------------------------------------------------
(* Fairness: the link comes up, the server samples, the writer drains its  *)
(* queue, the workers run what is queued, and the PLC scans all the time.  *)
(* Nothing is assumed of the operator, of the driver (PlcAdvance, PlcWeigh *)
(* wait for the vehicle on the scales) or of the failures.                 *)

Scans(scan) ==
  /\ scan
  /\ UNCHANGED <<sampled, snap, initialized, link, queue, attempt, orphan, idem, seen,
                 djangoVars, stops, confirms, drops>>

Fairness ==
  /\ WF_vars(BridgeConnect)
  /\ WF_vars(BridgeInitialRead)
  /\ WF_vars(BridgePublish)
  /\ WF_vars(BridgeWrite)
  /\ WF_vars(Celery)
  /\ WF_vars(Scans(PlcStop))
  /\ WF_vars(Scans(PlcIdle))
  /\ WF_vars(Scans(PlcActivate))
  /\ WF_vars(Scans(PlcFinish))

FairSpec == Spec /\ Fairness

-----------------------------------------------------------------------------
(* Properties.                                                             *)

\* At most one batch is active, although several confirm tasks may have seen
\* no active batch before any of them inserts: create_active_batch and the
\* constraint uniq_one_active_autogas_batch.
OneActiveBatch == \A i, j \in ActiveIds : i = j

IsAck(w) == w = To("response_batch_create", TRUE)

InFlightAcks == Cardinality({i \in 1 .. Len(queue) : IsAck(queue[i])})

\* The PLC starts no more batches than Django has created, however late the
\* responses arrive: every response still queued or standing in the PLC, and
\* every activation, answers a batch of its own.
ActivationsAreBacked ==
  activations + InFlightAcks
    + (IF "response_batch_create" \in plc THEN 1 ELSE 0) <= Len(batches)

\* Rows are only added, and a row that was closed is not touched again by a
\* late or repeated task.
ClosedBatchesStay ==
  [][/\ Len(batches') >= Len(batches)
     /\ \A i \in 1 .. Len(batches) :
          batches[i].status # "active" => batches'[i] = batches[i]]_vars

Phase ==
  CASE step = 0 -> "idle" [] step = 1 -> "requested" [] OTHER -> "running"

\* The batches of the current cycle, and any other that is still active.
Concerned ==
  {i \in 1 .. Len(batches) :
      batches[i].cycle = cycle \/ batches[i].status = "active"}

BatchOfCycle ==
  IF (step = 0 /\ ActiveIds = {}) \/ Concerned = {} THEN "none"
  ELSE LET i == CHOOSE j \in Concerned : TRUE
       IN CASE (Concerned # {i} \/ batches[i].cycle # cycle) -> "wrong"
            [] batches[i].status = "active" -> "open"
            [] (batches[i].status = "completed" /\ batches[i].weights = cycle)
                 -> "saved"
            [] OTHER -> "wrong"

Contract == INSTANCE AutogasContract WITH phase <- Phase, batch <- BatchOfCycle

\* PLC, bridge, workers and table together keep the contract of the cycle
\* (process_autogas_operator_confirm, process_autogas_batch_complete).
KeepsContract == Contract!Spec

\* Nobody at the column is left waiting: a request for a number is answered with
\* a proposal or a list (process_autogas_batch_create); a pressed
\* operator_confirm starts the batch, or Django takes the flag back and the
\* operator may choose again (process_autogas_operator_confirm); the PLC does
\* not hang in step 5 (process_autogas_batch_complete).
NobodyWaits ==
  /\ (step = 1) ~> (\/ {"proposed_ready", "vehicle_list_0"} \cap plc # {}
                    \/ step # 1)
  /\ (step = 1 /\ "operator_confirm" \in plc)
       ~> (step # 1 \/ "operator_confirm" \notin plc)
  /\ (step = 5) ~> (step = 0)

\* However often the session is lost, the dispatcher's picture of the PLC is
\* right again and again, so no tag stays unheard for ever: update_tag, the
\* initial read and the notifications together.
SnapshotCatchesUp == []<>(link = "up" /\ snap = plc)

\* "Stop на шкафу: закрыть активную партию Django без весов"
\* (process_autogas_batch_stopped): a batch does not stay active for ever in
\* front of an idle PLC.
StopClosesBatch ==
  (step = 0 /\ ActiveIds # {}) ~> (step # 0 \/ ActiveIds = {})

\* "Только после подтверждения Django партия становится активной"
\* (BatchProcess.txt, step 1): the batch the PLC starts is the active batch of
\* this cycle.
RunsOwnBatch ==
  [][step = 1 /\ step' = 2 =>
       \E i \in ActiveIds : batches[i].cycle = cycle]_vars

\* The PLC closes a cycle only when the batch of this very cycle is saved with
\* its own weights: step 5 of BatchProcess.txt waits for the response that
\* process_autogas_batch_complete gives after complete_active_batch.
FinishesSaved ==
  [][step = 5 /\ step' = 0 /\ "stop_batch" \notin plc =>
       \E i \in 1 .. Len(batches) :
         /\ batches[i].cycle = cycle
         /\ batches[i].status = "completed"
         /\ batches[i].weights = cycle]_vars

\* "force_pending: При True (после reconnect) срабатывают уже активные
\* pending-условия, даже без фронта" (TriggerDispatcher.on_snapshot): the
\* initial read of a new session sends the task of every active trigger.
ReconnectFiresPending ==
  [][link = "session" /\ link' = "up" =>
       \A tr \in Triggers : Bridge!Active(tr, plc) =>
         \E t \in BagToSet(tasks') : t.kind = tr /\ t.cycle = cycle]_vars

=============================================================================
