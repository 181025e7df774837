------------------------ MODULE AutogasCycle_proofs ------------------------
(***************************************************************************)
(* Theorems about AutogasCycle, for every number of cycles, stops and      *)
(* confirmations, every way the server groups its samples, and every kind  *)
(* of failure.                                                             *)
(***************************************************************************)
EXTENDS AutogasCycle, FiniteSetTheorems, SequenceTheorems, TLAPS

-----------------------------------------------------------------------------
(* Bags of tasks.                                                          *)

LEMMA SetToBagType ==
  ASSUME NEW S
  PROVE  IsABag(SetToBag(S)) /\ BagToSet(SetToBag(S)) = S
  BY DEF IsABag, SetToBag, BagToSet

LEMMA BagAddType ==
  ASSUME NEW B, NEW C, IsABag(B), IsABag(C)
  PROVE  IsABag(B (+) C) /\ BagToSet(B (+) C) = BagToSet(B) \cup BagToSet(C)
  BY DEF IsABag, BagToSet, (+)

LEMMA BagSubType ==
  ASSUME NEW B, NEW C, IsABag(B), IsABag(C)
  PROVE  IsABag(B (-) C) /\ BagToSet(B (-) C) \subseteq BagToSet(B)
  BY DEF IsABag, BagToSet, (-)

TasksOK(B) == IsABag(B) /\ BagToSet(B) \subseteq TaskType

LEMMA AddTasks ==
  ASSUME NEW B, TasksOK(B), NEW S \in SUBSET TaskType
  PROVE  TasksOK(B (+) SetToBag(S))
  BY SetToBagType, BagAddType DEF TasksOK

LEMMA RemoveTask ==
  ASSUME NEW B, TasksOK(B), NEW t
  PROVE  TasksOK(B (-) SetToBag({t}))
  BY SetToBagType, BagSubType DEF TasksOK

-----------------------------------------------------------------------------
(* What the actions put into the queues.                                   *)

LEMMA TagsAre ==
  Tags = {"stop_batch", "request_batch_create", "response_batch_create",
          "request_batch_complete", "response_batch_complete",
          "proposed_ready", "operator_confirm", "vehicle_list_0"}
  BY DEF Tags, Rank

LEMMA TriggersAre ==
  Triggers = {"autogas_batch_create", "autogas_operator_confirm",
              "autogas_batch_complete", "autogas_batch_stopped"}
  BY DEF Triggers, Pos

\* A trigger that fires is a trigger, and its task has the type of a task.
LEMMA NewTasksType ==
  ASSUME TypeOK, NEW w \in 0 .. MaxCycles, NEW fires \in SUBSET Triggers,
         NEW sent \in SentOf(fires)
  PROVE  {NewTask(tr, w) : tr \in sent} \subseteq TaskType
  <1>1. sent \subseteq Triggers
    BY DEF SentOf
  <1>2. cycle \in 0 .. MaxCycles
    BY DEF TypeOK
  <1> QED
    BY <1>1, <1>2 DEF NewTask, TaskType

\* What a task writes are writes of registered tags.
LEMMA PushType ==
  ASSUME queue \in Seq(Bridge!Write), NEW ws \in Seq(Bridge!Write), Push(ws)
  PROVE  queue' \in Seq(Bridge!Write)
  <1>1. ASSUME NEW n \in 0 .. Len(ws)
        PROVE  SubSeq(ws, 1, n) \in Seq(Bridge!Write)
    OBVIOUS
  <1>2. ASSUME NEW vs \in Seq(Bridge!Write), Bridge!Enqueue(vs)
        PROVE  queue' \in Seq(Bridge!Write)
    BY <1>2 DEF Bridge!Enqueue
  <1> QED
    BY <1>1, <1>2 DEF Push

LEMMA ToType ==
  \A tag \in Tags : /\ To(tag, TRUE) \in Bridge!Write
                    /\ To(tag, FALSE) \in Bridge!Write
  BY DEF To, Bridge!Write

LEMMA TupleType ==
  ASSUME NEW S, NEW a \in S, NEW b \in S, NEW c \in S, NEW d \in S
  PROVE  <<a>> \in Seq(S) /\ <<a, b>> \in Seq(S) /\ <<a, b, c, d>> \in Seq(S)
  OBVIOUS

LEMMA WritesType ==
  /\ AckCreated \in Seq(Bridge!Write)
  /\ ConfirmFails \in Seq(Bridge!Write)
  /\ <<To("operator_confirm", FALSE)>> \in Seq(Bridge!Write)
  /\ <<To("response_batch_complete", TRUE)>> \in Seq(Bridge!Write)
  /\ \A lookup \in Lookups : CreateWrites(lookup) \in Seq(Bridge!Write)
  <1>1. /\ To("stop_batch", TRUE) \in Bridge!Write
        /\ To("response_batch_create", TRUE) \in Bridge!Write
        /\ To("response_batch_complete", TRUE) \in Bridge!Write
        /\ To("operator_confirm", FALSE) \in Bridge!Write
        /\ To("proposed_ready", TRUE) \in Bridge!Write
        /\ To("proposed_ready", FALSE) \in Bridge!Write
        /\ To("vehicle_list_0", TRUE) \in Bridge!Write
        /\ To("vehicle_list_0", FALSE) \in Bridge!Write
    BY ToType, TagsAre
  <1>2. AckCreated \in Seq(Bridge!Write)
    BY <1>1, TupleType DEF AckCreated
  <1>3. ConfirmFails \in Seq(Bridge!Write)
    BY <1>1, TupleType DEF ConfirmFails
  <1>4. <<To("operator_confirm", FALSE)>> \in Seq(Bridge!Write)
    BY <1>1, TupleType
  <1>5. <<To("response_batch_complete", TRUE)>> \in Seq(Bridge!Write)
    BY <1>1, TupleType
  <1>6. ASSUME NEW lookup \in Lookups
        PROVE  CreateWrites(lookup) \in Seq(Bridge!Write)
    <2>1. /\ <<To("stop_batch", TRUE)>> \in Seq(Bridge!Write)
          /\ <<To("proposed_ready", TRUE), To("vehicle_list_0", FALSE)>>
                \in Seq(Bridge!Write)
          /\ <<To("proposed_ready", FALSE), To("vehicle_list_0", TRUE)>>
                \in Seq(Bridge!Write)
          /\ <<To("proposed_ready", FALSE), To("vehicle_list_0", FALSE)>>
                \in Seq(Bridge!Write)
      BY <1>1, TupleType
    <2>2. lookup \in {"unknown_type", "propose", "list", "empty_list"}
      BY ChoicesAreKnown DEF LookupKinds
    <2> QED
      BY <2>1, <2>2 DEF CreateWrites
  <1> QED
    BY <1>2, <1>3, <1>4, <1>5, <1>6

\* The dispatcher only fires triggers of the table.
LEMMA FiresAreTriggers ==
  /\ Bridge!InitialReadFires \subseteq Triggers
  /\ \A S : Bridge!PublishFires(S) \subseteq Triggers
  BY DEF Bridge!InitialReadFires, Bridge!PublishFires

LEMMA SetTagType ==
  ASSUME NEW s \in SUBSET Tags, NEW w \in Bridge!Write
  PROVE  Bridge!SetTag(s, w) \subseteq Tags
  BY DEF Bridge!SetTag, Bridge!Write

-----------------------------------------------------------------------------
(* Type correctness.                                                       *)

LEMMA InitType == Init => TypeOK
  <1> SUFFICES ASSUME Init PROVE TypeOK
    OBVIOUS
  <1>1. Bridge!BridgeTypeOK
    <2>1. Bridge!BridgeInit
      BY DEF Init
    <2>2. queue \in Seq(Bridge!Write) /\ attempt \in 0 .. (MaxAttempts - 1)
      BY <2>1, AttemptsArePositive DEF Bridge!BridgeInit
    <2>3. initialized \in BOOLEAN /\ orphan \in BOOLEAN
      BY <2>1 DEF Bridge!BridgeInit
    <2> QED
      BY <2>1, <2>2, <2>3 DEF Bridge!BridgeInit, Bridge!BridgeTypeOK
  <1>2. IsABag(tasks) /\ BagToSet(tasks) \subseteq TaskType
    BY SetToBagType DEF Init, EmptyBag
  <1> QED
    BY <1>1, <1>2, BoundsAreNat DEF Init, TypeOK

LEMMA PlcScanType == TypeOK /\ PlcScan => TypeOK'
  <1> SUFFICES ASSUME TypeOK, PlcScan PROVE TypeOK'
    OBVIOUS
  <1>1. /\ plc' \subseteq Tags
        /\ step' \in 0 .. 5
        /\ cycle' \in 0 .. MaxCycles
        /\ weighed' \in 0 .. MaxCycles
        /\ activations' \in Nat
    <2> USE DEF TypeOK, Bridge!BridgeTypeOK, plcVars
    <2>1. CASE PlcStop
      BY <2>1 DEF PlcStop
    <2>2. CASE PlcIdle
      BY <2>2 DEF PlcIdle
    <2>3. CASE PlcStart
      BY <2>3, TagsAre, BoundsAreNat DEF PlcStart
    <2>4. CASE PlcActivate
      BY <2>4 DEF PlcActivate
    <2>5. CASE PlcAdvance
      BY <2>5 DEF PlcAdvance
    <2>6. CASE PlcWeigh
      BY <2>6, TagsAre DEF PlcWeigh
    <2>7. CASE PlcFinish
      BY <2>7 DEF PlcFinish
    <2> QED
      BY <2>1, <2>2, <2>3, <2>4, <2>5, <2>6, <2>7 DEF PlcScan
  <1> QED
    BY <1>1 DEF TypeOK, Bridge!BridgeTypeOK, PlcScan, djangoVars

LEMMA PanelType == TypeOK /\ Panel => TypeOK'
  <1> SUFFICES ASSUME TypeOK, Panel PROVE TypeOK'
    OBVIOUS
  <1>1. /\ plc' \subseteq Tags
        /\ stops' \in 0 .. MaxStops
        /\ confirms' \in 0 .. MaxConfirms
    <2> USE TagsAre, BoundsAreNat DEF TypeOK, Bridge!BridgeTypeOK
    <2>1. CASE PressStop
      BY <2>1 DEF PressStop
    <2>2. CASE PressConfirm
      BY <2>2 DEF PressConfirm
    <2> QED
      BY <2>1, <2>2 DEF Panel
  <1> QED
    BY <1>1 DEF TypeOK, Bridge!BridgeTypeOK, Panel, djangoVars, plcVars

LEMMA BridgeConnectType == TypeOK /\ BridgeConnect => TypeOK'
  BY DEF TypeOK, Bridge!BridgeTypeOK, BridgeConnect, Bridge!Connect,
         djangoVars, plcVars, countVars

LEMMA BridgeInitialReadType == TypeOK /\ BridgeInitialRead => TypeOK'
  <1> SUFFICES ASSUME TypeOK, BridgeInitialRead PROVE TypeOK'
    OBVIOUS
  <1>1. PICK sent \in SentOf(Bridge!InitialReadFires) :
          /\ Bridge!InitialRead(sent)
          /\ seen' = weighed
          /\ tasks' = tasks (+) SetToBag({NewTask(tr, weighed) : tr \in sent})
          /\ UNCHANGED <<plcVars, batches, countVars>>
    BY DEF BridgeInitialRead
  <1>2. TasksOK(tasks')
    BY <1>1, NewTasksType, FiresAreTriggers, AddTasks DEF TypeOK, TasksOK
  <1>3. (Bridge!BridgeTypeOK)'
    BY <1>1
    DEF Bridge!InitialRead, Bridge!OnSnapshot, TypeOK, Bridge!BridgeTypeOK
  <1> QED
    BY <1>1, <1>2, <1>3 DEF TypeOK, TasksOK, plcVars, countVars

LEMMA BridgePublishType == TypeOK /\ BridgePublish => TypeOK'
  <1> SUFFICES ASSUME TypeOK, BridgePublish PROVE TypeOK'
    OBVIOUS
  <1>1. PICK S \in Blocks : \E sent \in SentOf(Bridge!PublishFires(S)) :
          /\ Bridge!Publish(S, sent)
          /\ seen' = IF "weights" \in S THEN weighed ELSE seen
          /\ tasks' = tasks (+) SetToBag({NewTask(tr, seen') : tr \in sent})
          /\ UNCHANGED <<plcVars, batches, countVars>>
    BY DEF BridgePublish
  <1>2. PICK sent \in SentOf(Bridge!PublishFires(S)) :
          /\ Bridge!Publish(S, sent)
          /\ seen' = IF "weights" \in S THEN weighed ELSE seen
          /\ tasks' = tasks (+) SetToBag({NewTask(tr, seen') : tr \in sent})
          /\ UNCHANGED <<plcVars, batches, countVars>>
    BY <1>1
  <1>3. seen' \in 0 .. MaxCycles
    BY <1>2 DEF TypeOK
  <1>4. TasksOK(tasks')
    BY <1>2, <1>3, NewTasksType, FiresAreTriggers, AddTasks DEF TypeOK, TasksOK
  <1>5. (Bridge!BridgeTypeOK)'
    BY <1>2
    DEF Bridge!Publish, Bridge!OnSnapshot, Bridge!Heard, TypeOK,
        Bridge!BridgeTypeOK
  <1> QED
    BY <1>2, <1>3, <1>4, <1>5 DEF TypeOK, TasksOK, plcVars, countVars

LEMMA BridgePublishWeightsType == TypeOK /\ BridgePublishWeights => TypeOK'
  BY DEF TypeOK, Bridge!BridgeTypeOK, BridgePublishWeights, djangoVars,
         plcVars, countVars

LEMMA BridgeWriteType == TypeOK /\ BridgeWrite => TypeOK'
  <1> SUFFICES ASSUME TypeOK, BridgeWrite PROVE TypeOK'
    OBVIOUS
  <1>1. (Bridge!BridgeTypeOK)'
    <2>1. ASSUME queue # <<>>
          PROVE  Head(queue) \in Bridge!Write /\ Tail(queue) \in Seq(Bridge!Write)
      BY <2>1 DEF TypeOK, Bridge!BridgeTypeOK
    <2>2. ASSUME queue # <<>>, NEW s \in SUBSET Tags
          PROVE  Bridge!SetTag(s, Head(queue)) \subseteq Tags
      BY <2>1, <2>2, SetTagType
    <2>3. CASE Bridge!WriteDone
      BY <2>1, <2>2, <2>3, AttemptsArePositive
      DEF Bridge!WriteDone, TypeOK, Bridge!BridgeTypeOK
    <2>4. ASSUME NEW applied \in BOOLEAN, Bridge!WriteFailed(applied)
          PROVE  (Bridge!BridgeTypeOK)'
      <3>1. plc' \subseteq Tags
        BY <2>2, <2>4 DEF Bridge!WriteFailed, TypeOK, Bridge!BridgeTypeOK
      <3>2. queue' \in Seq(Bridge!Write)
        BY <2>1, <2>4 DEF Bridge!WriteFailed, TypeOK, Bridge!BridgeTypeOK
      <3>3. attempt' \in 0 .. (MaxAttempts - 1)
        BY <2>4, AttemptsArePositive
        DEF Bridge!WriteFailed, TypeOK, Bridge!BridgeTypeOK
      <3> QED
        BY <2>4, <3>1, <3>2, <3>3
        DEF Bridge!WriteFailed, TypeOK, Bridge!BridgeTypeOK
    <2> QED
      BY <2>3, <2>4 DEF BridgeWrite
  <1> QED
    BY <1>1 DEF BridgeWrite, TypeOK, plcVars, djangoVars, countVars

LEMMA BridgeLossType == TypeOK /\ BridgeLoss => TypeOK'
  <1> SUFFICES ASSUME TypeOK, BridgeLoss PROVE TypeOK'
    OBVIOUS
  <1>1. ASSUME queue # <<>>
        PROVE  /\ Tail(queue) \in Seq(Bridge!Write)
               /\ Bridge!SetTag(plc, Head(queue)) \subseteq Tags
    <2>1. Head(queue) \in Bridge!Write /\ Tail(queue) \in Seq(Bridge!Write)
      BY <1>1 DEF TypeOK, Bridge!BridgeTypeOK
    <2> QED
      BY <2>1, SetTagType DEF TypeOK, Bridge!BridgeTypeOK
  <1>2. (Bridge!BridgeTypeOK)'
    <2>1. CASE Bridge!Disconnect
      <3>1. orphan' \in BOOLEAN
        BY <2>1 DEF Bridge!Disconnect
      <3>2. plc' \subseteq Tags /\ queue' \in Seq(Bridge!Write)
        BY <1>1, <2>1 DEF Bridge!Disconnect, TypeOK, Bridge!BridgeTypeOK
      <3> QED
        BY <2>1, <3>1, <3>2, AttemptsArePositive
        DEF Bridge!Disconnect, TypeOK, Bridge!BridgeTypeOK
    <2>2. CASE Bridge!PopForNobody
      BY <1>1, <2>2 DEF Bridge!PopForNobody, TypeOK, Bridge!BridgeTypeOK
    <2>3. CASE Bridge!Restart
      BY <2>3 DEF Bridge!Restart, TypeOK, Bridge!BridgeTypeOK
    <2> QED
      BY <2>1, <2>2, <2>3 DEF BridgeLoss
  <1>3. drops' \in 0 .. MaxDrops
    BY BoundsAreNat DEF BridgeLoss, TypeOK
  <1> QED
    BY <1>2, <1>3 DEF BridgeLoss, TypeOK, plcVars, djangoVars, countVars

\* The row that completion and cancellation close is the active one.
LEMMA LatestIsActive ==
  ASSUME OneActiveBatch, ActiveIds # {}
  PROVE  Latest \in ActiveIds
  <1>1. ActiveIds \subseteq Nat
    BY DEF ActiveIds
  <1>2. \E i \in ActiveIds : \A j \in ActiveIds : j <= i
    <2>1. PICK i \in ActiveIds : TRUE
      OBVIOUS
    <2>2. \A j \in ActiveIds : j = i
      BY DEF OneActiveBatch
    <2> QED
      BY <1>1, <2>1, <2>2
  <1> QED
    BY <1>2 DEF Latest

\* Closing it leaves every other row alone.
LEMMA CloseRow ==
  ASSUME TypeOK, OneActiveBatch, ActiveIds # {}, NEW r \in BatchType,
         r.status # "active", batches' = [batches EXCEPT ![Latest] = r]
  PROVE  /\ batches' \in Seq(BatchType)
         /\ Len(batches') = Len(batches)
         /\ \A i \in 1 .. Len(batches) :
               batches[i].status # "active" => batches'[i] = batches[i]
         /\ ActiveIds' = {}
  <1>1. Latest \in ActiveIds
    BY LatestIsActive
  <1>2. Latest \in 1 .. Len(batches) /\ batches[Latest].status = "active"
    BY <1>1 DEF ActiveIds
  <1>3. batches \in Seq(BatchType)
    BY DEF TypeOK
  <1>4. /\ batches' \in Seq(BatchType)
        /\ Len(batches') = Len(batches)
        /\ \A j \in 1 .. Len(batches) :
              batches'[j] = IF j = Latest THEN r ELSE batches[j]
    BY <1>2, <1>3, ExceptSeq
  <1>5. \A i \in 1 .. Len(batches) : batches[i].status = "active" => i = Latest
    BY <1>1 DEF OneActiveBatch, ActiveIds
  <1>6. ActiveIds' = {}
    BY <1>4, <1>5 DEF ActiveIds
  <1> QED
    BY <1>2, <1>4, <1>6

-----------------------------------------------------------------------------
(* The table.  The inductive invariant is the type invariant with          *)
(* OneActiveBatch: only the latter makes the row that is closed the active *)
(* one, and the row that is added the only active one.                     *)

TableInv == TypeOK /\ OneActiveBatch

\* The action of ClosedBatchesStay.
RowsStay ==
  /\ Len(batches') >= Len(batches)
  /\ \A i \in 1 .. Len(batches) :
       batches[i].status # "active" => batches'[i] = batches[i]

TableStep ==
  batches' \in Seq(BatchType) /\ OneActiveBatch' /\ RowsStay

LEMMA SameTable ==
  ASSUME TableInv, UNCHANGED batches
  PROVE  TableStep
  BY LenProperties DEF TableInv, TableStep, TypeOK, OneActiveBatch, ActiveIds, RowsStay

\* Every task leaves the queues well typed and the table in order.
LEMMA TaskStep ==
  ASSUME TableInv, NEW t \in BagToSet(tasks), RunTask(t) \/ DropTask(t)
  PROVE  /\ queue' \in Seq(Bridge!Write)
         /\ TasksOK(tasks')
         /\ TableStep
  <1>1. t \in TaskType /\ TasksOK(tasks) /\ batches \in Seq(BatchType)
    BY DEF TableInv, TypeOK, TasksOK
  <1>2. queue \in Seq(Bridge!Write)
    BY DEF TableInv, TypeOK, Bridge!BridgeTypeOK
  <1>3. Done(t) => TasksOK(tasks')
    BY <1>1, RemoveTask DEF Done
  <1>4. \A ws \in Seq(Bridge!Write) : Push(ws) => queue' \in Seq(Bridge!Write)
    BY <1>2, PushType
  <1>5. CASE RunCreate(t)
    BY <1>3, <1>4, <1>5, WritesType, SameTable DEF RunCreate
  <1>6. CASE RejectConfirm(t)
    BY <1>3, <1>4, <1>6, WritesType, SameTable DEF RejectConfirm
  <1>7. CASE BeginInsert(t)
    <2>1. CASE ActiveIds # {}
      BY <1>3, <1>4, <1>7, <2>1, WritesType, SameTable DEF BeginInsert
    <2>2. CASE ActiveIds = {}
      <3>1. [t EXCEPT !.stage = "inserting"] \in TaskType
        BY <1>1 DEF TaskType
      <3>2. TasksOK(tasks')
        BY <1>1, <1>7, <2>2, <3>1, RemoveTask, AddTasks DEF BeginInsert
      <3> QED
        BY <1>2, <1>7, <2>2, <3>2, SameTable DEF BeginInsert
    <2> QED
      BY <2>1, <2>2
  <1>8. CASE FinishInsert(t)
    <2>1. CASE ActiveIds # {}
      BY <1>3, <1>4, <1>8, <2>1, WritesType, SameTable DEF FinishInsert
    <2>2. CASE ActiveIds = {}
      <3> DEFINE r == [cycle |-> t.cycle, weights |-> 0, status |-> "active"]
      <3>1. r \in BatchType
        BY <1>1, BoundsAreNat DEF TaskType, BatchType
      <3>2. batches' = Append(batches, r)
        BY <1>8, <2>2 DEF FinishInsert
      <3>3. /\ batches' \in Seq(BatchType)
            /\ Len(batches') = Len(batches) + 1
            /\ \A i \in 1 .. Len(batches) : batches'[i] = batches[i]
        BY <1>1, <3>1, <3>2, AppendProperties
      <3>4. RowsStay
        BY <1>1, <3>3 DEF RowsStay
      <3>5. OneActiveBatch'
        BY <1>1, <2>2, <3>3 DEF OneActiveBatch, ActiveIds
      <3> QED
        BY <1>3, <1>4, <1>8, <2>2, <3>3, <3>4, <3>5, WritesType
        DEF FinishInsert, TableStep
    <2> QED
      BY <2>1, <2>2
  <1>9. ASSUME ActiveIds # {}, NEW r \in BatchType, r.status # "active",
               batches' = [batches EXCEPT ![Latest] = r]
        PROVE  TableStep
    <2>1. /\ batches' \in Seq(BatchType)
          /\ Len(batches') = Len(batches)
          /\ \A i \in 1 .. Len(batches) :
                batches[i].status # "active" => batches'[i] = batches[i]
          /\ ActiveIds' = {}
      BY <1>9, CloseRow DEF TableInv
    <2>2. Len(batches) \in Nat
      BY <1>1
    <2> QED
      BY <2>1, <2>2 DEF TableStep, RowsStay, OneActiveBatch
  <1>10. ASSUME ActiveIds # {}
         PROVE  batches[Latest] \in BatchType
    BY <1>1, <1>10, LatestIsActive DEF TableInv, ActiveIds
  <1>11. CASE RunComplete(t)
    <2>1. CASE ActiveIds = {}
      BY <1>3, <1>4, <1>11, <2>1, WritesType, SameTable DEF RunComplete
    <2>2. CASE ActiveIds # {}
      <3> DEFINE r == [batches[Latest] EXCEPT !.status = "completed",
                                              !.weights = t.weights]
      <3>1. r \in BatchType /\ r.status # "active"
        BY <1>1, <1>10, <2>2 DEF TaskType, BatchType
      <3>2. batches' = [batches EXCEPT ![Latest] = r]
        BY <1>11, <2>2 DEF RunComplete
      <3>3. TableStep
        BY <1>9, <2>2, <3>1, <3>2
      <3> QED
        BY <1>3, <1>4, <1>11, <3>3, WritesType DEF RunComplete
    <2> QED
      BY <2>1, <2>2
  <1>12. CASE RunStopped(t)
    <2>1. CASE ActiveIds = {}
      BY <1>2, <1>3, <1>12, <2>1, SameTable DEF RunStopped
    <2>2. CASE ActiveIds # {}
      <3> DEFINE r == [batches[Latest] EXCEPT !.status = "cancelled"]
      <3>1. r \in BatchType /\ r.status # "active"
        BY <1>10, <2>2 DEF BatchType
      <3>2. batches' = [batches EXCEPT ![Latest] = r]
        BY <1>12, <2>2 DEF RunStopped
      <3>3. TableStep
        BY <1>9, <2>2, <3>1, <3>2
      <3> QED
        BY <1>2, <1>3, <1>12, <3>3 DEF RunStopped
    <2> QED
      BY <2>1, <2>2
  <1>13. CASE DropTask(t)
    BY <1>2, <1>3, <1>13, SameTable DEF DropTask
  <1> QED
    BY <1>5, <1>6, <1>7, <1>8, <1>11, <1>12, <1>13 DEF RunTask

LEMMA CeleryStep ==
  ASSUME TableInv, Celery
  PROVE  TypeOK' /\ TableStep
  <1>1. PICK t \in BagToSet(tasks) : RunTask(t) \/ DropTask(t)
    BY DEF Celery
  <1>2. queue' \in Seq(Bridge!Write) /\ TasksOK(tasks') /\ TableStep
    BY <1>1, TaskStep
  <1>3. (Bridge!BridgeTypeOK)'
    BY <1>2 DEF Celery, TableInv, TypeOK, Bridge!BridgeTypeOK
  <1> QED
    BY <1>2, <1>3
    DEF Celery, TableInv, TypeOK, TasksOK, TableStep, plcVars, countVars

LEMMA TableNext ==
  ASSUME TableInv, [Next]_vars
  PROVE  TypeOK' /\ TableStep
  <1> TypeOK
    BY DEF TableInv
  <1>1. CASE PlcScan
    BY <1>1, PlcScanType, SameTable DEF PlcScan, djangoVars
  <1>2. CASE Panel
    BY <1>2, PanelType, SameTable DEF Panel, djangoVars
  <1>3. CASE BridgeConnect
    BY <1>3, BridgeConnectType, SameTable DEF BridgeConnect, djangoVars
  <1>4. CASE BridgeInitialRead
    BY <1>4, BridgeInitialReadType, SameTable DEF BridgeInitialRead
  <1>5. CASE BridgePublish
    BY <1>5, BridgePublishType, SameTable DEF BridgePublish
  <1>6. CASE BridgePublishWeights
    BY <1>6, BridgePublishWeightsType, SameTable
    DEF BridgePublishWeights, djangoVars
  <1>7. CASE BridgeWrite
    BY <1>7, BridgeWriteType, SameTable DEF BridgeWrite, djangoVars
  <1>8. CASE BridgeLoss
    BY <1>8, BridgeLossType, SameTable DEF BridgeLoss, djangoVars
  <1>9. CASE Celery
    BY <1>9, CeleryStep
  <1>10. CASE UNCHANGED vars
    BY <1>10, SameTable DEF vars, TypeOK, Bridge!BridgeTypeOK
  <1> QED
    BY <1>1, <1>2, <1>3, <1>4, <1>5, <1>6, <1>7, <1>8, <1>9, <1>10 DEF Next

LEMMA TableInit == Init => TableInv
  BY InitType DEF TableInv, Init, OneActiveBatch, ActiveIds

LEMMA TableInvariant == Spec => []TableInv
  <1>1. TableInv /\ [Next]_vars => TableInv'
    BY TableNext DEF TableInv, TableStep
  <1> QED
    BY <1>1, TableInit, PTL DEF Spec

\* Every reachable state is well typed: what the tasks write are registered
\* tags, whatever order they run in and wherever they fail.
THEOREM TypeCorrect == Spec => []TypeOK
  BY TableInvariant, PTL DEF TableInv

\* At most one batch is ever active, however many confirm tasks found no
\* active batch before they insert theirs.
THEOREM OneActiveBatchHolds == Spec => []OneActiveBatch
  BY TableInvariant, PTL DEF TableInv

\* No task ever touches a row that is closed, and no row disappears.
THEOREM ClosedBatchesStayHolds == Spec => ClosedBatchesStay
  <1>1. TableInv /\ [Next]_vars => [RowsStay]_vars
    BY TableNext DEF TableStep
  <1>2. RowsStay <=> /\ Len(batches') >= Len(batches)
                     /\ \A i \in 1 .. Len(batches) :
                          batches[i].status # "active"
                            => batches'[i] = batches[i]
    BY DEF RowsStay
  <1> QED
    BY <1>1, <1>2, TableInvariant, PTL DEF Spec, ClosedBatchesStay

-----------------------------------------------------------------------------
(* Acknowledgements.  Each batch is acknowledged once, and the response is  *)
(* in one place at a time: the write queue, the PLC's tag, an activation.  *)

Acks(q) == {i \in 1 .. Len(q) : IsAck(q[i])}

LEMMA AcksFinite ==
  ASSUME NEW W, NEW q \in Seq(W)
  PROVE  IsFiniteSet(Acks(q)) /\ Cardinality(Acks(q)) \in Nat
  <1>1. Len(q) \in Nat /\ Acks(q) \in SUBSET (1 .. Len(q))
    BY DEF Acks
  <1>2. IsFiniteSet(Acks(q))
    <2>1. IsFiniteSet(1 .. Len(q))
      BY <1>1, FS_Interval
    <2> QED
      BY <1>1, <2>1, FS_Subset
  <1> QED
    BY <1>2, FS_CardinalityType

\* The head of the queue leaves it.
LEMMA AcksTail ==
  ASSUME NEW W, NEW q \in Seq(W), q # <<>>
  PROVE  Cardinality(Acks(q)) =
           Cardinality(Acks(Tail(q))) + (IF IsAck(Head(q)) THEN 1 ELSE 0)
  <1>1. /\ Tail(q) \in Seq(W) /\ Len(Tail(q)) = Len(q) - 1
        /\ \A i \in 1 .. Len(Tail(q)) : Tail(q)[i] = q[i + 1]
        /\ Len(q) \in Nat \ {0} /\ Head(q) = q[1]
    BY HeadTailProperties
  <1> DEFINE A == Acks(Tail(q))
             B == Acks(q) \ {1}
             f == [i \in A |-> i + 1]
  <1>2. IsFiniteSet(A) /\ IsFiniteSet(Acks(q)) /\ Cardinality(Acks(q)) \in Nat
    BY <1>1, AcksFinite
  <1>3. f \in Bijection(A, B)
    <2>1. \A i \in A : i \in Nat /\ i + 1 \in B
      BY <1>1 DEF Acks
    <2>2. f \in [A -> B] /\ \A i, j \in A : f[i] = f[j] => i = j
      BY <2>1
    <2>3. \A k \in B : k - 1 \in A /\ f[k - 1] = k
      BY <1>1 DEF Acks
    <2>4. f \in Injection(A, B)
      BY <2>2 DEF Injection, IsInjective
    <2>5. f \in Surjection(A, B)
      BY <2>2, <2>3 DEF Surjection
    <2> QED
      BY <2>4, <2>5 DEF Bijection
  <1>4. Cardinality(B) = Cardinality(A)
    BY <1>2, <1>3, FS_Bijection DEF ExistsBijection
  <1>5. Cardinality(B) = IF 1 \in Acks(q) THEN Cardinality(Acks(q)) - 1
                                          ELSE Cardinality(Acks(q))
    BY <1>2, FS_RemoveElement
  <1>6. 1 \in Acks(q) <=> IsAck(Head(q))
    BY <1>1 DEF Acks
  <1> QED
    BY <1>2, <1>4, <1>5, <1>6

\* Writes are appended, of which at most the first acknowledges a batch.
LEMMA AcksConcat ==
  ASSUME NEW W, NEW q \in Seq(W), NEW ws \in Seq(W),
         \A i \in 1 .. Len(ws) : IsAck(ws[i]) => i = 1
  PROVE  /\ Cardinality(Acks(q \o ws)) <= Cardinality(Acks(q)) + 1
         /\ (\A i \in 1 .. Len(ws) : ~ IsAck(ws[i]))
               => Cardinality(Acks(q \o ws)) = Cardinality(Acks(q))
  <1>1. /\ Len(q) \in Nat /\ Len(ws) \in Nat
        /\ q \o ws \in Seq(W) /\ Len(q \o ws) = Len(q) + Len(ws)
        /\ \A i \in 1 .. Len(q) + Len(ws) :
             (q \o ws)[i] = IF i <= Len(q) THEN q[i] ELSE ws[i - Len(q)]
    BY ConcatProperties
  <1>2. IsFiniteSet(Acks(q)) /\ Cardinality(Acks(q)) \in Nat
    BY AcksFinite
  <1>3. Acks(q \o ws) \in SUBSET (Acks(q) \cup {Len(q) + 1})
    BY <1>1 DEF Acks
  <1>4. /\ IsFiniteSet(Acks(q) \cup {Len(q) + 1})
        /\ Cardinality(Acks(q) \cup {Len(q) + 1}) <= Cardinality(Acks(q)) + 1
        /\ Cardinality(Acks(q) \cup {Len(q) + 1}) \in Nat
    <2>1. IsFiniteSet(Acks(q) \cup {Len(q) + 1})
      BY <1>2, FS_AddElement
    <2>2. Cardinality(Acks(q) \cup {Len(q) + 1}) <= Cardinality(Acks(q)) + 1
      <3> DEFINE n == Cardinality(Acks(q))
      <3>1. Cardinality(Acks(q) \cup {Len(q) + 1})
              = IF Len(q) + 1 \in Acks(q) THEN n ELSE n + 1
        BY <1>2, FS_AddElement
      <3>2. n \in Nat
        BY <1>2
      <3> HIDE DEF n
      <3>3. Cardinality(Acks(q) \cup {Len(q) + 1}) <= n + 1
        BY <3>1, <3>2
      <3> QED
        BY <3>3 DEF n
    <2>3. Cardinality(Acks(q) \cup {Len(q) + 1}) \in Nat
      BY <2>1, FS_CardinalityType
    <2> QED
      BY <2>1, <2>2, <2>3
  <1>5. Cardinality(Acks(q \o ws)) <= Cardinality(Acks(q) \cup {Len(q) + 1})
    BY <1>3, <1>4, FS_Subset
  <1>6. ASSUME \A i \in 1 .. Len(ws) : ~ IsAck(ws[i])
        PROVE  Acks(q \o ws) = Acks(q)
    BY <1>1, <1>6 DEF Acks
  <1>7. Cardinality(Acks(q \o ws)) \in Nat
    BY <1>1, AcksFinite
  <1> QED
    BY <1>2, <1>4, <1>5, <1>6, <1>7

\* Is a response standing in the PLC's tag?
Standing(s) == IF "response_batch_create" \in s THEN 1 ELSE 0

LEMMA BackedIs ==
  /\ ActivationsAreBacked <=>
       activations + Cardinality(Acks(queue)) + Standing(plc) <= Len(batches)
  /\ ActivationsAreBacked' <=>
       activations' + Cardinality(Acks(queue')) + Standing(plc') <= Len(batches')
  BY DEF ActivationsAreBacked, InFlightAcks, Acks, Standing

\* The numbers compared are numbers.
LEMMA BackedNat ==
  ASSUME TypeOK
  PROVE  /\ activations \in Nat /\ Len(batches) \in Nat
         /\ Cardinality(Acks(queue)) \in Nat
         /\ \A s : Standing(s) \in {0, 1}
  <1>1. Cardinality(Acks(queue)) \in Nat
    BY AcksFinite DEF TypeOK, Bridge!BridgeTypeOK
  <1> QED
    BY <1>1 DEF TypeOK, Standing

LEMMA PlcScanBacked ==
  TypeOK /\ ActivationsAreBacked /\ PlcScan => ActivationsAreBacked'
  <1> SUFFICES ASSUME TypeOK, ActivationsAreBacked, PlcScan
               PROVE  ActivationsAreBacked'
    OBVIOUS
  <1>1. activations' + Standing(plc') <= activations + Standing(plc)
    <2>1. activations \in Nat /\ \A s : Standing(s) \in {0, 1}
      BY BackedNat
    <2>2. CASE PlcActivate
      BY <2>1, <2>2 DEF PlcActivate, Standing
    <2>3. CASE PlcWeigh
      BY <2>1, <2>3 DEF PlcWeigh, Standing
    <2>4. CASE PlcAdvance
      BY <2>1, <2>4 DEF PlcAdvance
    <2>5. CASE PlcStop \/ PlcIdle \/ PlcStart \/ PlcFinish
      <3>1. "response_batch_create" \notin plc' /\ activations' = activations
        BY <2>5 DEF PlcStop, PlcIdle, PlcStart, PlcFinish
      <3> QED
        BY <2>1, <3>1 DEF Standing
    <2> QED
      BY <2>2, <2>3, <2>4, <2>5 DEF PlcScan
  <1>2. activations' \in Nat
    BY PlcScanType DEF TypeOK
  <1> QED
    BY <1>1, <1>2, BackedIs, BackedNat DEF PlcScan, djangoVars

LEMMA PanelBacked ==
  TypeOK /\ ActivationsAreBacked /\ Panel => ActivationsAreBacked'
  <1> SUFFICES ASSUME TypeOK, ActivationsAreBacked, Panel
               PROVE  ActivationsAreBacked'
    OBVIOUS
  <1>1. Standing(plc') = Standing(plc)
    BY DEF Panel, PressStop, PressConfirm, Standing
  <1> QED
    BY <1>1, BackedIs DEF Panel, djangoVars

\* A request that leaves the queue takes its response along, to the PLC or
\* nowhere.
LEMMA WriteBacked ==
  ASSUME TypeOK, ActivationsAreBacked, queue # <<>>, queue' = Tail(queue),
         plc' = plc \/ plc' = Bridge!SetTag(plc, Head(queue)),
         UNCHANGED <<activations, batches>>
  PROVE  ActivationsAreBacked'
  <1> DEFINE w == Head(queue)
             n == IF IsAck(w) THEN 1 ELSE 0
  <1>1. queue \in Seq(Bridge!Write) /\ w \in Bridge!Write
    BY DEF TypeOK, Bridge!BridgeTypeOK
  <1>2. Cardinality(Acks(queue)) = Cardinality(Acks(queue')) + n
    BY <1>1, AcksTail
  <1>3. Standing(Bridge!SetTag(plc, w)) <= Standing(plc) + n
    <2>1. CASE IsAck(w)
      BY <2>1 DEF Standing
    <2>2. CASE ~ IsAck(w)
      <3>1. w.tag = "response_batch_create" => w.val # TRUE
        BY <1>1, <2>2 DEF IsAck, To, Bridge!Write
      <3>2. "response_batch_create" \in Bridge!SetTag(plc, w)
              => "response_batch_create" \in plc
        BY <1>1, <3>1 DEF Bridge!SetTag, Bridge!Write
      <3> QED
        BY <2>2, <3>2 DEF Standing
    <2> QED
      BY <2>1, <2>2
  <1>4. Standing(plc') <= Standing(plc) + n
    BY <1>3 DEF Standing
  <1>5. Cardinality(Acks(queue')) \in Nat
    <2>1. queue' \in Seq(Bridge!Write)
      BY <1>1, HeadTailProperties
    <2> QED
      BY <2>1, AcksFinite
  <1>6. n \in {0, 1}
    OBVIOUS
  <1> HIDE DEF n
  <1>7. activations' + Cardinality(Acks(queue')) + Standing(plc') <= Len(batches')
    <2>1. activations + Cardinality(Acks(queue)) + Standing(plc) <= Len(batches)
      BY BackedIs
    <2>2. /\ activations \in Nat /\ Len(batches) \in Nat
          /\ Standing(plc) \in {0, 1} /\ Standing(plc') \in {0, 1}
      BY BackedNat
    <2> QED
      BY <1>2, <1>4, <1>5, <1>6, <2>1, <2>2
  <1> QED
    BY <1>7, BackedIs

SingleWrites == "unconfirmed" \notin Faults \/ MaxAttempts = 1

LEMMA BridgeWriteBacked ==
  ASSUME SingleWrites, TypeOK, ActivationsAreBacked, BridgeWrite
  PROVE  ActivationsAreBacked'
  <1>1. UNCHANGED <<activations, batches>>
    BY DEF BridgeWrite, countVars, djangoVars
  <1>2. CASE Bridge!WriteDone
    BY <1>1, <1>2, WriteBacked DEF Bridge!WriteDone
  <1>3. CASE Bridge!WriteFailed(FALSE)
    <2>1. plc' = plc
      BY <1>3 DEF Bridge!WriteFailed
    <2>2. CASE queue' = queue
      BY <1>1, <2>1, <2>2, BackedIs
    <2>3. CASE queue' = Tail(queue)
      BY <1>1, <1>3, <2>1, <2>3, WriteBacked DEF Bridge!WriteFailed
    <2> QED
      BY <1>3, <2>2, <2>3 DEF Bridge!WriteFailed
  <1>4. CASE "unconfirmed" \in Faults /\ Bridge!WriteFailed(TRUE)
    <2>1. attempt \in Nat /\ MaxAttempts = 1
      BY <1>4, AttemptsArePositive DEF SingleWrites, TypeOK, Bridge!BridgeTypeOK
    <2>2. queue' = Tail(queue) /\ queue # <<>>
      BY <1>4, <2>1 DEF Bridge!WriteFailed
    <2>3. plc' = Bridge!SetTag(plc, Head(queue))
      BY <1>4 DEF Bridge!WriteFailed
    <2> QED
      BY <1>1, <2>2, <2>3, WriteBacked
  <1> QED
    BY <1>2, <1>3, <1>4 DEF BridgeWrite

LEMMA BridgeLossBacked ==
  ASSUME TypeOK, ActivationsAreBacked, BridgeLoss
  PROVE  ActivationsAreBacked'
  <1>1. UNCHANGED <<activations, batches>>
    BY DEF BridgeLoss, djangoVars
  <1>2. CASE UNCHANGED <<plc, queue>>
    BY <1>1, <1>2, BackedIs
  <1>3. CASE /\ queue # <<>> /\ queue' = Tail(queue)
             /\ plc' = plc \/ plc' = Bridge!SetTag(plc, Head(queue))
    BY <1>1, <1>3, WriteBacked
  <1> QED
    BY <1>2, <1>3
    DEF BridgeLoss, Bridge!Disconnect, Bridge!PopForNobody, Bridge!Restart

\* A worker pushes what it wants to write, or the first part of it.
LEMMA PushIs ==
  ASSUME queue \in Seq(Bridge!Write), NEW ws \in Seq(Bridge!Write), Push(ws)
  PROVE  \E vs \in Seq(Bridge!Write) :
           /\ queue' = queue \o vs
           /\ Len(vs) <= Len(ws)
           /\ \A i \in 1 .. Len(vs) : vs[i] = ws[i]
  <1>1. ASSUME NEW n \in 0 .. Len(ws)
        PROVE  /\ SubSeq(ws, 1, n) \in Seq(Bridge!Write)
               /\ Len(SubSeq(ws, 1, n)) <= Len(ws)
               /\ \A i \in 1 .. Len(SubSeq(ws, 1, n)) :
                    SubSeq(ws, 1, n)[i] = ws[i]
    OBVIOUS
  <1>2. CASE "crash" \in Faults
    BY <1>1, <1>2 DEF Push, Bridge!Enqueue
  <1>3. CASE "crash" \notin Faults
    BY <1>3 DEF Push, Bridge!Enqueue
  <1> QED
    BY <1>2, <1>3

\* Of what a task pushes at most one write acknowledges a batch.
LEMMA PushAcks ==
  ASSUME queue \in Seq(Bridge!Write), NEW ws \in Seq(Bridge!Write), Push(ws),
         \A i \in 1 .. Len(ws) : IsAck(ws[i]) => i = 1
  PROVE  /\ Cardinality(Acks(queue')) <= Cardinality(Acks(queue)) + 1
         /\ (\A i \in 1 .. Len(ws) : ~ IsAck(ws[i]))
               => Cardinality(Acks(queue')) = Cardinality(Acks(queue))
  <1>1. PICK vs \in Seq(Bridge!Write) :
          /\ queue' = queue \o vs
          /\ Len(vs) <= Len(ws)
          /\ \A i \in 1 .. Len(vs) : vs[i] = ws[i]
    BY PushIs
  <1>2. /\ \A i \in 1 .. Len(vs) : IsAck(vs[i]) => i = 1
        /\ (\A i \in 1 .. Len(ws) : ~ IsAck(ws[i]))
              => \A i \in 1 .. Len(vs) : ~ IsAck(vs[i])
    BY <1>1
  <1> QED
    BY <1>1, <1>2, AcksConcat

LEMMA WritesAcks ==
  /\ \A i \in 1 .. Len(AckCreated) : IsAck(AckCreated[i]) => i = 1
  /\ \A i \in 1 .. Len(ConfirmFails) : ~ IsAck(ConfirmFails[i])
  /\ \A i \in 1 .. Len(<<To("operator_confirm", FALSE)>>) :
       ~ IsAck(<<To("operator_confirm", FALSE)>>[i])
  /\ \A i \in 1 .. Len(<<To("response_batch_complete", TRUE)>>) :
       ~ IsAck(<<To("response_batch_complete", TRUE)>>[i])
  /\ \A lookup \in Lookups : \A i \in 1 .. Len(CreateWrites(lookup)) :
       ~ IsAck(CreateWrites(lookup)[i])
  <1>1. /\ ~ IsAck(To("stop_batch", TRUE))
        /\ ~ IsAck(To("response_batch_complete", TRUE))
        /\ ~ IsAck(To("operator_confirm", FALSE))
        /\ ~ IsAck(To("proposed_ready", TRUE))
        /\ ~ IsAck(To("proposed_ready", FALSE))
        /\ ~ IsAck(To("vehicle_list_0", TRUE))
        /\ ~ IsAck(To("vehicle_list_0", FALSE))
    BY DEF IsAck, To
  <1>2. ASSUME NEW a, NEW b, NEW c, NEW d
        PROVE  /\ Len(<<a>>) = 1 /\ <<a>>[1] = a
               /\ Len(<<a, b>>) = 2 /\ <<a, b>>[1] = a /\ <<a, b>>[2] = b
               /\ Len(<<a, b, c, d>>) = 4
               /\ <<a, b, c, d>>[2] = b
               /\ <<a, b, c, d>>[3] = c
               /\ <<a, b, c, d>>[4] = d
    OBVIOUS
  <1>3. \A i \in 1 .. Len(AckCreated) : IsAck(AckCreated[i]) => i = 1
    <2>1. \A i \in 1 .. 4 : i = 1 \/ i = 2 \/ i = 3 \/ i = 4
      OBVIOUS
    <2>2. /\ Len(AckCreated) = 4
          /\ AckCreated[2] = To("operator_confirm", FALSE)
          /\ AckCreated[3] = To("proposed_ready", FALSE)
          /\ AckCreated[4] = To("vehicle_list_0", FALSE)
      BY <1>2 DEF AckCreated
    <2> QED
      BY <1>1, <2>1, <2>2
  <1>4. ASSUME NEW a, ~ IsAck(a)
        PROVE  \A i \in 1 .. Len(<<a>>) : ~ IsAck(<<a>>[i])
    <2>1. \A i \in 1 .. 1 : i = 1
      OBVIOUS
    <2> QED
      BY <1>2, <1>4, <2>1
  <1>5. ASSUME NEW a, NEW b, ~ IsAck(a), ~ IsAck(b)
        PROVE  \A i \in 1 .. Len(<<a, b>>) : ~ IsAck(<<a, b>>[i])
    <2>1. \A i \in 1 .. 2 : i = 1 \/ i = 2
      OBVIOUS
    <2> QED
      BY <1>2, <1>5, <2>1
  <1>6. \A i \in 1 .. Len(ConfirmFails) : ~ IsAck(ConfirmFails[i])
    BY <1>1, <1>5 DEF ConfirmFails
  <1>7. ASSUME NEW lookup \in Lookups
        PROVE  \A i \in 1 .. Len(CreateWrites(lookup)) :
                 ~ IsAck(CreateWrites(lookup)[i])
    <2>1. CASE lookup = "unknown_type"
      BY <1>1, <1>4, <2>1 DEF CreateWrites
    <2>2. CASE lookup = "propose"
      BY <1>1, <1>5, <2>2 DEF CreateWrites
    <2>3. CASE lookup = "list"
      BY <1>1, <1>5, <2>3 DEF CreateWrites
    <2>4. CASE lookup = "empty_list"
      BY <1>1, <1>5, <2>4 DEF CreateWrites
    <2> QED
      BY <2>1, <2>2, <2>3, <2>4, ChoicesAreKnown DEF LookupKinds
  <1> QED
    BY <1>1, <1>3, <1>4, <1>6, <1>7

LEMMA CeleryBacked ==
  ASSUME TableInv, ActivationsAreBacked, Celery
  PROVE  ActivationsAreBacked'
  <1>1. PICK t \in BagToSet(tasks) : RunTask(t) \/ DropTask(t)
    BY DEF Celery
  <1>2. UNCHANGED <<activations, plc>>
    BY DEF Celery, countVars
  <1>3. TypeOK /\ queue \in Seq(Bridge!Write)
    BY DEF TableInv, TypeOK, Bridge!BridgeTypeOK
  <1>4. Len(batches') >= Len(batches) /\ Len(batches') \in Nat
    <2>1. RowsStay /\ batches' \in Seq(BatchType)
      BY <1>1, TaskStep DEF TableStep
    <2> QED
      BY <2>1 DEF RowsStay
  <1>5. Cardinality(Acks(queue')) \in Nat
    BY <1>1, TaskStep, AcksFinite
  <1>6. ASSUME NEW k \in {0, 1}, Len(batches') >= Len(batches) + k,
               Cardinality(Acks(queue')) <= Cardinality(Acks(queue)) + k
        PROVE  ActivationsAreBacked'
    <2>1. activations + Cardinality(Acks(queue)) + Standing(plc) <= Len(batches)
      BY BackedIs
    <2>2. /\ activations \in Nat /\ Len(batches) \in Nat
          /\ Cardinality(Acks(queue)) \in Nat /\ Standing(plc) \in {0, 1}
      BY <1>3, BackedNat
    <2>3. activations' = activations /\ Standing(plc') = Standing(plc)
      BY <1>2
    <2>4. activations' + Cardinality(Acks(queue')) + Standing(plc')
            <= Len(batches')
      BY <1>4, <1>5, <1>6, <2>1, <2>2, <2>3
    <2> QED
      BY <2>4, BackedIs
  <1>7. ASSUME Cardinality(Acks(queue')) = Cardinality(Acks(queue))
        PROVE  ActivationsAreBacked'
    <2>1. Cardinality(Acks(queue)) \in Nat /\ Len(batches) \in Nat
      BY <1>3, BackedNat
    <2>2. /\ Len(batches') >= Len(batches) + 0
          /\ Cardinality(Acks(queue')) <= Cardinality(Acks(queue)) + 0
      BY <1>4, <1>7, <2>1
    <2> QED
      BY <1>6, <2>2
  <1>8. CASE FinishInsert(t) /\ ActiveIds = {}
    <2>1. Len(batches') = Len(batches) + 1
      <3>1. batches' = Append(batches, [cycle |-> t.cycle, weights |-> 0,
                                        status |-> "active"])
        BY <1>8 DEF FinishInsert
      <3> QED
        BY <1>3, <3>1 DEF TypeOK
    <2>2. Cardinality(Acks(queue')) <= Cardinality(Acks(queue)) + 1
      BY <1>3, <1>8, PushAcks, WritesType, WritesAcks DEF FinishInsert
    <2> QED
      BY <1>3, <1>6, <2>1, <2>2, BackedNat
  <1>9. CASE Push(ConfirmFails)
    BY <1>3, <1>7, <1>9, PushAcks, WritesType, WritesAcks
  <1>10. CASE Push(<<To("operator_confirm", FALSE)>>)
    BY <1>3, <1>7, <1>10, PushAcks, WritesType, WritesAcks
  <1>11. CASE Push(<<To("response_batch_complete", TRUE)>>)
    BY <1>3, <1>7, <1>11, PushAcks, WritesType, WritesAcks
  <1>12. CASE \E lookup \in Lookups : Push(CreateWrites(lookup))
    BY <1>3, <1>7, <1>12, PushAcks, WritesType, WritesAcks
  <1>13. CASE UNCHANGED queue
    BY <1>7, <1>13
  <1> QED
    BY <1>1, <1>8, <1>9, <1>10, <1>11, <1>12, <1>13
    DEF RunTask, RunCreate, RejectConfirm, BeginInsert, FinishInsert,
        RunComplete, RunStopped, DropTask

LEMMA BackedNext ==
  ASSUME SingleWrites, TableInv, ActivationsAreBacked, [Next]_vars
  PROVE  ActivationsAreBacked'
  <1> TypeOK
    BY DEF TableInv
  <1>1. CASE UNCHANGED <<plc, queue, batches, activations>>
    BY <1>1, BackedIs
  <1>2. CASE PlcScan
    BY <1>2, PlcScanBacked
  <1>3. CASE Panel
    BY <1>3, PanelBacked
  <1>4. CASE BridgeConnect \/ BridgeInitialRead
    BY <1>1, <1>4
    DEF BridgeConnect, BridgeInitialRead, Bridge!Connect, Bridge!InitialRead,
        djangoVars, countVars
  <1>5. CASE BridgePublish \/ BridgePublishWeights
    BY <1>1, <1>5
    DEF BridgePublish, BridgePublishWeights, Bridge!Publish, djangoVars, countVars
  <1>6. CASE BridgeWrite
    BY <1>6, BridgeWriteBacked
  <1>7. CASE BridgeLoss
    BY <1>7, BridgeLossBacked
  <1>8. CASE Celery
    BY <1>8, CeleryBacked
  <1>9. CASE UNCHANGED vars
    BY <1>1, <1>9 DEF vars
  <1> QED
    BY <1>2, <1>3, <1>4, <1>5, <1>6, <1>7, <1>8, <1>9 DEF Next

\* The PLC never starts more batches than Django has created, when every
\* write that reaches the PLC is written once: no answer is lost, or no
\* request is tried again.
THEOREM ActivationsAreBackedHolds ==
  ASSUME SingleWrites
  PROVE  Spec => []ActivationsAreBacked
  <1>1. Init => ActivationsAreBacked
    <2> SUFFICES ASSUME Init PROVE ActivationsAreBacked
      OBVIOUS
    <2>1. Acks(queue) = {} /\ Standing(plc) = 0
      BY DEF Init, Bridge!BridgeInit, Acks, Standing
    <2>2. Cardinality(Acks(queue)) = 0
      BY <2>1, FS_EmptySet
    <2> QED
      BY <2>1, <2>2, BackedIs DEF Init
  <1>2. TableInv /\ ActivationsAreBacked /\ [Next]_vars => ActivationsAreBacked'
    BY BackedNext
  <1> QED
    BY <1>1, <1>2, TableInvariant, PTL DEF Spec

-----------------------------------------------------------------------------
(* The cycle, for an operator who starts it when nothing of the last one   *)
(* is under way.  The inductive invariant ties everything on its way --    *)
(* tasks, writes, tags that stand -- to the cycle the PLC is in.           *)

Writes(q) == {q[i] : i \in 1 .. Len(q)}

\* A value that is in the PLC, or will be.
Coming(tag) == tag \in plc \/ To(tag, TRUE) \in Writes(queue)

\* Django never takes a stop back, and never asks for a completion itself.
Harmless(w) ==
  /\ w.tag = "stop_batch" => w.val = TRUE
  /\ w.tag = "request_batch_complete" => w.val = FALSE

OwnOpen == \E i \in ActiveIds : batches[i].cycle = cycle

OwnSaved ==
  \E i \in 1 .. Len(batches) :
    /\ batches[i].cycle = cycle
    /\ batches[i].status = "completed"
    /\ batches[i].weights = cycle

\* What tasks there may be in which step.
TaskFits(t) ==
  /\ t.cycle = cycle
  /\ t.kind = "autogas_batch_complete" => step \in {0, 5}
  /\ t.kind = "autogas_batch_stopped" => step = 0 \/ "stop_batch" \in plc

LinkInv ==
  /\ \A w \in Writes(queue) : Harmless(w)
  /\ \A t \in BagToSet(tasks) : TaskFits(t)
  /\ step # 5 => "request_batch_complete" \notin plc
  /\ step \in 1 .. 4 => "request_batch_complete" \notin snap

\* Until it is stopped, the batch of the cycle is active from the moment it
\* is acknowledged to the second weighing.
OwnInv ==
  "stop_batch" \notin plc =>
    /\ step = 1 /\ Coming("response_batch_create") => OwnOpen
    /\ step \in 2 .. 4 => OwnOpen

CycleInv == TableInv /\ LinkInv /\ OwnInv

LEMMA WritesTail ==
  ASSUME NEW W, NEW q \in Seq(W), q # <<>>
  PROVE  Head(q) \in Writes(q) /\ Writes(Tail(q)) \subseteq Writes(q)
  <1>1. /\ Len(Tail(q)) = Len(q) - 1
        /\ \A i \in 1 .. Len(Tail(q)) : Tail(q)[i] = q[i + 1]
        /\ Len(q) \in Nat \ {0} /\ Head(q) = q[1]
    BY HeadTailProperties
  <1>2. Head(q) \in Writes(q)
    BY <1>1 DEF Writes
  <1>3. \A i \in 1 .. Len(Tail(q)) : i + 1 \in 1 .. Len(q)
    BY <1>1
  <1> QED
    BY <1>1, <1>2, <1>3 DEF Writes

\* What a task pushes is what it wants to write.
LEMMA PushWrites ==
  ASSUME queue \in Seq(Bridge!Write), NEW ws \in Seq(Bridge!Write), Push(ws)
  PROVE  Writes(queue') \subseteq Writes(queue) \cup Writes(ws)
  <1>1. PICK vs \in Seq(Bridge!Write) :
          /\ queue' = queue \o vs
          /\ Len(vs) <= Len(ws)
          /\ \A i \in 1 .. Len(vs) : vs[i] = ws[i]
    BY PushIs
  <1>2. /\ Len(queue) \in Nat /\ Len(vs) \in Nat /\ Len(ws) \in Nat
        /\ Len(queue') = Len(queue) + Len(vs)
        /\ \A i \in 1 .. Len(queue) + Len(vs) :
             queue'[i] = IF i <= Len(queue) THEN queue[i] ELSE vs[i - Len(queue)]
    BY <1>1, ConcatProperties
  <1>3. Writes(vs) \subseteq Writes(ws)
    <2>1. \A i \in 1 .. Len(vs) : i \in 1 .. Len(ws) /\ vs[i] = ws[i]
      BY <1>1, <1>2
    <2> QED
      BY <2>1 DEF Writes
  <1>4. ASSUME NEW i \in 1 .. Len(queue')
        PROVE  queue'[i] \in Writes(queue) \cup Writes(vs)
    <2>1. CASE i <= Len(queue)
      BY <1>2, <1>4, <2>1 DEF Writes
    <2>2. CASE ~ (i <= Len(queue))
      BY <1>2, <1>4, <2>2 DEF Writes
    <2> QED
      BY <2>1, <2>2
  <1>5. Writes(queue') \subseteq Writes(queue) \cup Writes(vs)
    BY <1>4 DEF Writes
  <1> QED
    BY <1>3, <1>5

\* A write of TRUE is told by its tag.
LEMMA WriteIs ==
  ASSUME NEW w \in Bridge!Write, w.val = TRUE
  PROVE  w = To(w.tag, TRUE)
  BY DEF Bridge!Write, To

\* What a write of the queue does to a set of tags.
LEMMA SetTagComes ==
  ASSUME NEW w \in Bridge!Write, NEW s, Harmless(w)
  PROVE  /\ \A tag \in Bridge!SetTag(s, w) : tag \in s \/ w = To(tag, TRUE)
         /\ "stop_batch" \in s => "stop_batch" \in Bridge!SetTag(s, w)
  <1>1. CASE w.val = TRUE
    BY <1>1, WriteIs DEF Bridge!SetTag
  <1>2. CASE w.val # TRUE
    BY <1>2 DEF Bridge!SetTag, Harmless, Bridge!Write
  <1> QED
    BY <1>1, <1>2

\* The bridge only delivers, or loses, what was on its way.
Delivers ==
  /\ Writes(queue') \subseteq Writes(queue)
  /\ \A tag \in plc' : Coming(tag)
  /\ \A tag \in snap' : tag \in snap \/ To(tag, TRUE) \in Writes(queue)
  /\ "stop_batch" \in plc => "stop_batch" \in plc'
  /\ UNCHANGED <<step, cycle, weighed, tasks, batches>>

LEMMA BridgeDelivers ==
  ASSUME TypeOK, LinkInv, BridgeWrite \/ BridgeLoss
  PROVE  Delivers
  <1>1. queue \in Seq(Bridge!Write)
    BY DEF TypeOK, Bridge!BridgeTypeOK
  <1>2. ASSUME queue # <<>>
        PROVE  /\ Writes(Tail(queue)) \subseteq Writes(queue)
               /\ \A s : /\ \A tag \in Bridge!SetTag(s, Head(queue)) :
                              tag \in s \/ To(tag, TRUE) \in Writes(queue)
                         /\ "stop_batch" \in s =>
                              "stop_batch" \in Bridge!SetTag(s, Head(queue))
    <2>1. /\ Head(queue) \in Writes(queue)
          /\ Writes(Tail(queue)) \subseteq Writes(queue)
      BY <1>1, <1>2, WritesTail
    <2>2. Head(queue) \in Bridge!Write /\ Harmless(Head(queue))
      BY <1>1, <1>2, <2>1 DEF LinkInv
    <2> QED
      BY <2>1, <2>2, SetTagComes
  <1>3. UNCHANGED <<step, cycle, weighed, tasks, batches>>
    BY DEF BridgeWrite, BridgeLoss, plcVars, djangoVars
  <1>4. CASE Bridge!WriteDone
    BY <1>2, <1>3, <1>4 DEF Bridge!WriteDone, Delivers, Coming
  <1>5. ASSUME NEW applied, Bridge!WriteFailed(applied)
        PROVE  Delivers
    <2>1. queue' = queue \/ queue' = Tail(queue)
      BY <1>5 DEF Bridge!WriteFailed
    <2>2. plc' = plc \/ plc' = Bridge!SetTag(plc, Head(queue))
      BY <1>5 DEF Bridge!WriteFailed
    <2>3. queue # <<>> /\ snap' = snap
      BY <1>5 DEF Bridge!WriteFailed
    <2> QED
      BY <1>2, <1>3, <2>1, <2>2, <2>3 DEF Delivers, Coming
  <1>6. CASE Bridge!Disconnect
    <2>1. \/ UNCHANGED <<plc, queue>>
          \/ /\ queue # <<>> /\ queue' = Tail(queue)
             /\ plc' = plc \/ plc' = Bridge!SetTag(plc, Head(queue))
      BY <1>6 DEF Bridge!Disconnect
    <2>2. snap' = snap
      BY <1>6 DEF Bridge!Disconnect
    <2> QED
      BY <1>2, <1>3, <2>1, <2>2 DEF Delivers, Coming
  <1>7. CASE Bridge!PopForNobody
    BY <1>2, <1>3, <1>7 DEF Bridge!PopForNobody, Delivers, Coming
  <1>8. CASE Bridge!Restart
    BY <1>3, <1>8 DEF Bridge!Restart, Delivers, Coming
  <1> QED
    BY <1>4, <1>5, <1>6, <1>7, <1>8 DEF BridgeWrite, BridgeLoss

LEMMA DeliversLink ==
  ASSUME LinkInv, OwnInv, Delivers
  PROVE  LinkInv' /\ OwnInv'
  <1> DEFINE asks == To("request_batch_complete", TRUE)
  <1>1. asks \notin Writes(queue)
    BY DEF LinkInv, Harmless, To
  <1>2. LinkInv'
    <2>1. \A w \in Writes(queue') : Harmless(w)
      BY DEF Delivers, LinkInv
    <2>2. \A t \in BagToSet(tasks') : TaskFits(t)'
      BY DEF Delivers, LinkInv, TaskFits
    <2>3. step' # 5 => "request_batch_complete" \notin plc'
      BY <1>1 DEF Delivers, LinkInv, Coming
    <2>4. step' \in 1 .. 4 => "request_batch_complete" \notin snap'
      BY <1>1 DEF Delivers, LinkInv
    <2> QED
      BY <2>1, <2>2, <2>3, <2>4 DEF LinkInv, TaskFits, Harmless
  <1>3. OwnOpen' <=> OwnOpen
    BY DEF Delivers, OwnOpen, ActiveIds
  <1>4. Coming("response_batch_create")' => Coming("response_batch_create")
    BY DEF Delivers, Coming
  <1> QED
    BY <1>2, <1>3, <1>4 DEF OwnInv, Delivers

\* The scan of a PLC whose operator waits.
LEMMA PlcScanLink ==
  ASSUME Patient, TypeOK, LinkInv, OwnInv, PlcScan
  PROVE  LinkInv' /\ OwnInv'
  <1>1. UNCHANGED <<queue, snap, seen, tasks, batches>>
    BY DEF PlcScan, djangoVars
  <1>2. OwnOpen' <=> \E i \in ActiveIds : batches[i].cycle = cycle'
    BY <1>1 DEF OwnOpen, ActiveIds
  <1>3. step \in 0 .. 5 /\ LinkInv
    BY DEF TypeOK
  <1>4. CASE PlcStop \/ PlcIdle \/ PlcFinish
    <2>1. step' = 0 /\ plc' = {} /\ cycle' = cycle
      BY <1>4 DEF PlcStop, PlcIdle, PlcFinish, plcVars
    <2>2. LinkInv'
      BY <1>1, <1>3, <2>1 DEF LinkInv, TaskFits, Harmless
    <2> QED
      BY <2>1, <2>2 DEF OwnInv
  <1>5. CASE PlcStart
    <2>1. /\ step = 0 /\ step' = 1 /\ cycle' = cycle + 1
          /\ plc' = {"request_batch_create"}
          /\ tasks = EmptyBag /\ queue = <<>> /\ snap = plc
      BY <1>5 DEF PlcStart, Settled
    <2>2. BagToSet(tasks') = {} /\ Writes(queue') = {}
      BY <1>1, <2>1, SetToBagType DEF EmptyBag, Writes
    <2>3. "request_batch_complete" \notin snap'
      BY <1>1, <1>3, <2>1 DEF LinkInv
    <2>4. LinkInv'
      BY <2>1, <2>2, <2>3 DEF LinkInv
    <2>5. ~ Coming("response_batch_create")'
      BY <2>1, <2>2 DEF Coming
    <2> QED
      BY <2>1, <2>4, <2>5 DEF OwnInv
  <1>6. CASE PlcActivate \/ PlcAdvance \/ PlcWeigh
    <2>1. /\ step \in 1 .. 4 /\ step' \in 2 .. 5 /\ cycle' = cycle
          /\ "stop_batch" \notin plc
          /\ step' # 5 => plc' \subseteq plc
          /\ step' \in 1 .. 4 => step \in 1 .. 4
      BY <1>6 DEF PlcActivate, PlcAdvance, PlcWeigh
    <2>2. \A t \in BagToSet(tasks) :
            /\ t.cycle = cycle
            /\ t.kind # "autogas_batch_complete"
            /\ t.kind # "autogas_batch_stopped"
      BY <1>3, <2>1 DEF LinkInv, TaskFits
    <2>3. LinkInv'
      BY <1>1, <1>3, <2>1, <2>2 DEF LinkInv, TaskFits, Harmless
    <2>4. OwnOpen
      <3>1. CASE PlcActivate
        BY <2>1, <3>1 DEF PlcActivate, OwnInv, Coming
      <3>2. CASE PlcAdvance \/ PlcWeigh
        BY <2>1, <3>2 DEF PlcAdvance, PlcWeigh, OwnInv
      <3> QED
        BY <1>6, <3>1, <3>2
    <2> QED
      BY <1>2, <2>1, <2>3, <2>4 DEF OwnInv, OwnOpen
  <1> QED
    BY <1>4, <1>5, <1>6 DEF PlcScan

LEMMA PanelLink ==
  ASSUME TypeOK, LinkInv, OwnInv, Panel
  PROVE  LinkInv' /\ OwnInv'
  <1>1. /\ UNCHANGED <<queue, snap, step, cycle, weighed, tasks, batches>>
        /\ plc' = plc \cup {"stop_batch"} \/ plc' = plc \cup {"operator_confirm"}
    BY DEF Panel, PressStop, PressConfirm, plcVars, djangoVars
  <1>2. LinkInv'
    BY <1>1 DEF LinkInv, TaskFits, Harmless
  <1>3. "response_batch_create" \in plc' => "response_batch_create" \in plc
    BY <1>1
  <1>4. Coming("response_batch_create")' => Coming("response_batch_create")
    BY <1>1, <1>3 DEF Coming
  <1>5. OwnOpen' <=> OwnOpen
    BY <1>1 DEF OwnOpen, ActiveIds
  <1> QED
    BY <1>1, <1>2, <1>4, <1>5 DEF OwnInv

-----------------------------------------------------------------------------
(* What fires, and when.                                                   *)

LEMMA CompleteFires ==
  ASSUME NEW s, Bridge!Active("autogas_batch_complete", s)
  PROVE  "request_batch_complete" \in s
  BY DEF Bridge!Active, Pos

LEMMA StoppedFires ==
  ASSUME NEW s
  PROVE  Bridge!Active("autogas_batch_stopped", s) <=> "stop_batch" \in s
  BY DEF Bridge!Active, Pos, Neg

LEMMA TagRank == \A tag \in Tags : Rank[tag] \in 1 .. 8
  BY DEF Tags, Rank

\* A completion is only sent while its request stands, a stop only when the
\* PLC has just been seen stopped.
LEMMA PublishSends ==
  ASSUME TypeOK, NEW S, NEW tr \in Bridge!PublishFires(S)
  PROVE  /\ tr = "autogas_batch_complete" =>
              "request_batch_complete" \in snap \cup plc
         /\ tr = "autogas_batch_stopped" => "stop_batch" \in plc
  <1>1. PICK tag \in Bridge!Heard(S) :
          Bridge!MayFire(tr, Bridge!Merged(S, Rank[tag] - 1),
                             Bridge!Merged(S, Rank[tag]), FALSE)
    BY DEF Bridge!PublishFires
  <1>2. /\ Bridge!Active(tr, Bridge!Merged(S, Rank[tag]))
        /\ ~ Bridge!Active(tr, Bridge!Merged(S, Rank[tag] - 1))
    BY <1>1 DEF Bridge!MayFire
  <1>3. tr = "autogas_batch_complete" =>
          "request_batch_complete" \in snap \cup plc
    BY <1>2, CompleteFires DEF Bridge!Merged
  <1>4. ASSUME tr = "autogas_batch_stopped", "stop_batch" \notin plc
        PROVE  FALSE
    <2>1. /\ "stop_batch" \in Bridge!Merged(S, Rank[tag])
          /\ "stop_batch" \notin Bridge!Merged(S, Rank[tag] - 1)
      BY <1>2, <1>4, StoppedFires
    <2>2. Rank[tag] \in 1 .. 8 /\ Rank["stop_batch"] = 1
      BY TagRank DEF Bridge!Heard, Rank
    <2> QED
      BY <1>4, <2>1, <2>2 DEF Bridge!Merged
  <1> QED
    BY <1>3, <1>4

LEMMA InitialSends ==
  ASSUME NEW tr \in Bridge!InitialReadFires
  PROVE  /\ tr = "autogas_batch_complete" => "request_batch_complete" \in plc
         /\ tr = "autogas_batch_stopped" => "stop_batch" \in plc
  BY CompleteFires, StoppedFires DEF Bridge!InitialReadFires, Bridge!MayFire

\* A notification, or the initial read, that sends tasks of this cycle.
Hears ==
  /\ UNCHANGED <<plc, queue, step, cycle, weighed, batches>>
  /\ snap' \subseteq snap \cup plc
  /\ TasksOK(tasks')
  /\ \A t \in BagToSet(tasks') :
       \/ t \in BagToSet(tasks)
       \/ /\ t.cycle = cycle
          /\ t.kind = "autogas_batch_complete" =>
               "request_batch_complete" \in snap \cup plc
          /\ t.kind = "autogas_batch_stopped" => "stop_batch" \in plc

LEMMA SentTasks ==
  ASSUME TypeOK, NEW w, NEW sent, tasks' = tasks (+) SetToBag({NewTask(tr, w) : tr \in sent})
  PROVE  BagToSet(tasks') = BagToSet(tasks) \cup {NewTask(tr, w) : tr \in sent}
  BY SetToBagType, BagAddType DEF TypeOK

LEMMA ReadHears ==
  ASSUME TypeOK, BridgeInitialRead \/ BridgePublish \/ BridgePublishWeights
  PROVE  Hears
  <1>1. TasksOK(tasks')
    BY BridgeInitialReadType, BridgePublishType, BridgePublishWeightsType
    DEF TypeOK, TasksOK
  <1>2. \A fires : \A sent \in SentOf(fires) : sent \subseteq fires
    BY DEF SentOf
  <1>3. CASE BridgeInitialRead
    <2>1. PICK sent \in SentOf(Bridge!InitialReadFires) :
            /\ Bridge!InitialRead(sent)
            /\ tasks' = tasks (+) SetToBag({NewTask(tr, weighed) : tr \in sent})
            /\ UNCHANGED <<plcVars, batches>>
      BY <1>3 DEF BridgeInitialRead
    <2>2. BagToSet(tasks') = BagToSet(tasks) \cup {NewTask(tr, weighed) : tr \in sent}
      BY <2>1, SentTasks
    <2>3. \A tr \in sent : tr \in Bridge!InitialReadFires
      BY <1>2
    <2>4. \A tr \in sent :
            /\ NewTask(tr, weighed).cycle = cycle
            /\ NewTask(tr, weighed).kind = tr
      BY DEF NewTask
    <2>5. snap' \subseteq snap \cup plc /\ UNCHANGED <<plc, queue>>
      BY <2>1 DEF Bridge!InitialRead, Bridge!OnSnapshot
    <2> QED
      BY <1>1, <2>1, <2>2, <2>3, <2>4, <2>5, InitialSends DEF Hears, plcVars
  <1>4. CASE BridgePublish
    <2>1. PICK S \in Blocks : \E sent \in SentOf(Bridge!PublishFires(S)) :
            /\ Bridge!Publish(S, sent)
            /\ tasks' = tasks (+) SetToBag({NewTask(tr, seen') : tr \in sent})
            /\ UNCHANGED <<plcVars, batches>>
      BY <1>4 DEF BridgePublish
    <2>2. PICK sent \in SentOf(Bridge!PublishFires(S)) :
            /\ Bridge!Publish(S, sent)
            /\ tasks' = tasks (+) SetToBag({NewTask(tr, seen') : tr \in sent})
            /\ UNCHANGED <<plcVars, batches>>
      BY <2>1
    <2>3. BagToSet(tasks') = BagToSet(tasks) \cup {NewTask(tr, seen') : tr \in sent}
      BY <2>2, SentTasks
    <2>4. \A tr \in sent : tr \in Bridge!PublishFires(S)
      BY <1>2
    <2>5. \A tr \in sent :
            /\ NewTask(tr, seen').cycle = cycle
            /\ NewTask(tr, seen').kind = tr
      BY DEF NewTask
    <2>6. snap' \subseteq snap \cup plc /\ UNCHANGED <<plc, queue>>
      BY <2>2 DEF Bridge!Publish, Bridge!OnSnapshot
    <2> QED
      BY <1>1, <2>2, <2>3, <2>4, <2>5, <2>6, PublishSends DEF Hears, plcVars
  <1>5. CASE BridgePublishWeights
    BY <1>1, <1>5 DEF BridgePublishWeights, Hears, plcVars, djangoVars
  <1> QED
    BY <1>3, <1>4, <1>5

LEMMA HearsLink ==
  ASSUME TypeOK, LinkInv, OwnInv, Hears
  PROVE  LinkInv' /\ OwnInv'
  <1>1. step \in 0 .. 5 /\ UNCHANGED <<plc, queue, step, cycle, batches>>
    BY DEF TypeOK, Hears
  <1>2. ASSUME NEW t \in BagToSet(tasks')
        PROVE  TaskFits(t)'
    <2>1. CASE t \in BagToSet(tasks)
      BY <1>1, <2>1 DEF LinkInv, TaskFits
    <2>2. CASE t \notin BagToSet(tasks)
      <3>1. /\ t.cycle = cycle
            /\ t.kind = "autogas_batch_complete" =>
                 "request_batch_complete" \in snap \cup plc
            /\ t.kind = "autogas_batch_stopped" => "stop_batch" \in plc
        BY <2>2 DEF Hears
      <3>2. "request_batch_complete" \in snap \cup plc => step \in {0, 5}
        BY <1>1 DEF LinkInv
      <3> QED
        BY <1>1, <3>1, <3>2 DEF TaskFits
    <2> QED
      BY <2>1, <2>2
  <1>3. step' \in 1 .. 4 => "request_batch_complete" \notin snap'
    BY <1>1 DEF Hears, LinkInv
  <1>4. \A w \in Writes(queue') : Harmless(w)
    BY <1>1 DEF LinkInv
  <1>5. LinkInv'
    BY <1>1, <1>2, <1>3, <1>4 DEF LinkInv, Harmless
  <1>6. (OwnOpen' <=> OwnOpen)
        /\ (Coming("response_batch_create")' <=> Coming("response_batch_create"))
    BY <1>1 DEF OwnOpen, ActiveIds, Coming
  <1> QED
    BY <1>1, <1>5, <1>6 DEF OwnInv

-----------------------------------------------------------------------------
(* What a task leaves behind.                                              *)

LEMMA WritesOfTuple ==
  /\ \A a : Writes(<<a>>) = {a}
  /\ \A a, b : Writes(<<a, b>>) = {a, b}
  /\ \A a, b, c, d : Writes(<<a, b, c, d>>) = {a, b, c, d}
  <1>1. /\ 1 .. 1 = {1} /\ 1 .. 2 = {1, 2} /\ 1 .. 4 = {1, 2, 3, 4}
    OBVIOUS
  <1>2. ASSUME NEW a PROVE Writes(<<a>>) = {a}
    <2>1. Len(<<a>>) = 1
      OBVIOUS
    <2> QED
      BY <1>1, <2>1 DEF Writes
  <1>3. ASSUME NEW a, NEW b PROVE Writes(<<a, b>>) = {a, b}
    <2>1. Len(<<a, b>>) = 2
      OBVIOUS
    <2> QED
      BY <1>1, <2>1 DEF Writes
  <1>4. ASSUME NEW a, NEW b, NEW c, NEW d
        PROVE  Writes(<<a, b, c, d>>) = {a, b, c, d}
    <2>1. Len(<<a, b, c, d>>) = 4
      OBVIOUS
    <2> QED
      BY <1>1, <2>1 DEF Writes
  <1> QED
    BY <1>2, <1>3, <1>4

Created == To("response_batch_create", TRUE)
Completed == To("response_batch_complete", TRUE)

LEMMA WritesAre ==
  /\ \A w \in Writes(AckCreated) : Harmless(w) /\ w # Completed
  /\ \A w \in Writes(<<Completed>>) : Harmless(w) /\ w # Created
  /\ \A ws \in {ConfirmFails, <<To("operator_confirm", FALSE)>>}
                 \cup {CreateWrites(lookup) : lookup \in Lookups} :
       \A w \in Writes(ws) : Harmless(w) /\ w # Created /\ w # Completed
  <1> DEFINE plain == {To("stop_batch", TRUE), To("operator_confirm", FALSE),
                       To("proposed_ready", TRUE), To("proposed_ready", FALSE),
                       To("vehicle_list_0", TRUE), To("vehicle_list_0", FALSE)}
  <1>1. \A w \in plain : Harmless(w) /\ w # Created /\ w # Completed
    BY DEF Harmless, To, Created, Completed
  <1>2. /\ Harmless(Created) /\ Harmless(Completed) /\ Created # Completed
    BY DEF Harmless, To, Created, Completed
  <1>3. /\ Writes(AckCreated) \subseteq plain \cup {Created}
        /\ Writes(<<Completed>>) = {Completed}
        /\ Writes(ConfirmFails) \subseteq plain
        /\ Writes(<<To("operator_confirm", FALSE)>>) \subseteq plain
    <2>1. Writes(AckCreated) =
            {Created, To("operator_confirm", FALSE), To("proposed_ready", FALSE),
             To("vehicle_list_0", FALSE)}
      <3> DEFINE x == To("operator_confirm", FALSE)
                 y == To("proposed_ready", FALSE)
                 z == To("vehicle_list_0", FALSE)
      <3>1. AckCreated = <<Created, x, y, z>>
        BY DEF AckCreated, Created
      <3> HIDE DEF x, y, z
      <3>2. Writes(<<Created, x, y, z>>) = {Created, x, y, z}
        BY WritesOfTuple
      <3> QED
        BY <3>1, <3>2 DEF x, y, z
    <2>2. Writes(ConfirmFails) =
            {To("stop_batch", TRUE), To("operator_confirm", FALSE)}
      BY WritesOfTuple DEF ConfirmFails
    <2>3. /\ Writes(<<Completed>>) = {Completed}
          /\ Writes(<<To("operator_confirm", FALSE)>>)
               = {To("operator_confirm", FALSE)}
      BY WritesOfTuple
    <2> QED
      BY <2>1, <2>2, <2>3
  <1>4. ASSUME NEW lookup \in Lookups
        PROVE  Writes(CreateWrites(lookup)) \subseteq plain
    <2>1. lookup \in {"unknown_type", "propose", "list", "empty_list"}
      BY ChoicesAreKnown DEF LookupKinds
    <2>2. CASE lookup = "unknown_type"
      <3>1. Writes(CreateWrites(lookup)) = {To("stop_batch", TRUE)}
        BY <2>2, WritesOfTuple DEF CreateWrites
      <3> QED
        BY <3>1
    <2>3. CASE lookup # "unknown_type"
      <3>1. PICK p \in BOOLEAN, v \in BOOLEAN :
              CreateWrites(lookup) = <<To("proposed_ready", p),
                                       To("vehicle_list_0", v)>>
        BY <2>1, <2>3 DEF CreateWrites
      <3>2. Writes(CreateWrites(lookup))
              = {To("proposed_ready", p), To("vehicle_list_0", v)}
        BY <3>1, WritesOfTuple
      <3> QED
        BY <3>2
    <2> QED
      BY <2>2, <2>3
  <1> HIDE DEF plain
  <1> QED
    BY <1>1, <1>2, <1>3, <1>4

\* Only the task that inserts a batch acknowledges its creation, and only a
\* completion acknowledges a completion.
TaskAnswers(t) ==
  \A w \in Writes(queue') :
    \/ w \in Writes(queue)
    \/ /\ Harmless(w)
       /\ w = Created => FinishInsert(t) /\ ActiveIds = {}
       /\ w = Completed => RunComplete(t)

LEMMA TaskAnswersIt ==
  ASSUME TypeOK, NEW t, RunTask(t) \/ DropTask(t)
  PROVE  TaskAnswers(t)
  <1>1. \A ws \in Seq(Bridge!Write) :
          Push(ws) => Writes(queue') \subseteq Writes(queue) \cup Writes(ws)
    BY PushWrites DEF TypeOK, Bridge!BridgeTypeOK
  <1>2. ASSUME NEW ws \in Seq(Bridge!Write), Push(ws),
               \A w \in Writes(ws) : Harmless(w) /\ w # Created /\ w # Completed
        PROVE  TaskAnswers(t)
    BY <1>1, <1>2 DEF TaskAnswers
  <1>3. CASE Push(ConfirmFails)
    BY <1>2, <1>3, WritesType, WritesAre
  <1>4. CASE Push(<<To("operator_confirm", FALSE)>>)
    BY <1>2, <1>4, WritesType, WritesAre
  <1>5. CASE \E lookup \in Lookups : Push(CreateWrites(lookup))
    BY <1>2, <1>5, WritesType, WritesAre
  <1>6. CASE FinishInsert(t) /\ ActiveIds = {} /\ Push(AckCreated)
    BY <1>1, <1>6, WritesType, WritesAre DEF TaskAnswers
  <1>7. CASE RunComplete(t)
    <2>1. Push(<<Completed>>)
      BY <1>7 DEF RunComplete, Completed
    <2>2. Writes(queue') \subseteq Writes(queue) \cup Writes(<<Completed>>)
      BY <1>1, <2>1, WritesType DEF Completed
    <2> QED
      BY <1>7, <2>2, WritesAre DEF TaskAnswers
  <1>8. CASE UNCHANGED queue
    BY <1>8 DEF TaskAnswers
  <1> QED
    BY <1>3, <1>4, <1>5, <1>6, <1>7, <1>8
    DEF RunTask, RunCreate, RejectConfirm, BeginInsert, FinishInsert,
        RunStopped, DropTask

\* No task makes another one: what remains was there, but for its stage.
LEMMA TasksRemain ==
  ASSUME TypeOK, NEW t \in BagToSet(tasks), RunTask(t) \/ DropTask(t),
         NEW u \in BagToSet(tasks')
  PROVE  \E v \in BagToSet(tasks) :
           u.kind = v.kind /\ u.cycle = v.cycle /\ u.weights = v.weights
  <1>1. IsABag(tasks) /\ t \in TaskType
    BY DEF TypeOK
  <1>2. BagToSet(tasks (-) SetToBag({t})) \subseteq BagToSet(tasks)
        /\ IsABag(tasks (-) SetToBag({t}))
    BY <1>1, SetToBagType, BagSubType
  <1>3. CASE Done(t)
    BY <1>2, <1>3 DEF Done
  <1>4. CASE tasks' = (tasks (-) SetToBag({t}))
                         (+) SetToBag({[t EXCEPT !.stage = "inserting"]})
    <2> DEFINE n == [t EXCEPT !.stage = "inserting"]
    <2>1. n.kind = t.kind /\ n.cycle = t.cycle /\ n.weights = t.weights
      BY <1>1 DEF TaskType
    <2>2. BagToSet(tasks') = BagToSet(tasks (-) SetToBag({t})) \cup {n}
      BY <1>2, <1>4, SetToBagType, BagAddType
    <2> HIDE DEF n
    <2> QED
      BY <1>2, <2>1, <2>2
  <1> QED
    BY <1>3, <1>4
    DEF RunTask, RunCreate, RejectConfirm, BeginInsert, FinishInsert,
        RunComplete, RunStopped, DropTask

\* The batch a task of this cycle inserts is the cycle's own.
LEMMA InsertOpens ==
  ASSUME TypeOK, NEW t, t.cycle = cycle, cycle' = cycle,
         FinishInsert(t), ActiveIds = {}
  PROVE  OwnOpen'
  <1> DEFINE r == [cycle |-> t.cycle, weights |-> 0, status |-> "active"]
  <1>1. batches' = Append(batches, r) /\ batches \in Seq(BatchType)
    BY DEF FinishInsert, TypeOK
  <1>2. Len(batches) \in Nat /\ Len(batches') = Len(batches) + 1
        /\ batches'[Len(batches) + 1] = r
    BY <1>1
  <1>3. r.status = "active" /\ r.cycle = cycle'
    OBVIOUS
  <1> HIDE DEF r
  <1>4. Len(batches) + 1 \in ActiveIds'
    BY <1>2, <1>3 DEF ActiveIds
  <1> QED
    BY <1>2, <1>3, <1>4 DEF OwnOpen

\* While a batch is active only a completion or a stop changes the table.
LEMMA OpenStays ==
  ASSUME NEW t, RunTask(t) \/ DropTask(t), ActiveIds # {},
         t.kind # "autogas_batch_complete", t.kind # "autogas_batch_stopped"
  PROVE  batches' = batches
  BY DEF RunTask, RunCreate, RejectConfirm, BeginInsert, FinishInsert,
         RunComplete, RunStopped, DropTask, Waiting

LEMMA CeleryLink ==
  ASSUME CycleInv, Celery
  PROVE  LinkInv' /\ OwnInv'
  <1>1. PICK t \in BagToSet(tasks) : RunTask(t) \/ DropTask(t)
    BY DEF Celery
  <1>2. UNCHANGED <<plc, snap, step, cycle>>
    BY DEF Celery, plcVars
  <1>3. TypeOK /\ TableInv /\ LinkInv /\ OwnInv /\ TaskFits(t)
    BY <1>1 DEF CycleInv, TableInv, LinkInv
  <1>4. TaskAnswers(t)
    BY <1>1, <1>3, TaskAnswersIt
  <1>5. ASSUME NEW u \in BagToSet(tasks')
        PROVE  TaskFits(u)'
    <2>1. PICK v \in BagToSet(tasks) : u.kind = v.kind /\ u.cycle = v.cycle
      BY <1>1, <1>3, <1>5, TasksRemain
    <2>2. TaskFits(v)
      BY <1>3, <2>1 DEF LinkInv
    <2> QED
      BY <1>2, <2>1, <2>2 DEF TaskFits
  <1>6. \A w \in Writes(queue') : Harmless(w)
    BY <1>3, <1>4 DEF TaskAnswers, LinkInv
  <1>7. LinkInv'
    BY <1>2, <1>3, <1>5, <1>6 DEF LinkInv, Harmless
  <1>8. ASSUME "stop_batch" \notin plc, step \in 1 .. 4, OwnOpen
        PROVE  OwnOpen'
    <2>1. ActiveIds # {}
      BY <1>8 DEF OwnOpen
    <2>2. /\ t.kind # "autogas_batch_complete"
          /\ t.kind # "autogas_batch_stopped"
      BY <1>3, <1>8 DEF TaskFits
    <2>3. batches' = batches
      BY <1>1, <2>1, <2>2, OpenStays
    <2> QED
      BY <1>2, <1>8, <2>3 DEF OwnOpen, ActiveIds
  <1>9. ASSUME "stop_batch" \notin plc, step = 1,
               Coming("response_batch_create")'
        PROVE  OwnOpen'
    <2>1. CASE Coming("response_batch_create")
      BY <1>3, <1>8, <1>9, <2>1 DEF OwnInv
    <2>2. CASE ~ Coming("response_batch_create")
      <3>1. Created \in Writes(queue') /\ Created \notin Writes(queue)
        BY <1>2, <1>9, <2>2 DEF Coming, Created
      <3>2. FinishInsert(t) /\ ActiveIds = {}
        BY <1>4, <3>1 DEF TaskAnswers
      <3> QED
        BY <1>2, <1>3, <3>2, InsertOpens DEF TaskFits
    <2> QED
      BY <2>1, <2>2
  <1>10. OwnInv'
    BY <1>2, <1>3, <1>8, <1>9 DEF OwnInv
  <1> QED
    BY <1>7, <1>10

LEMMA CycleNext ==
  ASSUME Patient, CycleInv, [Next]_vars
  PROVE  CycleInv'
  <1>1. TypeOK /\ TableInv /\ LinkInv /\ OwnInv
    BY DEF CycleInv, TableInv
  <1>2. TableInv'
    BY <1>1, TableNext DEF TableInv, TableStep
  <1>3. CASE PlcScan
    BY <1>1, <1>2, <1>3, PlcScanLink DEF CycleInv
  <1>4. CASE Panel
    BY <1>1, <1>2, <1>4, PanelLink DEF CycleInv
  <1>5. CASE BridgeConnect \/ UNCHANGED vars
    <2>1. UNCHANGED <<plc, snap, queue, step, cycle, tasks, batches>>
      BY <1>5
      DEF vars, BridgeConnect, Bridge!Connect, plcVars, djangoVars
    <2>2. LinkInv'
      BY <1>1, <2>1 DEF LinkInv, TaskFits, Harmless
    <2>3. OwnInv'
      BY <1>1, <2>1 DEF OwnInv, OwnOpen, ActiveIds, Coming
    <2> QED
      BY <1>2, <2>2, <2>3 DEF CycleInv
  <1>6. CASE BridgeInitialRead \/ BridgePublish \/ BridgePublishWeights
    BY <1>1, <1>2, <1>6, ReadHears, HearsLink DEF CycleInv
  <1>7. CASE BridgeWrite \/ BridgeLoss
    BY <1>1, <1>2, <1>7, BridgeDelivers, DeliversLink DEF CycleInv
  <1>8. CASE Celery
    BY <1>2, <1>8, CeleryLink DEF CycleInv
  <1> QED
    BY <1>3, <1>4, <1>5, <1>6, <1>7, <1>8 DEF Next

LEMMA CycleInit == Init => CycleInv
  <1> SUFFICES ASSUME Init PROVE CycleInv
    OBVIOUS
  <1>1. /\ step = 0 /\ plc = {} /\ tasks = EmptyBag /\ queue = <<>>
    BY DEF Init, Bridge!BridgeInit
  <1>2. BagToSet(tasks) = {} /\ Writes(queue) = {}
    BY <1>1, SetToBagType DEF EmptyBag, Writes
  <1>3. LinkInv /\ OwnInv
    BY <1>1, <1>2 DEF LinkInv, OwnInv
  <1> QED
    BY <1>3, TableInit DEF CycleInv

LEMMA CycleInvariant ==
  ASSUME Patient
  PROVE  Spec => []CycleInv
  <1>1. CycleInv /\ [Next]_vars => CycleInv'
    BY CycleNext
  <1> QED
    BY <1>1, CycleInit, PTL DEF Spec

\* The batch the PLC starts is the active batch of its own cycle, whatever is
\* lost, repeated, dropped or stopped on the way, as long as the operator does
\* not start a cycle while anything of the last one is under way.
THEOREM RunsOwnBatchHolds ==
  ASSUME Patient
  PROVE  Spec => RunsOwnBatch
  <1>1. CycleInv /\ [Next]_vars =>
          [step = 1 /\ step' = 2 =>
             \E i \in ActiveIds : batches[i].cycle = cycle]_vars
    <2> SUFFICES ASSUME CycleInv, Next, step = 1, step' = 2
                 PROVE  \E i \in ActiveIds : batches[i].cycle = cycle
      OBVIOUS
    <2>1. PlcScan
      <3>1. step' # step
        OBVIOUS
      <3> QED
        BY <3>1
        DEF Next, Panel, BridgeConnect, BridgeInitialRead, BridgePublish,
            BridgePublishWeights, BridgeWrite, BridgeLoss, Celery, plcVars
    <2>2. PlcActivate
      BY <2>1 DEF PlcScan, PlcStop, PlcIdle, PlcStart, PlcAdvance, PlcWeigh,
                  PlcFinish, plcVars
    <2> QED
      BY <2>2 DEF PlcActivate, CycleInv, OwnInv, OwnOpen, Coming
  <1> QED
    BY <1>1, CycleInvariant, PTL DEF Spec, RunsOwnBatch

-----------------------------------------------------------------------------
(* The end of the cycle.  A task carries the weights of the snapshot it was *)
(* sent from; they are those of this cycle if the server reports them no   *)
(* later than the request they belong to.                                  *)

WeightsWithRequest ==
  \A S \in Blocks :
    S \cap {"request_batch_complete", "response_batch_complete"} # {}
      => "weights" \in S

SavedInv ==
  /\ step = 5 =>
       /\ weighed = cycle
       /\ \A t \in BagToSet(tasks) :
            t.kind = "autogas_batch_complete" => t.weights = cycle
       /\ "stop_batch" \notin plc => OwnOpen \/ OwnSaved
  /\ Coming("response_batch_complete") =>
       /\ step \in {0, 5}
       /\ step = 5 /\ "stop_batch" \notin plc => OwnSaved

\* The trigger of the completion rises with its request or its response.
LEMMA CompleteHeard ==
  ASSUME NEW S \in Blocks, WeightsWithRequest,
         "autogas_batch_complete" \in Bridge!PublishFires(S)
  PROVE  "weights" \in S
  <1> DEFINE ask == "request_batch_complete"
             ack == "response_batch_complete"
  <1>1. PICK tag \in Bridge!Heard(S) :
          Bridge!MayFire("autogas_batch_complete",
            Bridge!Merged(S, Rank[tag] - 1), Bridge!Merged(S, Rank[tag]), FALSE)
    BY DEF Bridge!PublishFires
  <1>2. /\ Bridge!Active("autogas_batch_complete", Bridge!Merged(S, Rank[tag]))
        /\ ~ Bridge!Active("autogas_batch_complete",
                           Bridge!Merged(S, Rank[tag] - 1))
    BY <1>1 DEF Bridge!MayFire
  <1>3. \A s : Bridge!Active("autogas_batch_complete", s) <=>
                 ask \in s /\ ack \notin s
    BY DEF Bridge!Active, Pos, Neg
  <1>4. \A i, item : item \notin Bridge!Heard(S) =>
          (item \in Bridge!Merged(S, i) <=> item \in snap)
    BY DEF Bridge!Merged
  <1>5. ask \in Bridge!Heard(S) \/ ack \in Bridge!Heard(S)
    BY <1>2, <1>3, <1>4
  <1>6. ask \in S \/ ack \in S
    BY <1>5 DEF Bridge!Heard
  <1> QED
    BY <1>6 DEF WeightsWithRequest

\* A completion that is sent in step 5 carries the weights of the cycle.
LEMMA SentWeights ==
  ASSUME TypeOK, WeightsWithRequest, weighed = cycle,
         BridgeInitialRead \/ BridgePublish \/ BridgePublishWeights,
         NEW t \in BagToSet(tasks'), t.kind = "autogas_batch_complete"
  PROVE  t \in BagToSet(tasks) \/ t.weights = cycle
  <1>1. \A fires : \A sent \in SentOf(fires) : sent \subseteq fires
    BY DEF SentOf
  <1>2. CASE BridgeInitialRead
    <2>1. PICK sent \in SentOf(Bridge!InitialReadFires) :
            tasks' = tasks (+) SetToBag({NewTask(tr, weighed) : tr \in sent})
      BY <1>2 DEF BridgeInitialRead
    <2>2. BagToSet(tasks') = BagToSet(tasks) \cup {NewTask(tr, weighed) : tr \in sent}
      BY <2>1, SentTasks
    <2>3. \A tr : NewTask(tr, weighed).weights = cycle
      BY DEF NewTask
    <2> QED
      BY <2>2, <2>3
  <1>3. CASE BridgePublish
    <2>1. PICK S \in Blocks : \E sent \in SentOf(Bridge!PublishFires(S)) :
            /\ seen' = IF "weights" \in S THEN weighed ELSE seen
            /\ tasks' = tasks (+) SetToBag({NewTask(tr, seen') : tr \in sent})
      BY <1>3 DEF BridgePublish
    <2>2. PICK sent \in SentOf(Bridge!PublishFires(S)) :
            /\ seen' = IF "weights" \in S THEN weighed ELSE seen
            /\ tasks' = tasks (+) SetToBag({NewTask(tr, seen') : tr \in sent})
      BY <2>1
    <2>3. BagToSet(tasks') = BagToSet(tasks) \cup {NewTask(tr, seen') : tr \in sent}
      BY <2>2, SentTasks
    <2>4. \A tr : NewTask(tr, seen').weights = seen' /\ NewTask(tr, seen').kind = tr
      BY DEF NewTask
    <2>5. CASE t \notin BagToSet(tasks)
      <3>1. t.kind \in sent /\ t.weights = seen'
        BY <2>3, <2>4, <2>5
      <3>2. "weights" \in S
        BY <1>1, <3>1, CompleteHeard
      <3> QED
        BY <2>2, <3>1, <3>2
    <2> QED
      BY <2>5
  <1>4. CASE BridgePublishWeights
    BY <1>4 DEF BridgePublishWeights, djangoVars
  <1> QED
    BY <1>2, <1>3, <1>4

LEMMA HearsSaved ==
  ASSUME CycleInv, SavedInv, WeightsWithRequest,
         BridgeInitialRead \/ BridgePublish \/ BridgePublishWeights
  PROVE  SavedInv'
  <1>1. TypeOK /\ Hears
    BY ReadHears DEF CycleInv, TableInv
  <1>2. UNCHANGED <<plc, queue, step, cycle, weighed, batches>>
    BY <1>1 DEF Hears
  <1>3. /\ OwnOpen' <=> OwnOpen
        /\ OwnSaved' <=> OwnSaved
        /\ Coming("response_batch_complete")' <=> Coming("response_batch_complete")
    BY <1>2 DEF OwnOpen, OwnSaved, ActiveIds, Coming
  <1>4. ASSUME step = 5, NEW t \in BagToSet(tasks'),
               t.kind = "autogas_batch_complete"
        PROVE  t.weights = cycle
    BY <1>1, <1>4, SentWeights DEF SavedInv
  <1> QED
    BY <1>2, <1>3, <1>4 DEF SavedInv

LEMMA DeliversSaved ==
  ASSUME SavedInv, Delivers
  PROVE  SavedInv'
  <1>1. /\ OwnOpen' <=> OwnOpen
        /\ OwnSaved' <=> OwnSaved
    BY DEF Delivers, OwnOpen, OwnSaved, ActiveIds
  <1>2. Coming("response_batch_complete")' => Coming("response_batch_complete")
    BY DEF Delivers, Coming
  <1> QED
    BY <1>1, <1>2 DEF Delivers, SavedInv

LEMMA PlcScanSaved ==
  ASSUME Patient, CycleInv, SavedInv, PlcScan
  PROVE  SavedInv'
  <1>1. UNCHANGED <<queue, tasks, batches>>
    BY DEF PlcScan, djangoVars
  <1>2. step \in 0 .. 5
    BY DEF CycleInv, TableInv, TypeOK
  <1>3. CASE PlcStop \/ PlcIdle \/ PlcFinish
    BY <1>3 DEF PlcStop, PlcIdle, PlcFinish, plcVars, SavedInv
  <1>4. CASE PlcStart
    <2>1. queue = <<>> /\ plc' = {"request_batch_create"} /\ step' = 1
      BY <1>4 DEF PlcStart, Settled
    <2>2. Writes(queue') = {}
      BY <1>1, <2>1 DEF Writes
    <2> QED
      BY <2>1, <2>2 DEF SavedInv, Coming
  <1>5. CASE PlcActivate \/ PlcAdvance
    <2>1. step \in 1 .. 4 /\ step' \in 1 .. 4 /\ plc' \subseteq plc
      BY <1>5 DEF PlcActivate, PlcAdvance
    <2>2. Coming("response_batch_complete")' => Coming("response_batch_complete")
      BY <1>1, <2>1 DEF Coming
    <2> QED
      BY <2>1, <2>2 DEF SavedInv
  <1>6. CASE PlcWeigh
    <2>1. /\ step = 4 /\ step' = 5 /\ weighed' = cycle /\ cycle' = cycle
          /\ "stop_batch" \notin plc
          /\ plc' = plc \cup {"request_batch_complete"}
      BY <1>6 DEF PlcWeigh
    <2>2. \A t \in BagToSet(tasks) : t.kind # "autogas_batch_complete"
      BY <2>1 DEF CycleInv, LinkInv, TaskFits
    <2>3. OwnOpen'
      <3>1. OwnOpen
        BY <2>1 DEF CycleInv, OwnInv
      <3> QED
        BY <1>1, <2>1, <3>1 DEF OwnOpen, ActiveIds
    <2>4. ~ Coming("response_batch_complete")
      BY <2>1 DEF SavedInv
    <2>5. ~ Coming("response_batch_complete")'
      BY <1>1, <2>1, <2>4 DEF Coming
    <2> QED
      BY <1>1, <2>1, <2>2, <2>3, <2>5 DEF SavedInv
  <1> QED
    BY <1>3, <1>4, <1>5, <1>6 DEF PlcScan

LEMMA PanelSaved ==
  ASSUME SavedInv, Panel
  PROVE  SavedInv'
  <1>1. /\ UNCHANGED <<queue, step, cycle, weighed, tasks, batches>>
        /\ plc' = plc \cup {"stop_batch"} \/ plc' = plc \cup {"operator_confirm"}
    BY DEF Panel, PressStop, PressConfirm, plcVars, djangoVars
  <1>2. "response_batch_complete" \in plc' => "response_batch_complete" \in plc
    BY <1>1
  <1>3. /\ OwnOpen' <=> OwnOpen
        /\ OwnSaved' <=> OwnSaved
        /\ Coming("response_batch_complete")' => Coming("response_batch_complete")
    BY <1>1, <1>2 DEF OwnOpen, OwnSaved, ActiveIds, Coming
  <1> QED
    BY <1>1, <1>3 DEF SavedInv

\* A saved batch stays saved; an open one stays open until it is saved.
LEMMA SavedStays ==
  ASSUME TableStep, batches \in Seq(BatchType), OwnSaved, cycle' = cycle
  PROVE  OwnSaved'
  <1>1. PICK i \in 1 .. Len(batches) :
          /\ batches[i].cycle = cycle
          /\ batches[i].status = "completed"
          /\ batches[i].weights = cycle
    BY DEF OwnSaved
  <1>2. batches'[i] = batches[i] /\ Len(batches') >= Len(batches)
    BY <1>1 DEF TableStep, RowsStay
  <1>3. i \in 1 .. Len(batches')
    <2>1. Len(batches) \in Nat /\ Len(batches') \in Nat
      BY DEF TableStep
    <2> QED
      BY <1>2, <2>1
  <1> QED
    BY <1>1, <1>2, <1>3 DEF OwnSaved

LEMMA CompleteSaves ==
  ASSUME TableInv, NEW t, RunComplete(t), t.weights = cycle, cycle' = cycle,
         OwnOpen
  PROVE  OwnSaved'
  <1>1. PICK i \in ActiveIds : batches[i].cycle = cycle
    BY DEF OwnOpen
  <1>2. ActiveIds # {} /\ Latest \in ActiveIds
    BY <1>1, LatestIsActive DEF TableInv
  <1>3. Latest = i
    BY <1>1, <1>2 DEF TableInv, OneActiveBatch
  <1> DEFINE r == [batches[Latest] EXCEPT !.status = "completed",
                                          !.weights = t.weights]
  <1>4. batches' = [batches EXCEPT ![Latest] = r]
    BY <1>2 DEF RunComplete
  <1>5. Latest \in 1 .. Len(batches) /\ batches \in Seq(BatchType)
    BY <1>2 DEF ActiveIds, TableInv, TypeOK
  <1>6. batches[Latest] \in BatchType
    BY <1>5
  <1>7. r.cycle = cycle /\ r.status = "completed" /\ r.weights = cycle
    BY <1>1, <1>3, <1>6 DEF BatchType
  <1> HIDE DEF r
  <1>8. Len(batches') = Len(batches) /\ batches'[Latest] = r
    BY <1>4, <1>5
  <1> QED
    BY <1>5, <1>7, <1>8 DEF OwnSaved

LEMMA CelerySaved ==
  ASSUME CycleInv, SavedInv, Celery
  PROVE  SavedInv'
  <1>1. PICK t \in BagToSet(tasks) : RunTask(t) \/ DropTask(t)
    BY DEF Celery
  <1>2. UNCHANGED <<plc, step, cycle, weighed>>
    BY DEF Celery, plcVars
  <1>3. /\ TypeOK /\ TableInv /\ TaskFits(t)
        /\ batches \in Seq(BatchType) /\ step \in 0 .. 5
    BY <1>1 DEF CycleInv, LinkInv, TableInv, TypeOK
  <1>4. TableStep
    BY <1>1, <1>3, TaskStep
  <1>5. TaskAnswers(t)
    BY <1>1, <1>3, TaskAnswersIt
  <1>6. ASSUME step = 5, NEW u \in BagToSet(tasks'),
               u.kind = "autogas_batch_complete"
        PROVE  u.weights = cycle
    <2>1. PICK v \in BagToSet(tasks) : u.kind = v.kind /\ u.weights = v.weights
      BY <1>1, <1>3, <1>6, TasksRemain
    <2> QED
      BY <1>6, <2>1 DEF SavedInv
  <1>7. OwnSaved => OwnSaved'
    BY <1>2, <1>3, <1>4, SavedStays
  <1>8. ASSUME step = 5, "stop_batch" \notin plc
        PROVE  /\ OwnOpen' \/ OwnSaved'
               /\ RunComplete(t) => OwnSaved'
    <2>1. CASE OwnSaved
      BY <1>7, <2>1
    <2>2. CASE ~ OwnSaved
      <3>1. OwnOpen /\ ActiveIds # {}
        BY <1>8, <2>2 DEF SavedInv, OwnOpen
      <3>2. t.kind # "autogas_batch_stopped"
        BY <1>3, <1>8 DEF TaskFits
      <3>3. CASE RunComplete(t)
        <4>1. t.weights = cycle
          BY <1>1, <1>8, <3>3 DEF RunComplete, Waiting, SavedInv
        <4> QED
          BY <1>2, <1>3, <3>1, <3>3, <4>1, CompleteSaves
      <3>4. CASE ~ RunComplete(t)
        <4>1. batches' = batches
          BY <1>1, <3>1, <3>2, <3>4
          DEF RunTask, RunCreate, RejectConfirm, BeginInsert, FinishInsert,
              RunStopped, DropTask, Waiting
        <4> QED
          BY <1>2, <3>1, <3>4, <4>1 DEF OwnOpen, ActiveIds
      <3> QED
        BY <3>3, <3>4
    <2> QED
      BY <2>1, <2>2
  <1>9. ASSUME Coming("response_batch_complete")'
        PROVE  /\ step \in {0, 5}
               /\ step = 5 /\ "stop_batch" \notin plc => OwnSaved'
    <2>1. CASE Coming("response_batch_complete")
      BY <1>7, <2>1 DEF SavedInv
    <2>2. CASE ~ Coming("response_batch_complete")
      <3>1. Completed \in Writes(queue') /\ Completed \notin Writes(queue)
        BY <1>2, <1>9, <2>2 DEF Coming, Completed
      <3>2. RunComplete(t)
        BY <1>5, <3>1 DEF TaskAnswers
      <3>3. step \in {0, 5}
        BY <1>3, <3>2 DEF RunComplete, Waiting, TaskFits
      <3> QED
        BY <1>8, <3>2, <3>3
    <2> QED
      BY <2>1, <2>2
  <1> QED
    BY <1>2, <1>6, <1>8, <1>9 DEF SavedInv

LEMMA SavedNext ==
  ASSUME Patient, WeightsWithRequest, CycleInv, SavedInv, [Next]_vars
  PROVE  SavedInv'
  <1>1. TypeOK /\ LinkInv
    BY DEF CycleInv, TableInv
  <1>2. CASE PlcScan
    BY <1>2, PlcScanSaved
  <1>3. CASE Panel
    BY <1>3, PanelSaved
  <1>4. CASE BridgeConnect \/ UNCHANGED vars
    <2>1. UNCHANGED <<plc, queue, step, cycle, weighed, tasks, batches>>
      BY <1>4 DEF vars, BridgeConnect, Bridge!Connect, plcVars, djangoVars
    <2> QED
      BY <2>1 DEF SavedInv, OwnOpen, OwnSaved, ActiveIds, Coming
  <1>5. CASE BridgeInitialRead \/ BridgePublish \/ BridgePublishWeights
    BY <1>5, HearsSaved
  <1>6. CASE BridgeWrite \/ BridgeLoss
    BY <1>1, <1>6, BridgeDelivers, DeliversSaved
  <1>7. CASE Celery
    BY <1>7, CelerySaved
  <1> QED
    BY <1>2, <1>3, <1>4, <1>5, <1>6, <1>7 DEF Next

\* Without a stop the PLC closes a cycle only when the batch of this very
\* cycle is saved with this cycle's weights, whatever is lost, repeated or
\* dropped on the way, if the server reports the weights with the request.
THEOREM FinishesSavedHolds ==
  ASSUME Patient, WeightsWithRequest
  PROVE  Spec => FinishesSaved
  <1> DEFINE Closes ==
        step = 5 /\ step' = 0 /\ "stop_batch" \notin plc =>
          \E i \in 1 .. Len(batches) :
            /\ batches[i].cycle = cycle
            /\ batches[i].status = "completed"
            /\ batches[i].weights = cycle
  <1>1. Init => SavedInv
    <2>1. Init => step = 0 /\ plc = {} /\ queue = <<>>
      BY DEF Init, Bridge!BridgeInit
    <2> QED
      BY <2>1 DEF SavedInv
  <1>2. CycleInv /\ SavedInv /\ [Next]_vars => SavedInv'
    BY SavedNext
  <1>3. CycleInv /\ SavedInv /\ [Next]_vars => [Closes]_vars
    <2> SUFFICES ASSUME CycleInv, SavedInv, Next, step = 5, step' = 0,
                        "stop_batch" \notin plc
                 PROVE  OwnSaved
      BY DEF OwnSaved
    <2>1. step' # step
      OBVIOUS
    <2>2. PlcScan
      BY <2>1
      DEF Next, Panel, BridgeConnect, BridgeInitialRead, BridgePublish,
          BridgePublishWeights, BridgeWrite, BridgeLoss, Celery, plcVars
    <2>3. PlcFinish
      BY <2>2 DEF PlcScan, PlcStop, PlcIdle, PlcStart, PlcActivate, PlcAdvance,
                  PlcWeigh
    <2> QED
      BY <2>3 DEF PlcFinish, SavedInv, Coming
  <1> QED
    BY <1>1, <1>2, <1>3, CycleInvariant, PTL DEF Spec, FinishesSaved

-----------------------------------------------------------------------------
(* The contract, for a column that nobody stops and a bridge that loses no *)
(* write.  Tasks may still fail, expire or die.                            *)

Undisturbed ==
  /\ MaxStops = 0 /\ MaxDrops = 0 /\ "unknown_type" \notin Lookups
  /\ Faults \cap {"refused", "unconfirmed"} = {}

\* The PLC takes request and response back in one scan, and the server does not
\* report the latter, or the button, without the former.
RequestWithAnswer ==
  \A S \in Blocks :
    S \cap {"response_batch_create", "operator_confirm"} # {}
      => "request_batch_create" \in S

TakeBack == To("operator_confirm", FALSE)

\* What the tasks write when nothing goes wrong.
Quiet(w) ==
  /\ w.tag \notin {"stop_batch", "request_batch_create"}
  /\ w.tag = "response_batch_create" => w.val = TRUE
  /\ w.tag = "operator_confirm" => w.val = FALSE

LineInv ==
  /\ "stop_batch" \notin plc
  /\ \A w \in Writes(queue) : Quiet(w)
  /\ ~ orphan /\ (initialized <=> link = "up")
  /\ link # "up" => BagToSet(tasks) = {} /\ queue = <<>> /\ ActiveIds = {}

OnceIn(q, w) == \A i, j \in 1 .. Len(q) : q[i] = w /\ q[j] = w => i = j

\* Request, button and response, in the PLC and in the eyes of the dispatcher.
TagsInv ==
  /\ step = 1 <=> "request_batch_create" \in plc
  /\ link = "up" =>
       ("request_batch_create" \in sampled <=> "request_batch_create" \in snap)
  /\ step = 1 => /\ "response_batch_create" \in snap => "response_batch_create" \in plc
                 /\ "operator_confirm" \in snap => "request_batch_create" \in snap
  /\ step = 0 => "operator_confirm" \notin plc
  /\ Coming("response_batch_create") => step = 1
  /\ "response_batch_create" \in plc => Created \notin Writes(queue)
  /\ OnceIn(queue, Created)

Confirms(B) == {t \in BagToSet(B) : t.kind = "autogas_operator_confirm"}
Alone(B) == \A t \in Confirms(B) : B[t] = 1 /\ \A u \in Confirms(B) : u = t

\* The button is taken back after the answer.
Led(q) ==
  \A j \in 1 .. Len(q) : q[j] = TakeBack => \E i \in 1 .. Len(q) : i < j /\ q[i] = Created

\* One confirm task at a time, and none once the batch is there: until the
\* response stands in PLC and snapshot, the button does.
ConfirmInv ==
  /\ OnceIn(queue, TakeBack)
  /\ step = 1 /\ TakeBack \in Writes(queue) => "operator_confirm" \in plc \cap snap
  /\ Alone(tasks)
  /\ Confirms(tasks) # {} =>
       /\ step = 1 /\ ActiveIds = {} /\ TakeBack \notin Writes(queue)
       /\ "operator_confirm" \in plc \cap snap
  /\ step = 1 /\ ActiveIds # {} =>
       /\ "operator_confirm" \in plc \cap snap \/ "response_batch_create" \in plc \cap snap
       /\ "response_batch_create" \in plc \cap snap \/ Led(queue)

\* A cycle has one row, and no other row is active.
RowsInv ==
  /\ \A i \in 1 .. Len(batches) : batches[i].cycle <= cycle
  /\ \A i, j \in 1 .. Len(batches) :
       batches[i].cycle = cycle /\ batches[j].cycle = cycle => i = j
  /\ \A i \in ActiveIds : batches[i].cycle = cycle
  /\ step = 0 => ActiveIds = {}
  /\ step = 1 => \A i \in 1 .. Len(batches) : batches[i].cycle = cycle => i \in ActiveIds

QuietInv == LineInv /\ TagsInv /\ ConfirmInv /\ RowsInv

\* The head of the queue is taken.
LEMMA PopQueue ==
  ASSUME NEW W, NEW q \in Seq(W), q # <<>>
  PROVE  /\ \A w : OnceIn(q, w) =>
              OnceIn(Tail(q), w) /\ (Head(q) = w => w \notin Writes(Tail(q)))
         /\ Led(q) => Head(q) = Created \/ (Head(q) # TakeBack /\ Led(Tail(q)))
  <1>1. /\ Len(q) \in Nat \ {0} /\ Head(q) = q[1] /\ Len(Tail(q)) = Len(q) - 1
        /\ \A i \in 1 .. Len(Tail(q)) : Tail(q)[i] = q[i + 1]
    BY HeadTailProperties
  <1>2. \A i \in 1 .. Len(Tail(q)) : i + 1 \in 1 .. Len(q) /\ i \in Nat /\ i + 1 # 1
    BY <1>1
  <1>3. ASSUME NEW w, OnceIn(q, w)
        PROVE  OnceIn(Tail(q), w) /\ (Head(q) = w => w \notin Writes(Tail(q)))
    <2>1. ASSUME NEW i \in 1 .. Len(Tail(q)), NEW j \in 1 .. Len(Tail(q)),
                 Tail(q)[i] = w, Tail(q)[j] = w
          PROVE  i = j
      <3>1. i + 1 = j + 1
        BY <1>1, <1>2, <1>3, <2>1 DEF OnceIn
      <3> QED
        BY <1>2, <3>1
    <2>2. ASSUME Head(q) = w, NEW i \in 1 .. Len(Tail(q)), Tail(q)[i] = w
          PROVE  FALSE
      <3>1. 1 \in 1 .. Len(q)
        BY <1>1
      <3>2. i + 1 = 1
        BY <1>1, <1>2, <1>3, <2>2, <3>1 DEF OnceIn
      <3> QED
        BY <1>2, <3>2
    <2> QED
      BY <2>1, <2>2 DEF OnceIn, Writes
  <1>4. ASSUME Led(q), Head(q) # Created
        PROVE  Head(q) # TakeBack /\ Led(Tail(q))
    <2>1. Head(q) # TakeBack
      <3>1. 1 \in 1 .. Len(q) /\ \A i \in 1 .. Len(q) : ~ (i < 1)
        BY <1>1
      <3> QED
        BY <1>1, <1>4, <3>1 DEF Led
    <2>2. ASSUME NEW j \in 1 .. Len(Tail(q)), Tail(q)[j] = TakeBack
          PROVE  \E i \in 1 .. Len(Tail(q)) : i < j /\ Tail(q)[i] = Created
      <3>1. PICK i \in 1 .. Len(q) : i < j + 1 /\ q[i] = Created
        BY <1>1, <1>2, <1>4, <2>2 DEF Led
      <3>2. i # 1
        BY <1>1, <1>4, <3>1
      <3>3. i - 1 \in 1 .. Len(Tail(q)) /\ i - 1 < j /\ (i - 1) + 1 = i
        BY <1>1, <2>2, <3>1, <3>2
      <3> QED
        BY <1>1, <3>1, <3>3
    <2> QED
      BY <2>1, <2>2 DEF Led
  <1> QED
    BY <1>3, <1>4

\* A worker pushes what it writes, or the first part of it.
LEMMA PushQueue ==
  ASSUME queue \in Seq(Bridge!Write), NEW ws \in Seq(Bridge!Write), Push(ws)
  PROVE  /\ \A w : /\ OnceIn(queue, w) /\ OnceIn(ws, w)
                   /\ w \notin Writes(queue) \/ w \notin Writes(ws)
                   => OnceIn(queue', w)
         /\ Led(queue) /\ Led(ws) => Led(queue')
  <1>1. PICK vs \in Seq(Bridge!Write) :
          /\ queue' = queue \o vs
          /\ Len(vs) <= Len(ws)
          /\ \A i \in 1 .. Len(vs) : vs[i] = ws[i]
    BY PushIs
  <1> DEFINE n == Len(queue)
  <1>2. /\ n \in Nat /\ Len(vs) \in Nat /\ Len(ws) \in Nat
        /\ Len(queue') = n + Len(vs)
        /\ \A i \in 1 .. n + Len(vs) :
             queue'[i] = IF i <= n THEN queue[i] ELSE vs[i - n]
    BY <1>1, ConcatProperties
  <1>3. \A i \in 1 .. Len(queue') :
          \/ i \in 1 .. n /\ queue'[i] = queue[i]
          \/ i > n /\ i - n \in 1 .. Len(vs) /\ i - n \in 1 .. Len(ws)
             /\ queue'[i] = ws[i - n]
    BY <1>1, <1>2
  <1>4. /\ \A i \in 1 .. n : i \in 1 .. Len(queue') /\ queue'[i] = queue[i]
        /\ \A i \in 1 .. Len(vs) : i + n \in 1 .. Len(queue') /\ queue'[i + n] = vs[i]
    <2>1. \A i \in 1 .. n : i \in 1 .. Len(queue') /\ queue'[i] = queue[i]
      BY <1>2
    <2>2. ASSUME NEW i \in 1 .. Len(vs)
          PROVE  i + n \in 1 .. Len(queue') /\ queue'[i + n] = vs[i]
      <3>1. i + n \in 1 .. n + Len(vs) /\ ~ (i + n <= n) /\ (i + n) - n = i
        BY <1>2
      <3> QED
        BY <1>2, <3>1
    <2> QED
      BY <2>1, <2>2
  <1>5. ASSUME NEW w, OnceIn(queue, w), OnceIn(ws, w),
               w \notin Writes(queue) \/ w \notin Writes(ws),
               NEW i \in 1 .. Len(queue'), NEW j \in 1 .. Len(queue'),
               queue'[i] = w, queue'[j] = w
        PROVE  i = j
    <2>1. CASE w \notin Writes(queue)
      <3>1. \A k \in 1 .. n : queue[k] # w
        BY <2>1 DEF Writes
      <3>2. /\ i - n \in 1 .. Len(ws) /\ ws[i - n] = w
            /\ j - n \in 1 .. Len(ws) /\ ws[j - n] = w
        BY <1>3, <1>5, <3>1
      <3>3. i - n = j - n
        BY <1>5, <3>2 DEF OnceIn
      <3> QED
        BY <1>2, <3>3
    <2>2. CASE w \notin Writes(ws)
      <3>1. \A k \in 1 .. Len(ws) : ws[k] # w
        BY <2>2 DEF Writes
      <3>2. i \in 1 .. n /\ j \in 1 .. n /\ queue[i] = w /\ queue[j] = w
        BY <1>3, <1>5, <3>1
      <3> QED
        BY <1>5, <3>2 DEF OnceIn
    <2> QED
      BY <1>5, <2>1, <2>2
  <1>6. ASSUME Led(queue), Led(ws), NEW j \in 1 .. Len(queue'), queue'[j] = TakeBack
        PROVE  \E i \in 1 .. Len(queue') : i < j /\ queue'[i] = Created
    <2>1. CASE j \in 1 .. n
      <3>1. PICK i \in 1 .. n : i < j /\ queue[i] = Created
        BY <1>4, <1>6, <2>1 DEF Led
      <3> QED
        BY <1>4, <3>1
    <2>2. CASE j \notin 1 .. n
      <3>1. /\ j - n \in 1 .. Len(vs) /\ j - n \in 1 .. Len(ws) /\ ws[j - n] = TakeBack
        BY <1>3, <1>6, <2>2
      <3>2. PICK k \in 1 .. Len(ws) : k < j - n /\ ws[k] = Created
        BY <1>6, <3>1 DEF Led
      <3>3. k \in 1 .. Len(vs) /\ k + n < j
        BY <1>2, <3>1, <3>2
      <3>4. k + n \in 1 .. Len(queue') /\ queue'[k + n] = Created
        BY <1>1, <1>4, <3>2, <3>3
      <3> QED
        BY <3>3, <3>4
    <2> QED
      BY <2>1, <2>2
  <1> QED
    BY <1>5, <1>6 DEF OnceIn, Led

\* How bags of tasks change.
LEMMA AddCounts ==
  ASSUME NEW B, NEW S, IsABag(B)
  PROVE  /\ \A t \in BagToSet(B) \ S : (B (+) SetToBag(S))[t] = B[t]
         /\ \A t \in S \ BagToSet(B) : (B (+) SetToBag(S))[t] = 1
  BY DEF IsABag, SetToBag, BagToSet, (+)

LEMMA TakeCounts ==
  ASSUME NEW B, NEW t, IsABag(B), t \in BagToSet(B)
  PROVE  /\ B[t] = 1 => t \notin BagToSet(B (-) SetToBag({t}))
         /\ \A u \in BagToSet(B (-) SetToBag({t})) : u # t =>
              (B (-) SetToBag({t}))[u] = B[u]
  <1>1. \A u \in DOMAIN B : B[u] \in Nat \ {0}
    BY DEF IsABag
  <1> QED
    BY <1>1 DEF BagToSet, SetToBag, (-)

\* Tasks are sent: a confirmation only when there is none.
LEMMA SendAlone ==
  ASSUME NEW B, NEW S, IsABag(B), Alone(B),
         \A t, u \in S : t.kind = "autogas_operator_confirm"
                           /\ u.kind = "autogas_operator_confirm" =>
                         t = u /\ Confirms(B) = {}
  PROVE  Alone(B (+) SetToBag(S))
  <1> DEFINE C == B (+) SetToBag(S)
  <1>1. BagToSet(C) = BagToSet(B) \cup S
    BY SetToBagType, BagAddType
  <1>2. /\ \A t \in BagToSet(B) \ S : C[t] = B[t]
        /\ \A t \in S \ BagToSet(B) : C[t] = 1
    BY AddCounts
  <1> HIDE DEF C
  <1>3. SUFFICES ASSUME NEW t \in Confirms(C), NEW u \in Confirms(C)
                 PROVE  C[t] = 1 /\ u = t
    BY DEF Alone, C
  <1>4. CASE \E s \in S : s.kind = "autogas_operator_confirm"
    <2>1. Confirms(B) = {}
      BY <1>4
    <2>2. t \in S \ BagToSet(B) /\ u \in S \ BagToSet(B)
      BY <1>1, <1>3, <2>1 DEF Confirms
    <2> QED
      BY <1>2, <1>3, <2>2 DEF Confirms
  <1>5. CASE \A s \in S : s.kind # "autogas_operator_confirm"
    <2>1. t \in BagToSet(B) \ S /\ u \in BagToSet(B) \ S
      BY <1>1, <1>3, <1>5 DEF Confirms
    <2> QED
      BY <1>2, <1>3, <2>1 DEF Confirms, Alone
  <1> QED
    BY <1>4, <1>5

LEMMA TakeAlone ==
  ASSUME NEW B, IsABag(B), Alone(B), NEW t \in BagToSet(B)
  PROVE  /\ Alone(B (-) SetToBag({t}))
         /\ Confirms(B (-) SetToBag({t})) \subseteq Confirms(B)
         /\ t.kind = "autogas_operator_confirm" => Confirms(B (-) SetToBag({t})) = {}
  <1> DEFINE C == B (-) SetToBag({t})
  <1>1. BagToSet(C) \subseteq BagToSet(B)
    BY SetToBagType, BagSubType
  <1>2. /\ B[t] = 1 => t \notin BagToSet(C)
        /\ \A u \in BagToSet(C) : u # t => C[u] = B[u]
    BY TakeCounts
  <1> HIDE DEF C
  <1>3. Confirms(C) \subseteq Confirms(B)
    BY <1>1 DEF Confirms
  <1>4. t.kind = "autogas_operator_confirm" => Confirms(C) = {}
    BY <1>2, <1>3 DEF Confirms, Alone
  <1>5. Alone(C)
    <2>1. ASSUME NEW u \in Confirms(C) PROVE C[u] = 1 /\ \A v \in Confirms(C) : v = u
      <3>1. u # t
        BY <1>4, <2>1 DEF Confirms
      <3> QED
        BY <1>2, <1>3, <2>1, <3>1 DEF Confirms, Alone
    <2> QED
      BY <2>1 DEF Alone
  <1> QED
    BY <1>3, <1>4, <1>5 DEF C

-----------------------------------------------------------------------------
(* What the bridge reads and writes, when nothing goes wrong.              *)

LEMMA MergedIs ==
  ASSUME NEW S, NEW x \in Tags, NEW i \in Int
  PROVE  x \in Bridge!Merged(S, i) <=>
           IF x \in Bridge!Heard(S) /\ Rank[x] <= i THEN x \in plc ELSE x \in snap
  <1>1. Rank[x] \in Int
    BY TagRank
  <1> QED
    BY <1>1 DEF Bridge!Merged

LEMMA ConfirmActive ==
  \A s : Bridge!Active("autogas_operator_confirm", s) <=>
           /\ "operator_confirm" \in s /\ "request_batch_create" \in s
           /\ "response_batch_create" \notin s
  BY DEF Bridge!Active, Pos, Neg

\* A confirmation is sent when the button has been pressed anew, and no batch
\* is there.
LEMMA ConfirmFires ==
  ASSUME TypeOK, RequestWithAnswer, TagsInv, ConfirmInv, link = "up",
         NEW S \in Blocks, "autogas_operator_confirm" \in Bridge!PublishFires(S)
  PROVE  /\ step = 1 /\ ActiveIds = {}
         /\ "operator_confirm" \in plc \cap Bridge!Heard(S)
         /\ "operator_confirm" \notin snap
  <1> DEFINE ask == "request_batch_create"
             ack == "response_batch_create"
             press == "operator_confirm"
  <1>1. PICK tag \in Bridge!Heard(S) :
          Bridge!MayFire("autogas_operator_confirm",
            Bridge!Merged(S, Rank[tag] - 1), Bridge!Merged(S, Rank[tag]), FALSE)
    BY DEF Bridge!PublishFires
  <1> DEFINE r == Rank[tag]
  <1>2. r \in 1 .. 8
    BY TagRank DEF Bridge!Heard
  <1>3. /\ Bridge!Active("autogas_operator_confirm", Bridge!Merged(S, r))
        /\ ~ Bridge!Active("autogas_operator_confirm", Bridge!Merged(S, r - 1))
    BY <1>1 DEF Bridge!MayFire
  <1> HIDE DEF r
  <1> DEFINE now(x) == x \in Bridge!Merged(S, r)
             old(x) == x \in Bridge!Merged(S, r - 1)
             heard(x) == x \in Bridge!Heard(S)
  <1>4. /\ now(press) /\ now(ask) /\ ~ now(ack)
        /\ ~ (old(press) /\ old(ask) /\ ~ old(ack))
    BY <1>3, ConfirmActive
  <1>5. /\ now(ask) <=> IF heard(ask) /\ 2 <= r THEN ask \in plc ELSE ask \in snap
        /\ old(ask) <=> IF heard(ask) /\ 2 <= r - 1 THEN ask \in plc ELSE ask \in snap
        /\ now(ack) <=> IF heard(ack) /\ 3 <= r THEN ack \in plc ELSE ack \in snap
        /\ old(ack) <=> IF heard(ack) /\ 3 <= r - 1 THEN ack \in plc ELSE ack \in snap
        /\ now(press) <=> IF heard(press) /\ 7 <= r THEN press \in plc ELSE press \in snap
        /\ old(press) <=> IF heard(press) /\ 7 <= r - 1 THEN press \in plc ELSE press \in snap
    <2>1. /\ {ask, ack, press} \subseteq Tags
          /\ Rank[ask] = 2 /\ Rank[ack] = 3 /\ Rank[press] = 7
      BY TagsAre DEF Rank
    <2>2. r \in Int /\ r - 1 \in Int
      BY <1>2
    <2> QED
      BY <2>1, <2>2, MergedIs
  <1> HIDE DEF now, old
  <1>6. heard(ack) \/ heard(press) => (heard(ask) \/ (ask \in plc <=> ask \in snap))
    <2>1. heard(ack) \/ heard(press) => ask \in S
      BY DEF RequestWithAnswer, Bridge!Heard
    <2>2. ask \in S /\ ~ heard(ask) => (ask \in plc <=> ask \in sampled)
      BY TagsAre DEF Bridge!Heard
    <2> QED
      BY <2>1, <2>2 DEF TagsInv
  <1> HIDE DEF heard
  <1>7. r = 2 \/ r = 3 \/ r = 7
    BY <1>2, <1>4, <1>5
  <1>8. r # 2
    <2>1. ASSUME r = 2 PROVE FALSE
      <3>1. press \in snap /\ ask \notin snap /\ ask \in plc
        BY <1>4, <1>5, <2>1
      <3> QED
        BY <3>1 DEF TagsInv
    <2> QED
      BY <2>1
  <1>9. r # 3
    <2>1. ASSUME r = 3 PROVE FALSE
      <3>1. heard(ack) /\ ack \notin plc /\ ack \in snap
        BY <1>4, <1>5, <2>1
      <3>2. ask \in plc
        BY <1>4, <1>5, <1>6, <2>1, <3>1
      <3> QED
        BY <3>1, <3>2 DEF TagsInv
    <2> QED
      BY <2>1
  <1>10. r = 7
    BY <1>7, <1>8, <1>9
  <1>11. heard(press) /\ press \in plc /\ press \notin snap
    BY <1>4, <1>5, <1>10
  <1>12. ask \in plc /\ ack \notin plc \cap snap
    BY <1>4, <1>5, <1>6, <1>10, <1>11
  <1> QED
    BY <1>11, <1>12 DEF TagsInv, ConfirmInv, heard

\* A new snapshot, with the tasks it sends.
LEMMA SeenQuiet ==
  ASSUME QuietInv, UNCHANGED <<plc, queue, step, cycle, batches, orphan>>,
         link' = "up", initialized' = TRUE,
         \A x : x \in plc \cap snap => x \in snap',
         "request_batch_create" \in sampled' <=> "request_batch_create" \in snap',
         step = 1 /\ "response_batch_create" \in snap' => "response_batch_create" \in plc,
         step = 1 /\ "operator_confirm" \in snap' => "request_batch_create" \in snap',
         Alone(tasks'),
         Confirms(tasks') # {} =>
           /\ step = 1 /\ ActiveIds = {} /\ TakeBack \notin Writes(queue)
           /\ "operator_confirm" \in plc \cap snap'
  PROVE  QuietInv'
  <1>1. ActiveIds' = ActiveIds
    BY DEF ActiveIds
  <1>2. LineInv'
    BY DEF QuietInv, LineInv, Quiet
  <1>3. TagsInv'
    BY DEF QuietInv, TagsInv, Coming
  <1>4. ConfirmInv'
    BY <1>1 DEF QuietInv, ConfirmInv
  <1>5. RowsInv'
    BY <1>1 DEF QuietInv, RowsInv
  <1> QED
    BY <1>2, <1>3, <1>4, <1>5 DEF QuietInv

LEMMA SentKind ==
  ASSUME NEW w, NEW sent
  PROVE  \A t \in {NewTask(tr, w) : tr \in sent} :
           t.kind = "autogas_operator_confirm" =>
             t = NewTask("autogas_operator_confirm", w)
               /\ "autogas_operator_confirm" \in sent
  BY DEF NewTask

LEMMA ReadQuiet ==
  ASSUME RequestWithAnswer, CycleInv, QuietInv,
         BridgeInitialRead \/ BridgePublish \/ BridgePublishWeights
  PROVE  QuietInv'
  <1>1. TypeOK /\ IsABag(tasks) /\ LineInv /\ TagsInv /\ ConfirmInv
    BY DEF CycleInv, TableInv, TypeOK, QuietInv
  <1>2. \A fires : \A sent \in SentOf(fires) : sent \subseteq fires
    BY DEF SentOf
  <1>3. ASSUME NEW w, NEW sent,
               tasks' = tasks (+) SetToBag({NewTask(tr, w) : tr \in sent}),
               "autogas_operator_confirm" \in sent =>
                 /\ Confirms(tasks) = {} /\ step = 1 /\ ActiveIds = {}
                 /\ TakeBack \notin Writes(queue)
                 /\ "operator_confirm" \in plc \cap snap',
               \A x : x \in plc \cap snap => x \in snap'
        PROVE  /\ Alone(tasks')
               /\ Confirms(tasks') # {} =>
                    /\ step = 1 /\ ActiveIds = {} /\ TakeBack \notin Writes(queue)
                    /\ "operator_confirm" \in plc \cap snap'
    <2> DEFINE S == {NewTask(tr, w) : tr \in sent}
    <2>1. \A t \in S : t.kind = "autogas_operator_confirm" =>
            /\ t = NewTask("autogas_operator_confirm", w)
            /\ "autogas_operator_confirm" \in sent
      BY SentKind
    <2>2. BagToSet(tasks') = BagToSet(tasks) \cup S
      BY <1>1, <1>3, SentTasks
    <2>3. tasks' = tasks (+) SetToBag(S)
      BY <1>3
    <2> HIDE DEF S
    <2>4. Alone(tasks')
      BY <1>1, <1>3, <2>1, <2>3, SendAlone DEF ConfirmInv
    <2>5. CASE "autogas_operator_confirm" \in sent
      BY <1>3, <2>4, <2>5
    <2>6. CASE "autogas_operator_confirm" \notin sent
      <3>1. Confirms(tasks') = Confirms(tasks)
        BY <2>1, <2>2, <2>6 DEF Confirms
      <3> QED
        BY <1>1, <1>3, <2>4, <3>1 DEF ConfirmInv
    <2> QED
      BY <2>5, <2>6
  <1>4. CASE BridgeInitialRead
    <2>1. PICK sent \in SentOf(Bridge!InitialReadFires) :
            /\ Bridge!InitialRead(sent)
            /\ tasks' = tasks (+) SetToBag({NewTask(tr, weighed) : tr \in sent})
            /\ UNCHANGED <<plcVars, batches>>
      BY <1>4 DEF BridgeInitialRead
    <2>2. /\ UNCHANGED <<plc, queue, step, cycle, batches, orphan>>
          /\ link = "session" /\ link' = "up" /\ initialized' = TRUE
          /\ snap' = plc /\ sampled' = plc
      BY <2>1 DEF Bridge!InitialRead, Bridge!OnSnapshot, plcVars
    <2>3. /\ BagToSet(tasks) = {} /\ ActiveIds = {} /\ Writes(queue) = {}
      BY <1>1, <2>2 DEF LineInv, Writes
    <2>4. "autogas_operator_confirm" \in sent =>
            "operator_confirm" \in plc /\ "request_batch_create" \in plc
      BY <1>2, <2>1, ConfirmActive DEF Bridge!InitialReadFires, Bridge!MayFire
    <2>5. "autogas_operator_confirm" \in sent =>
             /\ Confirms(tasks) = {} /\ step = 1 /\ ActiveIds = {}
             /\ TakeBack \notin Writes(queue)
             /\ "operator_confirm" \in plc \cap snap'
      BY <1>1, <2>2, <2>3, <2>4 DEF Confirms, TagsInv
    <2>6. /\ Alone(tasks')
          /\ Confirms(tasks') # {} =>
               /\ step = 1 /\ ActiveIds = {} /\ TakeBack \notin Writes(queue)
               /\ "operator_confirm" \in plc \cap snap'
      BY <1>3, <2>1, <2>2, <2>5
    <2>7. step = 1 => "request_batch_create" \in snap'
      BY <1>1, <2>2 DEF TagsInv
    <2> QED
      BY <2>2, <2>6, <2>7, SeenQuiet
  <1>5. CASE BridgePublish
    <2>1. PICK S \in Blocks : \E sent \in SentOf(Bridge!PublishFires(S)) :
            /\ Bridge!Publish(S, sent)
            /\ tasks' = tasks (+) SetToBag({NewTask(tr, seen') : tr \in sent})
            /\ UNCHANGED <<plcVars, batches>>
      BY <1>5 DEF BridgePublish
    <2>2. PICK sent \in SentOf(Bridge!PublishFires(S)) :
            /\ Bridge!Publish(S, sent)
            /\ tasks' = tasks (+) SetToBag({NewTask(tr, seen') : tr \in sent})
            /\ UNCHANGED <<plcVars, batches>>
      BY <2>1
    <2> DEFINE H == Bridge!Heard(S)
               w == seen'
    <2>3. /\ UNCHANGED <<plc, queue, step, cycle, batches, orphan>>
          /\ link = "up" /\ link' = "up" /\ initialized' = TRUE
          /\ snap' = (snap \ H) \cup (plc \cap H)
          /\ sampled' = (sampled \ H) \cup (plc \cap H)
      BY <2>2 DEF Bridge!Publish, Bridge!OnSnapshot, plcVars
    <2>4. /\ H \subseteq S
          /\ \A x \in (S \cap Tags) \ H : x \in plc <=> x \in sampled
      BY DEF Bridge!Heard
    <2>5. "autogas_operator_confirm" \in sent =>
            /\ step = 1 /\ ActiveIds = {}
            /\ "operator_confirm" \in plc \cap H /\ "operator_confirm" \notin snap
      BY <1>1, <1>2, <2>2, <2>3, ConfirmFires
    <2> HIDE DEF H
    <2>6. "autogas_operator_confirm" \in sent =>
             /\ Confirms(tasks) = {} /\ step = 1 /\ ActiveIds = {}
             /\ TakeBack \notin Writes(queue)
             /\ "operator_confirm" \in plc \cap snap'
      BY <1>1, <2>3, <2>5 DEF ConfirmInv
    <2>7. \A x : x \in plc \cap snap => x \in snap'
      BY <2>3
    <2>8. tasks' = tasks (+) SetToBag({NewTask(tr, w) : tr \in sent})
      BY <2>2
    <2> HIDE DEF w
    <2>9. /\ Alone(tasks')
          /\ Confirms(tasks') # {} =>
               /\ step = 1 /\ ActiveIds = {} /\ TakeBack \notin Writes(queue)
               /\ "operator_confirm" \in plc \cap snap'
      BY <1>3, <2>6, <2>7, <2>8
    <2>10. "request_batch_create" \in sampled' <=> "request_batch_create" \in snap'
      BY <1>1, <2>3 DEF TagsInv
    <2>11. step = 1 /\ "response_batch_create" \in snap' => "response_batch_create" \in plc
      BY <1>1, <2>3 DEF TagsInv
    <2>12. ASSUME step = 1, "operator_confirm" \in snap'
           PROVE  "request_batch_create" \in snap'
      <3>1. "request_batch_create" \in plc
        BY <1>1, <2>12 DEF TagsInv
      <3>2. CASE "operator_confirm" \in H
        <4>1. "request_batch_create" \in S \cap Tags
          BY <2>4, <3>2, TagsAre DEF RequestWithAnswer
        <4>2. CASE "request_batch_create" \in H
          BY <2>3, <3>1, <4>2
        <4>3. CASE "request_batch_create" \notin H
          <5>1. "request_batch_create" \in sampled
            BY <2>4, <3>1, <4>1, <4>3
          <5>2. "request_batch_create" \in snap
            BY <1>1, <2>3, <5>1 DEF TagsInv
          <5> QED
            BY <2>3, <4>3, <5>2
        <4> QED
          BY <4>2, <4>3
      <3>3. CASE "operator_confirm" \notin H
        <4>1. "request_batch_create" \in snap
          BY <1>1, <2>3, <2>12, <3>3 DEF TagsInv
        <4> QED
          BY <2>7, <3>1, <4>1
      <3> QED
        BY <3>2, <3>3
    <2> QED
      BY <2>3, <2>7, <2>9, <2>10, <2>11, <2>12, SeenQuiet
  <1>6. CASE BridgePublishWeights
    <2>1. UNCHANGED <<plc, sampled, snap, initialized, link, queue, orphan, step, cycle,
                      tasks, batches>>
          /\ link = "up"
      BY <1>6 DEF BridgePublishWeights, plcVars, djangoVars
    <2>2. initialized' = TRUE
      BY <1>1, <2>1 DEF LineInv, TypeOK, Bridge!BridgeTypeOK
    <2> QED
      BY <1>1, <2>1, <2>2, SeenQuiet DEF TagsInv, ConfirmInv
  <1> QED
    BY <1>4, <1>5, <1>6

-----------------------------------------------------------------------------
(* What the bridge, the PLC and the panel do to QuietInv.                  *)

LEMMA SetTagQuiet ==
  ASSUME NEW w \in Bridge!Write, Quiet(w), NEW s
  PROVE  /\ "stop_batch" \in Bridge!SetTag(s, w) <=> "stop_batch" \in s
         /\ "request_batch_create" \in Bridge!SetTag(s, w)
              <=> "request_batch_create" \in s
         /\ "response_batch_create" \in Bridge!SetTag(s, w)
              <=> "response_batch_create" \in s \/ w = Created
         /\ "operator_confirm" \in Bridge!SetTag(s, w)
              <=> "operator_confirm" \in s /\ w # TakeBack
  <1>1. /\ w.tag = "response_batch_create" <=> w = Created
        /\ w.tag = "operator_confirm" <=> w = TakeBack
    BY DEF Quiet, Created, TakeBack, To, Bridge!Write
  <1>2. \A x : x \in Bridge!SetTag(s, w) <=>
                 IF x = w.tag THEN w.val = TRUE ELSE x \in s
    BY DEF Bridge!SetTag, Bridge!Write
  <1> QED
    BY <1>1, <1>2 DEF Quiet

LEMMA WriteQuiet ==
  ASSUME Undisturbed, TypeOK, QuietInv, BridgeWrite
  PROVE  QuietInv'
  <1> DEFINE w == Head(queue)
  <1>1. Bridge!WriteDone
    BY DEF BridgeWrite, Undisturbed
  <1>2. /\ queue \in Seq(Bridge!Write) /\ queue # <<>> /\ queue' = Tail(queue)
        /\ plc' = Bridge!SetTag(plc, w) /\ snap' = Bridge!SetTag(snap, w)
        /\ sampled' = Bridge!SetTag(sampled, w) \/ sampled' = sampled
        /\ UNCHANGED <<initialized, link, orphan, step, cycle, tasks, batches>>
    BY <1>1 DEF TypeOK, Bridge!BridgeTypeOK, Bridge!WriteDone, BridgeWrite, plcVars,
                djangoVars
  <1>3. w \in Bridge!Write /\ w \in Writes(queue) /\ Writes(queue') \subseteq Writes(queue)
    BY <1>2, WritesTail
  <1>4. Quiet(w) /\ link = "up"
    BY <1>2, <1>3 DEF QuietInv, LineInv
  <1> HIDE DEF w
  <1>5. \A s : /\ "stop_batch" \in Bridge!SetTag(s, w) <=> "stop_batch" \in s
               /\ "request_batch_create" \in Bridge!SetTag(s, w)
                    <=> "request_batch_create" \in s
               /\ "response_batch_create" \in Bridge!SetTag(s, w)
                    <=> "response_batch_create" \in s \/ w = Created
               /\ "operator_confirm" \in Bridge!SetTag(s, w)
                    <=> "operator_confirm" \in s /\ w # TakeBack
    BY <1>3, <1>4, SetTagQuiet
  <1>6. \A v : OnceIn(queue, v) =>
          OnceIn(queue', v) /\ (w = v => v \notin Writes(queue'))
    BY <1>2, PopQueue DEF w
  <1>7. Led(queue) => w = Created \/ (w # TakeBack /\ Led(queue'))
    BY <1>2, PopQueue DEF w
  <1>8. ActiveIds' = ActiveIds
    BY <1>2 DEF ActiveIds
  <1>9. LineInv'
    BY <1>2, <1>3, <1>4, <1>5 DEF QuietInv, LineInv, Quiet
  <1>10. TagsInv'
    <2>1. TagsInv /\ (w = Created => Coming("response_batch_create"))
      BY <1>3 DEF QuietInv, Coming, Created
    <2>2. Coming("response_batch_create")' => Coming("response_batch_create")
      BY <1>2, <1>3, <1>5, <2>1 DEF Coming
    <2>3. "response_batch_create" \in plc' => Created \notin Writes(queue')
      BY <1>2, <1>3, <1>5, <1>6, <2>1 DEF TagsInv
    <2>4. /\ step' = 1 <=> "request_batch_create" \in plc'
          /\ link' = "up" =>
               ("request_batch_create" \in sampled' <=> "request_batch_create" \in snap')
      BY <1>2, <1>4, <1>5, <2>1 DEF TagsInv
    <2>5. /\ step' = 1 =>
               /\ "response_batch_create" \in snap' => "response_batch_create" \in plc'
               /\ "operator_confirm" \in snap' => "request_batch_create" \in snap'
          /\ step' = 0 => "operator_confirm" \notin plc'
      BY <1>2, <1>5, <2>1 DEF TagsInv
    <2> QED
      BY <1>2, <1>6, <2>1, <2>2, <2>3, <2>4, <2>5 DEF TagsInv
  <1>11. ConfirmInv'
    <2>1. ConfirmInv
      BY DEF QuietInv
    <2>2. OnceIn(queue', TakeBack) /\ Alone(tasks')
      BY <1>2, <1>6, <2>1 DEF ConfirmInv
    <2>3. step' = 1 /\ TakeBack \in Writes(queue') => "operator_confirm" \in plc' \cap snap'
      BY <1>2, <1>3, <1>5, <1>6, <2>1 DEF ConfirmInv
    <2>4. Confirms(tasks') # {} =>
            /\ step' = 1 /\ ActiveIds' = {} /\ TakeBack \notin Writes(queue')
            /\ "operator_confirm" \in plc' \cap snap'
      BY <1>2, <1>3, <1>5, <1>8, <2>1 DEF ConfirmInv
    <2>5. ASSUME step' = 1, ActiveIds' # {}
          PROVE  /\ "operator_confirm" \in plc' \cap snap'
                      \/ "response_batch_create" \in plc' \cap snap'
                 /\ "response_batch_create" \in plc' \cap snap' \/ Led(queue')
      BY <1>2, <1>5, <1>7, <1>8, <2>1, <2>5 DEF ConfirmInv
    <2> QED
      BY <2>2, <2>3, <2>4, <2>5 DEF ConfirmInv
  <1>12. RowsInv'
    BY <1>2, <1>8 DEF QuietInv, RowsInv
  <1> QED
    BY <1>9, <1>10, <1>11, <1>12 DEF QuietInv

LEMMA NoLoss ==
  ASSUME Undisturbed, TypeOK, QuietInv
  PROVE  ~ BridgeLoss
  <1>1. ~ (drops < MaxDrops)
    BY BoundsAreNat DEF Undisturbed, TypeOK
  <1>2. ~ orphan /\ ~ (link = "down" /\ initialized)
    BY DEF QuietInv, LineInv
  <1> QED
    BY <1>1, <1>2 DEF BridgeLoss, Bridge!PopForNobody, Bridge!Restart

LEMMA StillQuiet ==
  ASSUME TypeOK, QuietInv, BridgeConnect \/ UNCHANGED vars
  PROVE  QuietInv'
  <1>1. /\ UNCHANGED <<plc, sampled, snap, initialized, queue, step, cycle, tasks, batches>>
        /\ \/ link' = link /\ orphan' = orphan
           \/ link = "down" /\ link' = "session" /\ orphan' = FALSE
    BY DEF vars, BridgeConnect, Bridge!Connect, plcVars, djangoVars
  <1>2. ActiveIds' = ActiveIds
    BY <1>1 DEF ActiveIds
  <1>3. LineInv'
    BY <1>1, <1>2 DEF QuietInv, LineInv, Quiet
  <1>4. TagsInv'
    BY <1>1 DEF QuietInv, TagsInv, Coming
  <1>5. ConfirmInv'
    BY <1>1, <1>2 DEF QuietInv, ConfirmInv
  <1>6. RowsInv'
    BY <1>1, <1>2 DEF QuietInv, RowsInv
  <1> QED
    BY <1>3, <1>4, <1>5, <1>6 DEF QuietInv

\* A scan after which the PLC does not wait for a batch.
LEMMA ScanQuiet ==
  ASSUME QuietInv,
         UNCHANGED <<sampled, snap, initialized, link, queue, orphan, tasks, batches>>,
         step' # 1,
         "stop_batch" \notin plc', "request_batch_create" \notin plc',
         step' = 0 => "operator_confirm" \notin plc',
         ~ Coming("response_batch_create")', Confirms(tasks) = {}, RowsInv'
  PROVE  QuietInv'
  <1>1. ActiveIds' = ActiveIds
    BY DEF ActiveIds
  <1>2. LineInv'
    BY <1>1 DEF QuietInv, LineInv, Quiet
  <1>3. TagsInv'
    BY DEF QuietInv, TagsInv, Coming
  <1>4. ConfirmInv'
    BY DEF QuietInv, ConfirmInv
  <1> QED
    BY <1>2, <1>3, <1>4 DEF QuietInv

\* The batch that is saved is the only one of its cycle, and none is active.
LEMMA SavedAlone ==
  ASSUME RowsInv, OwnSaved
  PROVE  ActiveIds = {}
  <1>1. PICK i \in 1 .. Len(batches) :
          batches[i].cycle = cycle /\ batches[i].status = "completed"
    BY DEF OwnSaved
  <1>2. \A j \in ActiveIds : j = i
    BY <1>1 DEF RowsInv, ActiveIds
  <1> QED
    BY <1>1, <1>2 DEF ActiveIds

LEMMA PlcScanQuiet ==
  ASSUME Patient, CycleInv, SavedInv, QuietInv, PlcScan
  PROVE  QuietInv'
  <1>1. /\ UNCHANGED <<sampled, snap, initialized, link, queue, orphan, tasks, batches>>
        /\ TypeOK /\ LineInv /\ TagsInv /\ ConfirmInv /\ RowsInv
        /\ "stop_batch" \notin plc /\ step \in 0 .. 5
    BY DEF PlcScan, djangoVars, QuietInv, CycleInv, TableInv, TypeOK, LineInv
  <1>2. ActiveIds' = ActiveIds
    BY <1>1 DEF ActiveIds
  <1>3. ~ PlcStop
    BY <1>1 DEF PlcStop
  <1>4. CASE PlcIdle
    <2>1. step = 0 /\ step' = 0 /\ cycle' = cycle /\ plc' = {}
      BY <1>4 DEF PlcIdle, plcVars
    <2>2. ~ Coming("response_batch_create") /\ Confirms(tasks) = {}
      BY <1>1, <2>1 DEF TagsInv, ConfirmInv
    <2>3. ~ Coming("response_batch_create")'
      BY <1>1, <2>1, <2>2 DEF Coming
    <2>4. RowsInv'
      BY <1>1, <1>2, <2>1 DEF RowsInv
    <2> QED
      BY <1>1, <2>1, <2>2, <2>4, <2>3, ScanQuiet
  <1>5. CASE PlcStart
    <2>1. /\ step = 0 /\ step' = 1 /\ cycle' = cycle + 1
          /\ plc' = {"request_batch_create"}
          /\ tasks = EmptyBag /\ queue = <<>> /\ snap = plc
      BY <1>5 DEF PlcStart, Settled
    <2>2. /\ BagToSet(tasks) = {} /\ Writes(queue) = {} /\ ActiveIds = {}
          /\ cycle \in Nat
      BY <1>1, <2>1, BoundsAreNat, SetToBagType DEF EmptyBag, Writes, RowsInv, TypeOK
    <2>3. "response_batch_create" \notin plc /\ "operator_confirm" \notin plc
      <3>1. ~ Coming("response_batch_create") /\ "operator_confirm" \notin plc
        BY <1>1, <2>1 DEF TagsInv
      <3> QED
        BY <3>1 DEF Coming
    <2>4. LineInv'
      BY <1>1, <1>2, <2>1 DEF LineInv, Quiet
    <2>5. TagsInv'
      <3>1. ~ Coming("response_batch_create")' /\ Created \notin Writes(queue')
        BY <1>1, <2>1, <2>2 DEF Coming
      <3> QED
        BY <1>1, <2>1, <2>3, <3>1 DEF TagsInv
    <2>6. ConfirmInv'
      <3>1. Confirms(tasks') = {} /\ TakeBack \notin Writes(queue')
        BY <1>1, <2>2 DEF Confirms
      <3> QED
        BY <1>1, <1>2, <2>2, <3>1 DEF ConfirmInv
    <2>7. RowsInv'
      <3>1. ASSUME NEW i \in 1 .. Len(batches)
            PROVE  batches[i].cycle <= cycle' /\ batches[i].cycle # cycle'
        <4>1. batches[i].cycle \in Nat
          <5>1. batches[i] \in BatchType
            BY <1>1 DEF TypeOK
          <5> QED
            BY <5>1, BoundsAreNat DEF BatchType
        <4>2. batches[i].cycle <= cycle
          BY <1>1 DEF RowsInv
        <4> QED
          BY <2>1, <2>2, <4>1, <4>2
      <3> QED
        BY <1>1, <1>2, <2>1, <2>2, <3>1 DEF RowsInv
    <2> QED
      BY <2>4, <2>5, <2>6, <2>7 DEF QuietInv
  <1>6. CASE PlcActivate
    <2>1. /\ step = 1 /\ step' = 2 /\ cycle' = cycle
          /\ plc' = plc \ {"request_batch_create", "response_batch_create"}
          /\ "response_batch_create" \in plc
      BY <1>6 DEF PlcActivate
    <2>2. OwnOpen
      BY <1>1, <2>1 DEF CycleInv, OwnInv, Coming
    <2>3. Confirms(tasks) = {}
      BY <1>1, <2>2 DEF ConfirmInv, OwnOpen
    <2>4. ~ Coming("response_batch_create")'
      BY <1>1, <2>1 DEF TagsInv, Coming, Created
    <2>5. RowsInv'
      BY <1>1, <1>2, <2>1 DEF RowsInv
    <2> QED
      BY <1>1, <2>1, <2>3, <2>4, <2>5, ScanQuiet
  <1>7. CASE PlcAdvance \/ PlcWeigh
    <2>1. /\ step \in 2 .. 4 /\ step' \in 3 .. 5 /\ cycle' = cycle
          /\ plc' = plc \/ plc' = plc \cup {"request_batch_complete"}
      BY <1>7 DEF PlcAdvance, PlcWeigh
    <2>2. "stop_batch" \notin plc' /\ "request_batch_create" \notin plc'
      BY <1>1, <2>1 DEF TagsInv
    <2>3. Confirms(tasks) = {}
      BY <1>1, <2>1 DEF ConfirmInv
    <2>4. ~ Coming("response_batch_create")
      BY <1>1, <2>1 DEF TagsInv
    <2>5. ~ Coming("response_batch_create")'
      <3>1. "response_batch_create" \in plc' => "response_batch_create" \in plc
        BY <2>1
      <3> QED
        BY <1>1, <2>4, <3>1 DEF Coming
    <2>6. RowsInv'
      BY <1>1, <1>2, <2>1 DEF RowsInv
    <2> QED
      BY <1>1, <2>1, <2>2, <2>3, <2>5, <2>6, ScanQuiet
  <1>8. CASE PlcFinish
    <2>1. /\ step = 5 /\ step' = 0 /\ cycle' = cycle /\ plc' = {}
          /\ "response_batch_complete" \in plc
      BY <1>8 DEF PlcFinish
    <2>2. OwnSaved
      BY <1>1, <2>1 DEF SavedInv, Coming
    <2>3. ActiveIds = {}
      BY <1>1, <2>2, SavedAlone
    <2>4. ~ Coming("response_batch_create") /\ Confirms(tasks) = {}
      BY <1>1, <2>1 DEF TagsInv, ConfirmInv
    <2>5. ~ Coming("response_batch_create")'
      BY <1>1, <2>1, <2>4 DEF Coming
    <2>6. RowsInv'
      BY <1>1, <1>2, <2>1, <2>3 DEF RowsInv
    <2> QED
      BY <1>1, <2>1, <2>5, <2>6, <2>4, ScanQuiet
  <1> QED
    BY <1>3, <1>4, <1>5, <1>6, <1>7, <1>8 DEF PlcScan

LEMMA PanelQuiet ==
  ASSUME Undisturbed, TypeOK, QuietInv, Panel
  PROVE  QuietInv'
  <1>1. ~ PressStop
    BY BoundsAreNat DEF PressStop, Undisturbed, TypeOK
  <1>2. /\ step = 1 /\ plc' = plc \cup {"operator_confirm"}
        /\ UNCHANGED <<sampled, snap, initialized, link, queue, orphan, step, cycle, tasks,
                       batches>>
    BY <1>1 DEF Panel, PressConfirm, plcVars, djangoVars
  <1>3. ActiveIds' = ActiveIds
    BY <1>2 DEF ActiveIds
  <1>4. LineInv'
    BY <1>2, <1>3 DEF QuietInv, LineInv, Quiet
  <1>5. TagsInv'
    BY <1>2 DEF QuietInv, TagsInv, Coming
  <1>6. ConfirmInv'
    BY <1>2, <1>3 DEF QuietInv, ConfirmInv
  <1>7. RowsInv'
    BY <1>2, <1>3 DEF QuietInv, RowsInv
  <1> QED
    BY <1>4, <1>5, <1>6, <1>7 DEF QuietInv

-----------------------------------------------------------------------------
(* What the tasks do to QuietInv.                                          *)

LEMMA QuietWritesAre ==
  /\ \A w \in Writes(AckCreated) : Quiet(w)
  /\ OnceIn(AckCreated, Created) /\ OnceIn(AckCreated, TakeBack) /\ Led(AckCreated)
  /\ Writes(<<TakeBack>>) = {TakeBack} /\ Quiet(TakeBack) /\ Created # TakeBack
  /\ OnceIn(<<TakeBack>>, TakeBack)
  /\ \A ws \in {<<Completed>>}
                 \cup {CreateWrites(lookup) : lookup \in Lookups \ {"unknown_type"}} :
       \A w \in Writes(ws) : Quiet(w) /\ w # Created /\ w # TakeBack
  <1> DEFINE plain == {To("response_batch_complete", TRUE),
                       To("proposed_ready", TRUE), To("proposed_ready", FALSE),
                       To("vehicle_list_0", TRUE), To("vehicle_list_0", FALSE)}
  <1>1. \A w \in plain : Quiet(w) /\ w # Created /\ w # TakeBack
    BY DEF Quiet, To, Created, TakeBack
  <1>2. Quiet(Created) /\ Quiet(TakeBack) /\ Created # TakeBack
    BY DEF Quiet, To, Created, TakeBack
  <1>3. \A a : Len(<<a>>) = 1 /\ 1 .. 1 = {1}
    OBVIOUS
  <1>4. Writes(<<TakeBack>>) = {TakeBack} /\ OnceIn(<<TakeBack>>, TakeBack)
    <2>1. OnceIn(<<TakeBack>>, TakeBack)
      BY <1>3 DEF OnceIn
    <2> QED
      BY <2>1, WritesOfTuple
  <1>5. /\ \A w \in Writes(AckCreated) : Quiet(w)
        /\ OnceIn(AckCreated, Created) /\ OnceIn(AckCreated, TakeBack) /\ Led(AckCreated)
    <2> DEFINE y == To("proposed_ready", FALSE)
               z == To("vehicle_list_0", FALSE)
    <2>1. AckCreated = <<Created, TakeBack, y, z>>
      BY DEF AckCreated, Created, TakeBack
    <2>2. /\ Quiet(y) /\ y # Created /\ y # TakeBack
          /\ Quiet(z) /\ z # Created /\ z # TakeBack
      BY <1>1
    <2> HIDE DEF y, z
    <2> DEFINE q == <<Created, TakeBack, y, z>>
    <2>3. Len(q) = 4 /\ 1 .. 4 = {1, 2, 3, 4}
      OBVIOUS
    <2>4. q[1] = Created /\ q[2] = TakeBack /\ q[3] = y /\ q[4] = z
      OBVIOUS
    <2>5. Writes(q) = {Created, TakeBack, y, z}
      BY WritesOfTuple
    <2> HIDE DEF q
    <2>6. \A w \in Writes(q) : Quiet(w)
      BY <1>2, <2>2, <2>5
    <2>7. OnceIn(q, Created) /\ OnceIn(q, TakeBack)
      BY <1>2, <2>2, <2>3, <2>4 DEF OnceIn
    <2>8. Led(q)
      <3>1. \A j \in 1 .. Len(q) : q[j] = TakeBack => j = 2
        BY <1>2, <2>2, <2>3, <2>4
      <3>2. 1 \in 1 .. Len(q) /\ 1 < 2 /\ q[1] = Created
        BY <2>3, <2>4
      <3> QED
        BY <3>1, <3>2 DEF Led
    <2> QED
      BY <2>1, <2>6, <2>7, <2>8 DEF q
  <1>6. ASSUME NEW w \in Writes(<<Completed>>)
        PROVE  Quiet(w) /\ w # Created /\ w # TakeBack
    <2>1. w = To("response_batch_complete", TRUE)
      BY <1>6, WritesOfTuple DEF Completed
    <2> QED
      BY <1>1, <2>1
  <1>7. ASSUME NEW lookup \in Lookups \ {"unknown_type"},
               NEW w \in Writes(CreateWrites(lookup))
        PROVE  Quiet(w) /\ w # Created /\ w # TakeBack
    <2>1. lookup \in {"propose", "list", "empty_list"}
      BY ChoicesAreKnown DEF LookupKinds
    <2>2. PICK p \in BOOLEAN, v \in BOOLEAN :
            CreateWrites(lookup) = <<To("proposed_ready", p), To("vehicle_list_0", v)>>
      BY <2>1 DEF CreateWrites
    <2>3. Writes(CreateWrites(lookup)) = {To("proposed_ready", p), To("vehicle_list_0", v)}
      BY <2>2, WritesOfTuple
    <2>4. w \in plain
      BY <1>7, <2>3
    <2> QED
      BY <1>1, <2>4
  <1> HIDE DEF plain
  <1> QED
    BY <1>2, <1>4, <1>5, <1>6, <1>7

\* What a task leaves unchanged.
TaskFrame ==
  UNCHANGED <<plc, sampled, snap, initialized, link, orphan, step, cycle>>

\* What a task must observe.
LEMMA TaskQuiet ==
  ASSUME QuietInv, TaskFrame, link = "up",
         \A w \in Writes(queue') : Quiet(w),
         Created \in Writes(queue') /\ Created \notin Writes(queue)
           => step = 1 /\ "response_batch_create" \notin plc,
         OnceIn(queue', Created), OnceIn(queue', TakeBack),
         step = 1 /\ TakeBack \in Writes(queue') => "operator_confirm" \in plc \cap snap,
         Alone(tasks'),
         Confirms(tasks') # {} =>
           /\ step = 1 /\ ActiveIds' = {} /\ TakeBack \notin Writes(queue')
           /\ "operator_confirm" \in plc \cap snap,
         step = 1 /\ ActiveIds' # {} =>
           /\ "operator_confirm" \in plc \cap snap \/ "response_batch_create" \in plc \cap snap
           /\ "response_batch_create" \in plc \cap snap \/ Led(queue'),
         RowsInv'
  PROVE  QuietInv'
  <1>1. LineInv'
    BY DEF QuietInv, LineInv, TaskFrame, Quiet
  <1>2. TagsInv'
    BY DEF QuietInv, TagsInv, TaskFrame, Coming, Created
  <1>3. ConfirmInv'
    BY DEF ConfirmInv, TaskFrame
  <1> QED
    BY <1>1, <1>2, <1>3 DEF QuietInv

\* A task writes neither a response to the request nor to the button.
Plain ==
  /\ \A w \in Writes(queue') :
       w \in Writes(queue) \/ (Quiet(w) /\ w # Created /\ w # TakeBack)
  /\ OnceIn(queue', Created) /\ OnceIn(queue', TakeBack)
  /\ Led(queue) => Led(queue')

LEMMA PlainPush ==
  ASSUME queue \in Seq(Bridge!Write), QuietInv, NEW ws \in Seq(Bridge!Write), Push(ws),
         \A w \in Writes(ws) : Quiet(w) /\ w # Created /\ w # TakeBack
  PROVE  Plain
  <1>1. Created \notin Writes(ws) /\ TakeBack \notin Writes(ws)
    OBVIOUS
  <1>2. OnceIn(ws, Created) /\ OnceIn(ws, TakeBack) /\ Led(ws)
    BY <1>1 DEF OnceIn, Led, Writes
  <1>3. /\ OnceIn(queue, Created) /\ OnceIn(queue, TakeBack)
    BY DEF QuietInv, TagsInv, ConfirmInv
  <1>4. OnceIn(queue', Created) /\ OnceIn(queue', TakeBack)
    BY <1>1, <1>2, <1>3, PushQueue
  <1>5. Led(queue) => Led(queue')
    BY <1>2, PushQueue
  <1>6. \A w \in Writes(queue') :
          w \in Writes(queue) \/ (Quiet(w) /\ w # Created /\ w # TakeBack)
    BY PushWrites
  <1> QED
    BY <1>4, <1>5, <1>6 DEF Plain

LEMMA PlainTask ==
  ASSUME TypeOK, QuietInv, TaskFrame, NEW t \in BagToSet(tasks), Done(t),
         Plain, RowsInv', ActiveIds' \subseteq ActiveIds
  PROVE  QuietInv'
  <1>1. IsABag(tasks) /\ LineInv /\ TagsInv /\ ConfirmInv
    BY DEF QuietInv, TypeOK
  <1>2. link = "up"
    BY <1>1 DEF LineInv
  <1>3. Alone(tasks') /\ Confirms(tasks') \subseteq Confirms(tasks)
    BY <1>1, TakeAlone DEF Done, ConfirmInv
  <1>4. \A w \in Writes(queue') : Quiet(w)
    BY <1>1 DEF Plain, LineInv
  <1>5. /\ Created \in Writes(queue') => Created \in Writes(queue)
        /\ TakeBack \in Writes(queue') => TakeBack \in Writes(queue)
        /\ OnceIn(queue', Created) /\ OnceIn(queue', TakeBack)
        /\ Led(queue) => Led(queue')
    BY DEF Plain
  <1>6. step = 1 /\ TakeBack \in Writes(queue') => "operator_confirm" \in plc \cap snap
    BY <1>1, <1>5 DEF ConfirmInv
  <1>7. Confirms(tasks') # {} =>
           /\ step = 1 /\ ActiveIds' = {} /\ TakeBack \notin Writes(queue')
           /\ "operator_confirm" \in plc \cap snap
    BY <1>1, <1>3, <1>5 DEF ConfirmInv
  <1>8. ASSUME step = 1, ActiveIds' # {}
        PROVE
           /\ "operator_confirm" \in plc \cap snap \/ "response_batch_create" \in plc \cap snap
           /\ "response_batch_create" \in plc \cap snap \/ Led(queue')
    BY <1>1, <1>5, <1>8 DEF ConfirmInv
  <1> QED
    BY <1>2, <1>3, <1>4, <1>5, <1>6, <1>7, <1>8, TaskQuiet

\* The confirmation, from the moment it is there.
LEMMA ConfirmQuiet ==
  ASSUME Undisturbed, CycleInv, QuietInv, TaskFrame, NEW t \in BagToSet(tasks),
         RejectConfirm(t) \/ BeginInsert(t) \/ FinishInsert(t)
  PROVE  QuietInv'
  <1>1. /\ IsABag(tasks) /\ queue \in Seq(Bridge!Write)
        /\ LineInv /\ TagsInv /\ ConfirmInv /\ RowsInv /\ TypeOK
        /\ "unknown_type" \notin Lookups /\ t \in TaskType /\ t.cycle = cycle
    BY DEF QuietInv, CycleInv, LinkInv, TaskFits, TableInv, TypeOK, Bridge!BridgeTypeOK,
           Undisturbed
  <1>2. t \in Confirms(tasks) /\ link = "up"
    BY <1>1 DEF RejectConfirm, BeginInsert, FinishInsert, Waiting, Confirms, LineInv
  <1>3. /\ step = 1 /\ ActiveIds = {} /\ TakeBack \notin Writes(queue)
        /\ "operator_confirm" \in plc \cap snap
        /\ OnceIn(queue, Created) /\ OnceIn(queue, TakeBack)
        /\ Alone(tasks)
    BY <1>1, <1>2 DEF ConfirmInv, TagsInv
  <1>4. Done(t) => Confirms(tasks') = {} /\ Alone(tasks')
    BY <1>1, <1>2, <1>3, TakeAlone DEF Done, Confirms
  <1>5. \A w \in Writes(queue) : Quiet(w)
    BY <1>1 DEF LineInv
  <1>6. CASE RejectConfirm(t)
    <2>1. Push(<<TakeBack>>) /\ Done(t) /\ UNCHANGED batches
      BY <1>1, <1>6 DEF RejectConfirm, TakeBack
    <2>2. <<TakeBack>> \in Seq(Bridge!Write)
      BY WritesType DEF TakeBack
    <2>3. Writes(queue') \subseteq Writes(queue) \cup {TakeBack}
      BY <1>1, <2>1, <2>2, PushWrites, QuietWritesAre
    <2>4. /\ Created \notin Writes(<<TakeBack>>) /\ OnceIn(<<TakeBack>>, TakeBack)
          /\ Created # TakeBack /\ Quiet(TakeBack)
      BY QuietWritesAre
    <2>5. OnceIn(<<TakeBack>>, Created)
      BY <2>4 DEF OnceIn, Writes
    <2>6. OnceIn(queue', Created) /\ OnceIn(queue', TakeBack)
      BY <1>1, <1>3, <2>1, <2>2, <2>4, <2>5, PushQueue
    <2>7. ActiveIds' = {} /\ RowsInv'
      BY <1>1, <1>3, <2>1 DEF RowsInv, ActiveIds, TaskFrame
    <2> QED
      BY <1>2, <1>3, <1>4, <1>5, <2>1, <2>3, <2>4, <2>6, <2>7, TaskQuiet
  <1>7. CASE BeginInsert(t)
    <2> DEFINE rest == tasks (-) SetToBag({t})
               n == [t EXCEPT !.stage = "inserting"]
    <2>1. tasks' = rest (+) SetToBag({n}) /\ UNCHANGED <<queue, batches>>
      BY <1>3, <1>7 DEF BeginInsert
    <2>2. IsABag(rest) /\ Alone(rest) /\ Confirms(rest) = {}
      BY <1>1, <1>2, <1>3, TakeAlone, SetToBagType, BagSubType DEF Confirms
    <2> HIDE DEF rest, n
    <2>3. Alone(tasks')
      BY <2>1, <2>2, SendAlone
    <2>4. ActiveIds' = {} /\ RowsInv'
      BY <1>1, <1>3, <2>1 DEF RowsInv, ActiveIds, TaskFrame
    <2> QED
      BY <1>2, <1>3, <1>5, <2>1, <2>3, <2>4, TaskQuiet
  <1>8. CASE FinishInsert(t)
    <2> DEFINE r == [cycle |-> t.cycle, weights |-> 0, status |-> "active"]
    <2>1. batches' = Append(batches, r) /\ Push(AckCreated) /\ Done(t)
      BY <1>3, <1>8 DEF FinishInsert
    <2>2. batches \in Seq(BatchType) /\ r.cycle = cycle /\ r.status = "active"
      BY <1>1 DEF TypeOK
    <2>3. /\ Len(batches) \in Nat /\ Len(batches') = Len(batches) + 1
          /\ batches'[Len(batches) + 1] = r
          /\ \A i \in 1 .. Len(batches) : batches'[i] = batches[i]
      BY <2>1, <2>2
    <2> HIDE DEF r
    <2>4. \A i \in 1 .. Len(batches') : i \in 1 .. Len(batches) \/ i = Len(batches) + 1
      BY <2>3
    <2>5. \A i \in 1 .. Len(batches) : batches[i].cycle # cycle
      BY <1>1, <1>3 DEF RowsInv
    <2>6. ActiveIds' = {Len(batches) + 1}
      BY <1>3, <2>2, <2>3, <2>4 DEF ActiveIds
    <2>7. RowsInv'
      <3>1. cycle \in Nat /\ cycle' = cycle /\ step' = 1
        BY <1>1, <1>3, BoundsAreNat DEF TaskFrame, TypeOK
      <3>2. \A i \in 1 .. Len(batches') : batches'[i].cycle <= cycle
        BY <1>1, <2>2, <2>3, <2>4, <3>1 DEF RowsInv
      <3>3. \A i \in 1 .. Len(batches') : batches'[i].cycle = cycle => i = Len(batches) + 1
        BY <2>3, <2>4, <2>5
      <3> QED
        BY <2>2, <2>3, <2>6, <3>1, <3>2, <3>3 DEF RowsInv
    <2>8. ~ Coming("response_batch_create")
      BY <1>1, <1>3 DEF CycleInv, OwnInv, OwnOpen, LineInv
    <2>9. Created \notin Writes(queue) /\ "response_batch_create" \notin plc
      BY <2>8 DEF Coming, Created
    <2>10. /\ AckCreated \in Seq(Bridge!Write)
           /\ \A w \in Writes(AckCreated) : Quiet(w)
           /\ OnceIn(AckCreated, Created) /\ OnceIn(AckCreated, TakeBack) /\ Led(AckCreated)
      BY QuietWritesAre, WritesType
    <2>11. \A w \in Writes(queue') : Quiet(w)
      BY <1>1, <1>5, <2>1, <2>10, PushWrites
    <2>12. OnceIn(queue', Created) /\ OnceIn(queue', TakeBack)
      BY <1>1, <1>3, <2>1, <2>9, <2>10, PushQueue
    <2>13. Led(queue')
      <3>1. Led(queue)
        BY <1>3 DEF Led, Writes
      <3> QED
        BY <1>1, <2>1, <2>10, <3>1, PushQueue
    <2> QED
      BY <1>2, <1>3, <1>4, <2>1, <2>7, <2>9, <2>11, <2>12, <2>13, TaskQuiet
  <1> QED
    BY <1>6, <1>7, <1>8

LEMMA CeleryQuiet ==
  ASSUME Undisturbed, CycleInv, QuietInv, Celery
  PROVE  QuietInv'
  <1>1. PICK t \in BagToSet(tasks) : RunTask(t) \/ DropTask(t)
    BY DEF Celery
  <1>2. TaskFrame
    BY DEF Celery, plcVars, TaskFrame
  <1>3. /\ TypeOK /\ TableInv /\ TaskFits(t) /\ queue \in Seq(Bridge!Write)
        /\ LineInv /\ TagsInv /\ ConfirmInv /\ RowsInv /\ "unknown_type" \notin Lookups
    BY DEF QuietInv, CycleInv, LinkInv, TableInv, TypeOK, Bridge!BridgeTypeOK, Undisturbed
  <1>4. UNCHANGED queue => Plain
    BY <1>3 DEF Plain, TagsInv, ConfirmInv
  <1>5. UNCHANGED batches => RowsInv' /\ ActiveIds' \subseteq ActiveIds
    BY <1>2, <1>3 DEF RowsInv, ActiveIds, TaskFrame
  <1>6. CASE RunCreate(t)
    <2>1. PICK lookup \in Lookups : Push(CreateWrites(lookup))
      BY <1>6 DEF RunCreate
    <2>2. /\ CreateWrites(lookup) \in Seq(Bridge!Write)
          /\ \A w \in Writes(CreateWrites(lookup)) : Quiet(w) /\ w # Created /\ w # TakeBack
      BY <1>3, QuietWritesAre, WritesType
    <2>3. Plain
      BY <1>3, <2>1, <2>2, PlainPush
    <2> QED
      BY <1>2, <1>3, <1>5, <1>6, <2>3, PlainTask DEF RunCreate
  <1>7. CASE RejectConfirm(t) \/ BeginInsert(t) \/ FinishInsert(t)
    BY <1>2, <1>7, ConfirmQuiet
  <1>8. CASE RunComplete(t)
    <2>1. step \in {0, 5} /\ Push(<<Completed>>) /\ Done(t)
      BY <1>3, <1>8 DEF RunComplete, Waiting, TaskFits, Completed
    <2>2. Plain
      <3>1. /\ <<Completed>> \in Seq(Bridge!Write)
            /\ \A w \in Writes(<<Completed>>) : Quiet(w) /\ w # Created /\ w # TakeBack
        BY QuietWritesAre, WritesType DEF Completed
      <3> QED
        BY <1>3, <2>1, <3>1, PlainPush
    <2>3. RowsInv' /\ ActiveIds' \subseteq ActiveIds
      <3>1. CASE ActiveIds = {}
        BY <1>5, <1>8, <3>1 DEF RunComplete
      <3>2. CASE ActiveIds # {}
        <4> DEFINE r == [batches[Latest] EXCEPT !.status = "completed",
                                                !.weights = t.weights]
        <4>1. batches' = [batches EXCEPT ![Latest] = r]
          BY <1>8, <3>2 DEF RunComplete
        <4>2. Latest \in 1 .. Len(batches) /\ batches \in Seq(BatchType)
          BY <1>3, <3>2, LatestIsActive DEF TableInv, TypeOK, ActiveIds
        <4>3. batches[Latest] \in BatchType /\ t \in TaskType
          BY <1>3, <4>2 DEF TypeOK
        <4>4. r \in BatchType /\ r.cycle = batches[Latest].cycle /\ r.status = "completed"
          BY <4>3 DEF BatchType, TaskType
        <4> HIDE DEF r
        <4>5. Len(batches') = Len(batches) /\ ActiveIds' = {}
          BY <1>3, <3>2, <4>1, <4>4, CloseRow DEF TableInv
        <4>6. \A i \in 1 .. Len(batches) : batches'[i].cycle = batches[i].cycle
          BY <4>1, <4>2, <4>4, ExceptSeq
        <4>7. step' # 1 /\ cycle' = cycle
          BY <1>2, <2>1 DEF TaskFrame
        <4> QED
          BY <1>3, <4>5, <4>6, <4>7 DEF RowsInv
      <3> QED
        BY <3>1, <3>2
    <2> QED
      BY <1>2, <1>3, <2>1, <2>2, <2>3, PlainTask
  <1>9. CASE RunStopped(t)
    <2>1. step = 0
      BY <1>3, <1>9 DEF RunStopped, Waiting, TaskFits, LineInv
    <2>2. UNCHANGED <<queue, batches>> /\ Done(t)
      BY <1>3, <1>9, <2>1 DEF RowsInv, RunStopped
    <2> QED
      BY <1>2, <1>3, <1>4, <1>5, <2>2, PlainTask
  <1>10. CASE DropTask(t)
    BY <1>2, <1>3, <1>4, <1>5, <1>10, PlainTask DEF DropTask
  <1> QED
    BY <1>1, <1>6, <1>7, <1>8, <1>9, <1>10 DEF RunTask

LEMMA QuietNext ==
  ASSUME Patient, Undisturbed, RequestWithAnswer,
         CycleInv, SavedInv, QuietInv, [Next]_vars
  PROVE  QuietInv'
  <1>1. TypeOK
    BY DEF CycleInv, TableInv
  <1>2. CASE PlcScan
    BY <1>2, PlcScanQuiet
  <1>3. CASE Panel
    BY <1>1, <1>3, PanelQuiet
  <1>4. CASE BridgeConnect \/ UNCHANGED vars
    BY <1>1, <1>4, StillQuiet
  <1>5. CASE BridgeInitialRead \/ BridgePublish \/ BridgePublishWeights
    BY <1>5, ReadQuiet
  <1>6. CASE BridgeWrite
    BY <1>1, <1>6, WriteQuiet
  <1>7. CASE BridgeLoss
    BY <1>1, <1>7, NoLoss
  <1>8. CASE Celery
    BY <1>8, CeleryQuiet
  <1> QED
    BY <1>2, <1>3, <1>4, <1>5, <1>6, <1>7, <1>8 DEF Next

LEMMA QuietInit == Init => QuietInv
  <1> SUFFICES ASSUME Init PROVE QuietInv
    OBVIOUS
  <1>1. /\ step = 0 /\ cycle = 0 /\ plc = {} /\ sampled = {} /\ snap = {}
        /\ tasks = EmptyBag /\ queue = <<>> /\ batches = <<>>
        /\ link = "down" /\ ~ initialized /\ ~ orphan
    BY DEF Init, Bridge!BridgeInit
  <1>2. Len(queue) = 0 /\ Len(batches) = 0 /\ 1 .. 0 = {}
    BY <1>1
  <1>3. /\ BagToSet(tasks) = {} /\ Writes(queue) = {} /\ ActiveIds = {}
    BY <1>1, <1>2, SetToBagType DEF EmptyBag, Writes, ActiveIds
  <1>4. LineInv
    BY <1>1, <1>3 DEF LineInv
  <1>5. TagsInv
    <2>1. ~ Coming("response_batch_create") /\ OnceIn(queue, Created)
      BY <1>1, <1>2, <1>3 DEF Coming, OnceIn
    <2>2. /\ step # 1 /\ link # "up"
          /\ "request_batch_create" \notin plc /\ "response_batch_create" \notin plc
          /\ "operator_confirm" \notin plc
      BY <1>1
    <2> QED
      BY <2>1, <2>2 DEF TagsInv
  <1>6. ConfirmInv
    BY <1>1, <1>2, <1>3 DEF ConfirmInv, OnceIn, Alone, Confirms
  <1>7. RowsInv
    BY <1>1, <1>2, <1>3 DEF RowsInv
  <1> QED
    BY <1>4, <1>5, <1>6, <1>7 DEF QuietInv

-----------------------------------------------------------------------------
(* The contract.                                                           *)

FitInv == CycleInv /\ SavedInv /\ QuietInv

\* What the contract sees of the table, step by step.
SeesBatch ==
  /\ step = 0 => BatchOfCycle = "none"
  /\ step = 1 => BatchOfCycle = IF ActiveIds = {} THEN "none" ELSE "open"
  /\ step \in 2 .. 4 => BatchOfCycle = "open"
  /\ step = 5 => BatchOfCycle = IF OwnSaved THEN "saved" ELSE "open"

LEMMA BatchSeen ==
  ASSUME FitInv
  PROVE  SeesBatch
  <1>1. TypeOK /\ RowsInv /\ SavedInv /\ OwnInv /\ "stop_batch" \notin plc
    BY DEF FitInv, CycleInv, TableInv, QuietInv, LineInv
  <1>2. Concerned = {i \in 1 .. Len(batches) : batches[i].cycle = cycle}
    BY <1>1 DEF RowsInv, Concerned, ActiveIds
  <1>3. \A i \in 1 .. Len(batches) : batches[i].cycle = cycle => Concerned = {i}
    BY <1>1, <1>2 DEF RowsInv
  <1>4. ASSUME step = 0 PROVE BatchOfCycle = "none"
    BY <1>1, <1>4 DEF RowsInv, BatchOfCycle
  <1>5. ASSUME step = 1, ActiveIds = {} PROVE BatchOfCycle = "none"
    <2>1. Concerned = {}
      BY <1>1, <1>2, <1>5 DEF RowsInv
    <2> QED
      BY <2>1 DEF BatchOfCycle
  <1>6. ASSUME NEW i \in ActiveIds PROVE BatchOfCycle = "open"
    <2>1. /\ i \in 1 .. Len(batches) /\ batches[i].cycle = cycle
          /\ batches[i].status = "active" /\ Concerned = {i}
      BY <1>1, <1>3, <1>6 DEF RowsInv, ActiveIds
    <2>2. (CHOOSE j \in Concerned : TRUE) = i
      BY <2>1
    <2> QED
      BY <1>6, <2>1, <2>2 DEF BatchOfCycle
  <1>7. ASSUME step = 5, OwnSaved PROVE BatchOfCycle = "saved"
    <2>1. PICK i \in 1 .. Len(batches) :
            /\ batches[i].cycle = cycle
            /\ batches[i].status = "completed"
            /\ batches[i].weights = cycle
      BY <1>7 DEF OwnSaved
    <2>2. Concerned = {i}
      BY <1>3, <2>1
    <2>3. (CHOOSE j \in Concerned : TRUE) = i
      BY <2>2
    <2> QED
      BY <1>7, <2>1, <2>2, <2>3 DEF BatchOfCycle
  <1>8. OwnOpen => \E i \in ActiveIds : TRUE
    BY DEF OwnOpen
  <1>9. step \in 2 .. 4 => OwnOpen
    BY <1>1 DEF OwnInv
  <1>10. step = 5 => OwnOpen \/ OwnSaved
    BY <1>1 DEF SavedInv
  <1> QED
    BY <1>4, <1>5, <1>6, <1>7, <1>8, <1>9, <1>10 DEF SeesBatch

LEMMA PhaseIs ==
  /\ step = 0 => Phase = "idle"
  /\ step = 1 => Phase = "requested"
  /\ step \in 2 .. 5 => Phase = "running"
  BY DEF Phase

ContractStep == Contract!Next \/ UNCHANGED <<Phase, BatchOfCycle>>

\* A step that leaves the PLC in its step, and the table alone.
LEMMA ContractStutters ==
  ASSUME UNCHANGED <<step, cycle, batches>>
  PROVE  ContractStep
  BY DEF ContractStep, Phase, BatchOfCycle, Concerned, ActiveIds

LEMMA PlcContract ==
  ASSUME Patient, FitInv, SeesBatch, SeesBatch', PlcScan
  PROVE  ContractStep
  <1>1. /\ UNCHANGED batches /\ step \in 0 .. 5 /\ "stop_batch" \notin plc
        /\ RowsInv /\ OwnInv /\ SavedInv
    BY DEF PlcScan, djangoVars, FitInv, CycleInv, TableInv, TypeOK, QuietInv, LineInv
  <1>2. ActiveIds' = ActiveIds
    BY <1>1 DEF ActiveIds
  <1>3. /\ step' = 0 => Phase' = "idle"
        /\ step' = 1 => Phase' = "requested"
        /\ step' \in 2 .. 5 => Phase' = "running"
    BY DEF Phase
  <1>4. CASE PlcStop \/ PlcIdle
    BY <1>1, <1>4, ContractStutters DEF PlcStop, PlcIdle, plcVars
  <1>5. CASE PlcStart
    <2>1. step = 0 /\ step' = 1 /\ ActiveIds = {}
      BY <1>1, <1>5 DEF PlcStart, RowsInv
    <2>2. BatchOfCycle = "none" /\ BatchOfCycle' = "none"
      BY <1>2, <2>1 DEF SeesBatch
    <2>3. Contract!Request
      BY <1>3, <2>1, <2>2, PhaseIs DEF Contract!Request
    <2> QED
      BY <2>3 DEF ContractStep, Contract!Next
  <1>6. CASE PlcActivate
    <2>1. step = 1 /\ step' = 2 /\ Coming("response_batch_create")
      BY <1>6 DEF PlcActivate, Coming
    <2>2. ActiveIds # {}
      BY <1>1, <2>1 DEF OwnInv, OwnOpen
    <2>3. BatchOfCycle = "open" /\ BatchOfCycle' = "open"
      BY <2>1, <2>2 DEF SeesBatch
    <2>4. Contract!Run
      BY <1>3, <2>1, <2>3, PhaseIs DEF Contract!Run
    <2> QED
      BY <2>4 DEF ContractStep, Contract!Next
  <1>7. CASE PlcAdvance \/ PlcWeigh
    <2>1. step \in 2 .. 4 /\ step' \in 3 .. 5 /\ cycle' = cycle
      BY <1>7 DEF PlcAdvance, PlcWeigh
    <2>2. OwnOpen
      BY <1>1, <2>1 DEF OwnInv
    <2>3. ~ OwnSaved
      BY <1>1, <2>2, SavedAlone DEF OwnOpen
    <2>4. ~ OwnSaved'
      BY <1>1, <2>1, <2>3 DEF OwnSaved
    <2>5. BatchOfCycle = "open" /\ BatchOfCycle' = "open"
      BY <2>1, <2>4 DEF SeesBatch
    <2>6. Phase = "running" /\ Phase' = "running"
      BY <1>3, <2>1, PhaseIs
    <2> QED
      BY <2>5, <2>6 DEF ContractStep
  <1>8. CASE PlcFinish
    <2>1. step = 5 /\ step' = 0 /\ Coming("response_batch_complete")
      BY <1>8 DEF PlcFinish, Coming
    <2>2. OwnSaved
      BY <1>1, <2>1 DEF SavedInv
    <2>3. BatchOfCycle = "saved" /\ BatchOfCycle' = "none"
      BY <2>1, <2>2 DEF SeesBatch
    <2>4. Contract!Finish
      BY <1>3, <2>1, <2>3, PhaseIs DEF Contract!Finish
    <2> QED
      BY <2>4 DEF ContractStep, Contract!Next
  <1> QED
    BY <1>4, <1>5, <1>6, <1>7, <1>8 DEF PlcScan

LEMMA CeleryContract ==
  ASSUME FitInv, SeesBatch, SeesBatch', Celery
  PROVE  ContractStep
  <1>1. PICK t \in BagToSet(tasks) : RunTask(t) \/ DropTask(t)
    BY DEF Celery
  <1>2. /\ step' = step /\ cycle' = cycle /\ step \in 0 .. 5
        /\ TableInv /\ TaskFits(t) /\ "stop_batch" \notin plc
        /\ batches \in Seq(BatchType)
    BY DEF Celery, plcVars, FitInv, CycleInv, LinkInv, TableInv, TypeOK, QuietInv, LineInv
  <1>3. Phase' = Phase
    BY <1>2 DEF Phase
  <1>4. CASE BatchOfCycle' = BatchOfCycle
    BY <1>3, <1>4 DEF ContractStep
  <1>5. CASE step = 0 \/ step \in 2 .. 4
    BY <1>2, <1>4, <1>5 DEF SeesBatch
  <1>6. CASE step = 1
    <2>1. CASE ActiveIds = {}
      <3>1. BatchOfCycle = "none" /\ BatchOfCycle' \in {"none", "open"}
        BY <1>2, <1>6, <2>1 DEF SeesBatch
      <3>2. CASE BatchOfCycle' = "open"
        <4>1. Contract!Open
          BY <1>3, <1>6, <3>1, <3>2, PhaseIs DEF Contract!Open
        <4> QED
          BY <4>1 DEF ContractStep, Contract!Next
      <3> QED
        BY <1>4, <3>1, <3>2
    <2>2. CASE ActiveIds # {}
      <3>1. t.kind # "autogas_batch_complete" /\ t.kind # "autogas_batch_stopped"
        BY <1>2, <1>6 DEF TaskFits
      <3>2. batches' = batches
        BY <1>1, <2>2, <3>1, OpenStays
      <3> QED
        BY <1>2, <3>2, ContractStutters
    <2> QED
      BY <2>1, <2>2
  <1>7. CASE step = 5
    <2>1. CASE OwnSaved
      <3>1. OwnSaved'
        BY <1>1, <1>2, <2>1, TaskStep, SavedStays
      <3>2. BatchOfCycle' = BatchOfCycle
        BY <1>2, <1>7, <2>1, <3>1 DEF SeesBatch
      <3> QED
        BY <1>4, <3>2
    <2>2. CASE ~ OwnSaved
      <3>1. BatchOfCycle = "open" /\ BatchOfCycle' \in {"open", "saved"}
        BY <1>2, <1>7, <2>2 DEF SeesBatch
      <3>2. CASE BatchOfCycle' = "saved"
        <4>1. Contract!Save
          BY <1>3, <1>7, <3>1, <3>2, PhaseIs DEF Contract!Save
        <4> QED
          BY <4>1 DEF ContractStep, Contract!Next
      <3> QED
        BY <1>4, <3>1, <3>2
    <2> QED
      BY <2>1, <2>2
  <1> QED
    BY <1>2, <1>5, <1>6, <1>7

LEMMA ContractNext ==
  ASSUME Patient, FitInv, SeesBatch, SeesBatch', [Next]_vars
  PROVE  ContractStep
  <1>1. CASE PlcScan
    BY <1>1, PlcContract
  <1>2. CASE Celery
    BY <1>2, CeleryContract
  <1>3. CASE \/ Panel \/ BridgeConnect \/ BridgeInitialRead \/ BridgePublish
             \/ BridgePublishWeights \/ BridgeWrite \/ BridgeLoss \/ UNCHANGED vars
    <2>1. UNCHANGED <<step, cycle, batches>>
      BY <1>3
      DEF Panel, BridgeConnect, BridgeInitialRead, BridgePublish, BridgePublishWeights,
          BridgeWrite, BridgeLoss, vars, plcVars, djangoVars
    <2> QED
      BY <2>1, ContractStutters
  <1> QED
    BY <1>1, <1>2, <1>3 DEF Next

\* PLC, bridge, workers and table keep the contract of the cycle, whatever tasks
\* are not sent, expire, die half way or meet an error of the database: the
\* batch is opened while the PLC waits for it, then run, saved with its own
\* weights, and only then does the PLC return to its initial state.
THEOREM KeepsContractHolds ==
  ASSUME Patient, Undisturbed, RequestWithAnswer, WeightsWithRequest
  PROVE  Spec => KeepsContract
  <1>1. Init => FitInv
    <2>1. Init => step = 0 /\ plc = {} /\ queue = <<>>
      BY DEF Init, Bridge!BridgeInit
    <2>2. Init => SavedInv
      <3> SUFFICES ASSUME Init PROVE SavedInv
        OBVIOUS
      <3>1. Writes(queue) = {}
        BY <2>1 DEF Writes
      <3> QED
        BY <2>1, <3>1 DEF SavedInv, Coming
    <2> QED
      BY <2>2, CycleInit, QuietInit DEF FitInv
  <1>2. FitInv /\ [Next]_vars => FitInv'
    BY CycleNext, SavedNext, QuietNext DEF FitInv
  <1>3. FitInv => SeesBatch
    BY BatchSeen
  <1>4. Init => Contract!Init
    <2>1. Init => Phase = "idle" /\ BatchOfCycle = "none"
      BY <1>1, <1>3, PhaseIs DEF Init, SeesBatch
    <2> QED
      BY <2>1 DEF Contract!Init
  <1>5. FitInv /\ SeesBatch /\ SeesBatch' /\ [Next]_vars
          => [Contract!Next]_<<Phase, BatchOfCycle>>
    BY ContractNext DEF ContractStep
  <1> QED
    BY <1>1, <1>2, <1>3, <1>4, <1>5, PTL DEF Spec, KeepsContract, Contract!Spec

=============================================================================
