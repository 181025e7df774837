------------------------ MODULE RailwayScales_proofs ------------------------
(***************************************************************************)
(* Theorems about RailwayScales, for every sequence of weighings and every *)
(* number of requests and mishaps.                                         *)
(***************************************************************************)
EXTENDS RailwayScales, FiniteSetTheorems, SequenceTheorems,
        WellFoundedInduction, TLAPS

-----------------------------------------------------------------------------
(* Numbers, bags, tags.                                                    *)

\* A set of numbers up to n that is not empty has a greatest element.
LEMMA Greatest ==
  ASSUME NEW n \in Nat, NEW T, T \subseteq 0 .. n, T # {}
  PROVE  \E x \in T : \A y \in T : y <= x
  <1> DEFINE Above(k) == k .. n
             B == {Above(k) : k \in T}
             R == StrictSubsetOrdering(Nat)
  <1>1. B \subseteq FiniteSubsetsOf(Nat) /\ B # {}
    <2>1. ASSUME NEW k \in T PROVE Above(k) \in FiniteSubsetsOf(Nat)
      <3>1. k \in Nat /\ k .. n \subseteq Nat
        OBVIOUS
      <3>2. IsFiniteSet(k .. n)
        BY <3>1, FS_Interval
      <3> QED
        BY <3>1, <3>2 DEF FiniteSubsetsOf
    <2> QED
      BY <2>1
  <1>2. IsWellFoundedOn(R, FiniteSubsetsOf(Nat))
    BY FS_StrictSubsetOrderingWellFounded
  <1> HIDE DEF B, R
  <1>3. PICK b \in B : \A c \in B : ~ (<<c, b>> \in R)
    BY <1>1, <1>2, WFMin
  <1>4. PICK x \in T : b = Above(x)
    BY DEF B
  <1>5. ASSUME NEW y \in T PROVE y <= x
    <2>1. Above(y) \in B
      BY DEF B
    <2>2. ~ (<<Above(y), Above(x)>> \in R)
      BY <2>1, <1>3, <1>4
    <2>3. Above(y) \subseteq Nat /\ Above(x) \subseteq Nat
      OBVIOUS
    <2>4. CASE y > x
      <3>1. Above(y) \subseteq Above(x) /\ x \in Above(x) /\ x \notin Above(y)
        BY <2>4
      <3> QED
        BY <2>2, <2>3, <3>1 DEF R, StrictSubsetOrdering
    <2> QED
      BY <2>4
  <1> QED
    BY <1>5

LEMMA SetToBagType ==
  ASSUME NEW S
  PROVE  IsABag(SetToBag(S)) /\ BagToSet(SetToBag(S)) = S
  BY DEF IsABag, SetToBag, BagToSet

LEMMA BagAddType ==
  ASSUME NEW B, NEW C, IsABag(B), IsABag(C)
  PROVE  IsABag(B (+) C) /\ BagToSet(B (+) C) = BagToSet(B) \cup BagToSet(C)
  BY DEF IsABag, BagToSet, (+)

LEMMA BagSubType ==
  ASSUME NEW B, NEW C, IsABag(B), IsABag(C)
  PROVE  IsABag(B (-) C) /\ BagToSet(B (-) C) \subseteq BagToSet(B)
  BY DEF IsABag, BagToSet, (-)

LEMMA TagsAre == Tags = {"camera_worked", "active", "type_known"}
  BY DEF Tags, Rank

LEMMA TriggersAre ==
  Triggers = {"railway_batch_started", "railway_batch_ended",
              "railway_camera_worked"}
  BY DEF Triggers, Pos

\* Without forms, every write of a tank or a visit clears the cache; what a
\* request has computed is what it will store, when nothing is written
\* between its two steps.
StatInv ==
  mishaps \cap {"form", "slowread"} = {}
  => /\ form = 0
     /\ stat \in {NoStat, Statistics} /\ query \in {NoStat, Statistics}

-----------------------------------------------------------------------------
LEMMA SameStatistics ==
  ASSUME present' = present, hist' = hist
  PROVE  Statistics' = Statistics
  BY DEF Statistics, RowsOf, FirstRow

\* A step that writes no tank and no visit, and no statistics.
LEMMA TablesAlone ==
  ASSUME StatInv, UNCHANGED <<mishaps, present, hist, stat, query, form>>
  PROVE  StatInv'
  BY SameStatistics DEF StatInv

\* A step that may write tanks and visits.
LEMMA CacheCleared ==
  ASSUME StatInv, UNCHANGED <<mishaps, query, form>>, stat' = NoStat, Quick
  PROVE  StatInv'
  BY DEF StatInv, Quick, NoStat

LEMMA CeleryStep ==
  ASSUME StatInv, Quick, Celery
  PROVE  StatInv'
  <1>1. UNCHANGED <<mishaps, query, form>>
    BY DEF Celery
  <1>2. PICK t \in BagToSet(tasks) : Run(t) \/ Fails(t)
    BY DEF Celery
  <1>3. CASE Fetch(t) \/ Look(t) \/ Insert(t) \/ End(t) \/ Add(t) \/ Fails(t)
    <2>1. UNCHANGED <<present, hist, stat>>
      BY <1>3 DEF Fetch, Look, Insert, End, Add, Fails, tables
    <2> QED
      BY <1>1, <2>1, TablesAlone
  <1>4. CASE SaveTank(t) \/ Book(t)
    <2>1. stat' = NoStat
      BY <1>4 DEF SaveTank, Book
    <2> QED
      BY <1>1, <2>1, CacheCleared
  <1> QED
    BY <1>2, <1>3, <1>4 DEF Run

LEMMA WebStep ==
  ASSUME StatInv, Web
  PROVE  StatInv'
  <1>1. mishaps' = mishaps
    BY DEF Web
  <1>2. CASE Compute
    <2>1. UNCHANGED <<present, hist, stat, form>> /\ query' = Statistics
      BY <1>2 DEF Compute, tables
    <2> QED
      BY <1>1, <2>1, SameStatistics DEF StatInv
  <1>3. CASE KeepInCache
    <2>1. UNCHANGED <<present, hist, form>> /\ stat' = query /\ query' = NoStat
      BY <1>3 DEF KeepInCache, tables
    <2> QED
      BY <1>1, <2>1, SameStatistics DEF StatInv
  <1>4. CASE SaveForm
    <2>1. mishaps \cap {"form", "slowread"} # {}
      BY <1>4 DEF SaveForm, Slip
    <2> QED
      BY <1>1, <2>1 DEF StatInv
  <1>5. CASE CommitForm
    <2>1. mishaps \cap {"form", "slowread"} # {}
      BY <1>5 DEF CommitForm, StatInv
    <2> QED
      BY <1>1, <2>1 DEF StatInv
  <1>6. CASE EditBatch
    <2>1. UNCHANGED <<present, hist, stat, query, form>>
      BY <1>6 DEF EditBatch, webVars
    <2> QED
      BY <1>1, <2>1, TablesAlone
  <1> QED
    BY <1>2, <1>3, <1>4, <1>5, <1>6 DEF Web

-----------------------------------------------------------------------------
\* The cached statistics are those of the tables, for every plan of weighings
\* and whatever becomes of link, bridge, tasks, panel and batches.
THEOREM StatisticsFreshHolds == Spec => []StatisticsFresh
  <1>1. Init => StatInv
    BY DEF Init, StatInv
  <1>2. StatInv /\ [Next]_vars => StatInv'
    <2> SUFFICES ASSUME StatInv, [Next]_vars PROVE StatInv'
      OBVIOUS
    <2>1. CASE Plc
      <3>1. UNCHANGED <<mishaps, present, hist, stat, query, form>>
        BY <2>1 DEF Plc, tables, webVars
      <3> QED
        BY <3>1, TablesAlone
    <2>2. CASE BridgeStep
      <3>1. UNCHANGED <<mishaps, present, hist, stat, query, form>>
        BY <2>2 DEF BridgeStep, tables, webVars
      <3> QED
        BY <3>1, TablesAlone
    <2>3. CASE Quick /\ Celery
      BY <2>3, CeleryStep
    <2>4. CASE Web
      BY <2>4, WebStep
    <2>5. CASE UNCHANGED vars
      <3>1. UNCHANGED <<mishaps, present, hist, stat, query, form>>
        BY <2>5 DEF vars, tables, webVars
      <3> QED
        BY <3>1, TablesAlone
    <2> QED
      BY <2>1, <2>2, <2>3, <2>4, <2>5 DEF Next
  <1>3. StatInv => StatisticsFresh
    BY DEF StatInv, StatisticsFresh
  <1> QED
    BY <1>1, <1>2, <1>3, PTL DEF Spec

-----------------------------------------------------------------------------
(* Type correctness.  A task of the camera knows a weighing, because a tank *)
(* has stood on the scales before the camera worked; and once it has fetched *)
(* a number, that is one of a tank.  The requests to write all reset the    *)
(* camera.                                                                  *)

CameraOff == [tag |-> "camera_worked", val |-> FALSE]

BridgePart == Bridge!BridgeTypeOK /\ queue \in Seq({CameraOff})

ScalePart ==
  /\ turn \in {0} \cup Weighings /\ scale \in {"free", "settling", "stable"}
  /\ reg \in {0} \cup Weighings /\ plate \in {0} \cup Weighings
  /\ btype \in 0 .. 2 /\ moved \in BOOLEAN
  /\ heard \in [type : 0 .. 2, reg : {0} \cup Weighings]
  /\ scale # "free" => turn # 0
  /\ scale = "stable" => reg # 0
  /\ "camera_worked" \in plc \cup sampled \cup snap => reg # 0

TaskOK(t) ==
  /\ t \in Task
  /\ t.kind = "railway_camera_worked" =>
       t.reg # 0 /\ (t.stage # "queued" => t.number # 0)

TasksOK(B) == IsABag(B) /\ \A t \in BagToSet(B) : TaskOK(t)

BatchRow == [active : BOOLEAN, type : 0 .. 2, tanks : SUBSET Numbers]

Visit == [tank : Numbers, arrival : {0} \cup Weighings,
          departure : {0} \cup Weighings]

TablePart ==
  /\ batches \in Seq(BatchRow)
  /\ present \in [Numbers -> {"new", "in", "out"}]
  /\ hist \in Seq(Visit)

WebPart ==
  /\ stat \in StatType /\ query \in StatType /\ queries \in 0 .. MaxQueries
  /\ form \in {0} \cup Numbers

SlipPart == mishaps \in MishapSets /\ slips \in 0 .. MaxSlips

TypeInv ==
  BridgePart /\ ScalePart /\ TasksOK(tasks) /\ TablePart /\ WebPart /\ SlipPart

LEMMA TypeInvGives == TypeInv => TypeOK
  <1> SUFFICES ASSUME TypeInv PROVE TypeOK
    OBVIOUS
  <1>1. IsABag(tasks) /\ BagToSet(tasks) \subseteq Task
    BY DEF TypeInv, TasksOK, TaskOK
  <1> QED
    BY <1>1 DEF TypeInv, TypeOK, BridgePart, ScalePart, TablePart, WebPart, SlipPart,
                BatchRow, Visit

LEMMA RowIs ==
  ASSUME NEW S, NEW s \in Seq(S), NEW i \in DOMAIN s
  PROVE  s[i] \in S
  BY LenProperties, ElementOfSeq

LEMMA PutRow ==
  ASSUME NEW S, NEW s \in Seq(S), NEW i, NEW e, i \in DOMAIN s => e \in S
  PROVE  [s EXCEPT ![i] = e] \in Seq(S)
  <1>1. CASE i \in 1 .. Len(s)
    BY <1>1, ExceptSeq
  <1>2. CASE i \notin 1 .. Len(s)
    <2>1. [s EXCEPT ![i] = e] = s
      BY <1>2
    <2> QED
      BY <2>1
  <1> QED
    BY <1>1, <1>2

LEMMA AddTasks ==
  ASSUME NEW B, TasksOK(B), NEW S, \A t \in S : TaskOK(t)
  PROVE  TasksOK(B (+) SetToBag(S))
  BY SetToBagType, BagAddType DEF TasksOK

LEMMA RemoveTask ==
  ASSUME NEW B, TasksOK(B), NEW t
  PROVE  TasksOK(B (-) SetToBag({t}))
  BY SetToBagType, BagSubType DEF TasksOK

LEMMA PlanType ==
  /\ Weighings = 1 .. Len(Plan) /\ Len(Plan) \in Nat
  /\ \A w \in Weighings : Plan[w].tank \in Numbers /\ Plan[w].full \in BOOLEAN
  /\ Numbers \subseteq Nat \ {0}
  <1>1. Plan \in Seq([tank : Nat \ {0}, full : BOOLEAN])
    BY PlanIsSequence
  <1>2. DOMAIN Plan = 1 .. Len(Plan) /\ Len(Plan) \in Nat
    BY <1>1
  <1>3. \A w \in 1 .. Len(Plan) : Plan[w] \in [tank : Nat \ {0}, full : BOOLEAN]
    BY <1>1, ElementOfSeq
  <1> QED
    BY <1>2, <1>3 DEF Weighings, Numbers

\* Each request to write says the same.
LEMMA QueueType ==
  /\ \A q \in Seq({CameraOff}) :
       /\ q \in Seq(Bridge!Write)
       /\ q # <<>> => Head(q) = CameraOff /\ Tail(q) \in Seq({CameraOff})
       /\ q \o <<CameraOff>> \in Seq({CameraOff})
  <1>1. CameraOff \in Bridge!Write
    BY TagsAre DEF CameraOff, Bridge!Write
  <1> SUFFICES ASSUME NEW q \in Seq({CameraOff})
               PROVE  /\ q \in Seq(Bridge!Write)
                      /\ q # <<>> => Head(q) = CameraOff /\ Tail(q) \in Seq({CameraOff})
                      /\ q \o <<CameraOff>> \in Seq({CameraOff})
    OBVIOUS
  <1>2. q \in Seq(Bridge!Write)
    <2>1. \A i \in 1 .. Len(q) : q[i] \in Bridge!Write
      BY <1>1
    <2> QED
      BY <2>1
  <1>3. ASSUME q # <<>> PROVE Head(q) = CameraOff /\ Tail(q) \in Seq({CameraOff})
    BY <1>3
  <1>4. q \o <<CameraOff>> \in Seq({CameraOff})
    OBVIOUS
  <1> QED
    BY <1>2, <1>3, <1>4

LEMMA ResetCamera ==
  ASSUME NEW s
  PROVE  /\ Bridge!SetTag(s, CameraOff) \subseteq s
         /\ Bridge!SetTag(s, CameraOff) = s \ {"camera_worked"}
  BY DEF Bridge!SetTag, CameraOff

LEMMA InitType == Init => TypeInv
  <1> SUFFICES ASSUME Init PROVE TypeInv
    OBVIOUS
  <1>1. BridgePart
    <2>1. Bridge!BridgeInit
      BY DEF Init
    <2>2. /\ queue \in Seq(Bridge!Write) /\ queue \in Seq({CameraOff})
          /\ attempt \in 0 .. (MaxAttempts - 1)
      BY <2>1, RailwayBounds DEF Bridge!BridgeInit
    <2>3. initialized \in BOOLEAN /\ orphan \in BOOLEAN
      BY <2>1 DEF Bridge!BridgeInit
    <2> QED
      BY <2>1, <2>2, <2>3 DEF Bridge!BridgeInit, Bridge!BridgeTypeOK, BridgePart
  <1>2. ScalePart
    <2>1. /\ turn = 0 /\ scale = "free" /\ reg = 0 /\ btype = 0 /\ moved = FALSE
          /\ heard = [type |-> 0, reg |-> 0] /\ plate = 0
          /\ plc = {} /\ sampled = {} /\ snap = {}
      BY DEF Init, Bridge!BridgeInit
    <2>2. heard \in [type : 0 .. 2, reg : {0} \cup Weighings]
      BY <2>1
    <2> QED
      BY <2>1, <2>2 DEF ScalePart
  <1>3. TasksOK(tasks)
    BY SetToBagType DEF Init, EmptyBag, TasksOK
  <1>4. TablePart
    BY DEF Init, TablePart
  <1>5. WebPart
    BY RailwayBounds DEF Init, WebPart, NoStat, StatType
  <1>6. SlipPart
    BY RailwayBounds DEF Init, SlipPart
  <1> QED
    BY <1>1, <1>2, <1>3, <1>4, <1>5, <1>6 DEF TypeInv

LEMMA SlipType ==
  ASSUME SlipPart, mishaps' = mishaps,
         slips' = slips \/ (\E kind : Slip(kind))
  PROVE  SlipPart'
  BY RailwayBounds DEF SlipPart, Slip

LEMMA ScaleStands ==
  ASSUME ScalePart, UNCHANGED <<turn, scale, reg, plate, heard, sampled, snap>>,
         moved' = FALSE, btype' \in {0, btype},
         "camera_worked" \in plc' => "camera_worked" \in plc
  PROVE  ScalePart'
  <1>1. moved' \in BOOLEAN
    OBVIOUS
  <1>2. btype' \in 0 .. 2
    <2>1. btype \in 0 .. 2 /\ 0 \in 0 .. 2
      BY DEF ScalePart
    <2> QED
      BY <2>1
  <1>3. "camera_worked" \in plc' \cup sampled' \cup snap' => reg' # 0
    BY DEF ScalePart
  <1> QED
    BY <1>1, <1>2, <1>3 DEF ScalePart

LEMMA PlcType ==
  ASSUME TypeInv, Plc
  PROVE  TypeInv'
  <1> USE DEF TypeInv
  <1>1. UNCHANGED <<bridgeRest, queue, mishaps, heard, tasks, tables, webVars>>
    BY DEF Plc
  <1>2. TasksOK(tasks)' /\ TablePart' /\ WebPart'
    BY <1>1 DEF TasksOK, TablePart, WebPart, tables, webVars
  <1>3. SlipPart' /\ ScalePart' /\ plc' \subseteq Tags
    <2>1. plc \subseteq Tags
      BY DEF BridgePart, Bridge!BridgeTypeOK
    <2>2. sampled' = sampled /\ snap' = snap
      BY <1>1 DEF bridgeRest
    <2>3. CASE Roll
      <3>1. slips' = slips \/ Slip("late")
        BY <2>3 DEF Roll, InTime
      <3>2. turn' = turn + 1 /\ turn' \in Weighings /\ turn' # 0
        BY <2>3, PlanType DEF Roll, ScalePart
      <3> QED
        BY <1>1, <2>1, <2>2, <2>3, <3>1, <3>2, SlipType DEF Roll, ScalePart
    <2>4. CASE Stabilize
      <3>1. slips' = slips \/ Slip("late")
        BY <2>4 DEF Stabilize
      <3>2. /\ reg' = turn /\ turn # 0 /\ scale' = "stable" /\ moved' = TRUE
            /\ UNCHANGED <<turn, plate>>
        BY <2>4 DEF Stabilize, ScalePart
      <3>3. plc' \subseteq Tags /\ btype' \in 0 .. 2
        <4>1. CASE "active" \in plc
          BY <2>1, <2>4, <4>1 DEF Stabilize, ScalePart
        <4>2. CASE "active" \notin plc
          <5>1. /\ btype' = IF Plan[turn].full THEN 1 ELSE 2
                /\ plc' = plc \cup {"active", "type_known"}
            BY <2>4, <4>2 DEF Stabilize
          <5>2. btype' \in 0 .. 2
            BY <5>1
          <5> QED
            BY <2>1, <5>1, <5>2, TagsAre
        <4> QED
          BY <4>1, <4>2
      <3> QED
        BY <1>1, <3>1, <3>2, <3>3, SlipType DEF ScalePart
    <2>5. CASE Shoot
      <3>1. slips' = slips \/ Slip("unplated") \/ Slip("twice")
        BY <2>5 DEF Shoot
      <3>2. /\ UNCHANGED <<turn, reg, btype, moved>>
            /\ reg # 0 /\ turn # 0 /\ plc' \subseteq Tags
            /\ plate' \in {0} \cup Weighings /\ scale' \in {"free", "settling"}
        <4>1. /\ turn \in {0} \cup Weighings /\ plate \in {0} \cup Weighings
              /\ reg # 0 /\ turn # 0
          BY <2>5 DEF Shoot, ScalePart
        <4>2. plc' \subseteq Tags
          BY <2>1, <2>5, TagsAre DEF Shoot
        <4> QED
          BY <2>5, <4>1, <4>2 DEF Shoot
      <3> QED
        BY <1>1, <3>1, <3>2, SlipType DEF ScalePart
    <2>6. CASE Complete
      <3>1. slips' = slips \/ Slip("late")
        BY <2>6 DEF Complete, InTime
      <3>2. /\ plc' \subseteq plc /\ btype' = 0 /\ moved' = FALSE
            /\ UNCHANGED <<turn, scale, reg, plate>>
        BY <2>6 DEF Complete, EndBatch
      <3>3. SlipPart'
        BY <1>1, <3>1, SlipType
      <3>4. ScalePart'
        BY <1>1, <2>2, <3>2, ScaleStands
      <3> QED
        BY <2>1, <3>2, <3>3, <3>4
    <2>7. CASE Panel
      <3>1. Slip("manual")
        BY <2>7 DEF Panel
      <3>2. /\ plc' \subseteq plc \cup {"active"} /\ btype' \in {0, btype}
            /\ moved' = FALSE /\ UNCHANGED <<turn, scale, reg, plate>>
        BY <2>7 DEF Panel, EndBatch
      <3> QED
        <4>1. SlipPart'
          BY <1>1, <3>1, SlipType
        <4>2. plc' \subseteq Tags
          BY <2>1, <3>2, TagsAre
        <4>3. "camera_worked" \in plc' => "camera_worked" \in plc
          BY <3>2
        <4>4. ScalePart'
          BY <1>1, <2>2, <3>2, <4>3, ScaleStands
        <4> QED
          BY <4>1, <4>2, <4>4
    <2> QED
      BY <2>3, <2>4, <2>5, <2>6, <2>7 DEF Plc
  <1>4. BridgePart'
    BY <1>1, <1>3 DEF BridgePart, Bridge!BridgeTypeOK, bridgeRest
  <1> QED
    BY <1>2, <1>3, <1>4

\* What the dispatcher fires are triggers, and the camera only with its tag.
LEMMA FiresAre ==
  ASSUME NEW S
  PROVE  /\ Bridge!InitialReadFires \subseteq Triggers
         /\ Bridge!PublishFires(S) \subseteq Triggers
         /\ "railway_camera_worked" \in Bridge!InitialReadFires
              => "camera_worked" \in plc
         /\ "railway_camera_worked" \in Bridge!PublishFires(S)
              => "camera_worked" \in plc \cup snap
  <1>1. Pos["railway_camera_worked"] = {"camera_worked"}
    BY DEF Pos
  <1>2. ASSUME NEW s, Bridge!Active("railway_camera_worked", s)
        PROVE  "camera_worked" \in s
    BY <1>1, <1>2 DEF Bridge!Active
  <1>3. \A i : Bridge!Merged(S, i) \subseteq plc \cup snap
    BY DEF Bridge!Merged
  <1> QED
    BY <1>2, <1>3 DEF Bridge!InitialReadFires, Bridge!PublishFires, Bridge!MayFire

\* The tasks that a snapshot makes.
LEMMA SentType ==
  ASSUME TypeInv, NEW fires \in SUBSET Triggers, Sent(fires),
         heard' \in [type : 0 .. 2, reg : {0} \cup Weighings],
         "railway_camera_worked" \in fires => heard'.reg # 0
  PROVE  TasksOK(tasks')
  <1>1. TasksOK(tasks)
    BY DEF TypeInv
  <1>2. ASSUME NEW tr \in fires PROVE TaskOK(NewTask(tr, heard'))
    <2>1. heard'.type \in 0 .. 2 /\ heard'.reg \in {0} \cup Weighings
      OBVIOUS
    <2>2. /\ NewTask(tr, heard').kind = tr
          /\ NewTask(tr, heard').reg = heard'.reg
          /\ NewTask(tr, heard').stage = "queued"
      BY DEF NewTask
    <2>3. NewTask(tr, heard') \in Task
      BY <2>1 DEF NewTask, Task
    <2> QED
      BY <2>2, <2>3 DEF TaskOK
  <1>3. TasksOK(tasks (+) SetToBag({NewTask(tr, heard') : tr \in fires}))
    BY <1>1, <1>2, AddTasks
  <1> QED
    BY <1>1, <1>3 DEF Sent

LEMMA BridgeType ==
  ASSUME TypeInv, BridgeStep
  PROVE  TypeInv'
  <1>1. UNCHANGED <<mishaps, scaleVars, tables, webVars>>
    BY DEF BridgeStep
  <1>2. TablePart' /\ WebPart'
    BY <1>1 DEF TypeInv, TablePart, WebPart, tables, webVars
  <1>3. /\ BridgePart /\ Bridge!BridgeTypeOK /\ queue \in Seq({CameraOff})
        /\ ScalePart /\ TasksOK(tasks) /\ SlipPart
    BY DEF TypeInv, BridgePart
  <1>4. UNCHANGED <<turn, scale, reg, plate, btype, moved>> /\ mishaps' = mishaps
    BY <1>1 DEF scaleVars
  <1>5. ASSUME UNCHANGED heard,
               "camera_worked" \in plc' \cup sampled' \cup snap' =>
                 "camera_worked" \in plc \cup sampled \cup snap
        PROVE  ScalePart'
    BY <1>3, <1>4, <1>5 DEF ScalePart
  <1>6. plc \subseteq Tags /\ sampled \subseteq Tags /\ snap \subseteq Tags
    BY <1>3 DEF Bridge!BridgeTypeOK
  <1>7. CASE Connect
    <2>1. BridgePart'
      BY <1>3, <1>7 DEF BridgePart, Connect, Bridge!Connect, Bridge!BridgeTypeOK
    <2>2. UNCHANGED <<slips, heard, tasks, plc, sampled, snap>>
      BY <1>7 DEF Connect, Bridge!Connect
    <2> QED
      BY <1>2, <1>3, <1>4, <1>5, <2>1, <2>2 DEF TypeInv, TasksOK, SlipPart
  <1>8. CASE InitialRead
    <2>1. /\ heard' = [type |-> btype, reg |-> reg]
          /\ Sent(Bridge!InitialReadFires)
          /\ Bridge!InitialRead(Arrived(Bridge!InitialReadFires))
      BY <1>8 DEF InitialRead
    <2>2. heard' \in [type : 0 .. 2, reg : {0} \cup Weighings] /\ heard'.reg = reg
      BY <1>3, <2>1 DEF ScalePart
    <2>3. TasksOK(tasks')
      BY <1>3, <2>1, <2>2, FiresAre, SentType DEF ScalePart
    <2>4. BridgePart'
      BY <1>3, <2>1
      DEF BridgePart, Bridge!InitialRead, Bridge!OnSnapshot, Bridge!BridgeTypeOK
    <2>5. plc' = plc /\ sampled' = plc /\ snap' = plc
      BY <2>1 DEF Bridge!InitialRead, Bridge!OnSnapshot
    <2>6. ScalePart'
      BY <1>3, <1>4, <2>2, <2>5 DEF ScalePart
    <2>7. SlipPart'
      BY <1>3, <1>4, <2>1, SlipType DEF Sent
    <2> QED
      BY <1>2, <2>3, <2>4, <2>6, <2>7 DEF TypeInv
  <1>9. CASE Publish
    <2>1. PICK S \in {Tags} \cup (IF "apart" \in mishaps THEN {{t} : t \in Tags} ELSE {}) :
            /\ heard' = [type |-> IF "type_known" \in S THEN btype ELSE heard.type,
                         reg |-> reg]
            /\ Sent(Bridge!PublishFires(S))
            /\ Bridge!Publish(S, Arrived(Bridge!PublishFires(S)))
      BY <1>9 DEF Publish
    <2>2. heard' \in [type : 0 .. 2, reg : {0} \cup Weighings] /\ heard'.reg = reg
      BY <1>3, <2>1 DEF ScalePart
    <2>3. TasksOK(tasks')
      BY <1>3, <2>1, <2>2, FiresAre, SentType DEF ScalePart
    <2>4. /\ plc' = plc
          /\ sampled' \subseteq sampled \cup plc
          /\ snap' \subseteq snap \cup plc
          /\ UNCHANGED <<link, queue, attempt, orphan>>
          /\ initialized' = TRUE /\ idem' \subseteq idem \cup {"railway_batch_started", "railway_batch_ended"}
      BY <2>1 DEF Bridge!Publish, Bridge!OnSnapshot
    <2>5. BridgePart'
      BY <1>3, <2>4 DEF BridgePart, Bridge!BridgeTypeOK
    <2>6. ScalePart'
      BY <1>3, <1>4, <2>2, <2>4 DEF ScalePart
    <2>7. SlipPart'
      BY <1>3, <1>4, <2>1, SlipType DEF Sent
    <2> QED
      BY <1>2, <2>3, <2>5, <2>6, <2>7 DEF TypeInv
  <1>10. CASE WriteDone
    <2>1. UNCHANGED <<slips, heard, tasks>> /\ Bridge!WriteDone
      BY <1>10 DEF WriteDone
    <2>2. queue # <<>> /\ Head(queue) = CameraOff /\ Tail(queue) \in Seq({CameraOff})
      BY <1>3, <2>1, QueueType DEF Bridge!WriteDone
    <2>3. Tail(queue) \in Seq(Bridge!Write)
      BY <2>2, QueueType
    <2>4. /\ plc' \subseteq plc /\ snap' \subseteq snap /\ sampled' \subseteq sampled
          /\ queue' = Tail(queue) /\ attempt' = 0
          /\ UNCHANGED <<initialized, link, orphan, idem>>
      BY <2>1, <2>2, ResetCamera DEF Bridge!WriteDone
    <2>5. BridgePart'
      BY <1>3, <2>2, <2>3, <2>4, RailwayBounds DEF BridgePart, Bridge!BridgeTypeOK
    <2>6. ScalePart'
      BY <1>5, <2>1, <2>4
    <2> QED
      BY <1>2, <1>3, <1>4, <2>1, <2>5, <2>6 DEF TypeInv, TasksOK, SlipPart
  <1>11. CASE Lose
    <2>1. UNCHANGED <<heard, tasks>>
      BY <1>11 DEF Lose
    <2>2. SlipPart'
      <3>1. slips' = slips \/ Slip("link") \/ Slip("restart") \/ Slip("late")
        BY <1>11 DEF Lose, InTime
      <3> QED
        BY <1>3, <1>4, <3>1, SlipType
    <2>3. queue # <<>> =>
            /\ Head(queue) = CameraOff /\ Tail(queue) \in Seq({CameraOff})
            /\ Tail(queue) \in Seq(Bridge!Write)
      BY <1>3, QueueType
    <2> DEFINE Losing ==
          /\ plc' \subseteq plc /\ snap' \subseteq snap /\ sampled' = sampled
          /\ queue' = queue \/ (queue # <<>> /\ queue' = Tail(queue))
          /\ attempt' \in {0, attempt}
          /\ initialized' \in BOOLEAN /\ orphan' \in BOOLEAN
          /\ link' \in {"down", link} /\ idem' \subseteq idem
    <2>4. Losing
      <3>0. initialized \in BOOLEAN /\ orphan \in BOOLEAN
        BY <1>3 DEF Bridge!BridgeTypeOK
      <3>1. CASE Bridge!Disconnect
        BY <3>0, <3>1, <2>3, ResetCamera DEF Bridge!Disconnect
      <3>2. CASE Bridge!PopForNobody
        BY <3>0, <3>2 DEF Bridge!PopForNobody
      <3>3. CASE Bridge!Restart
        BY <3>0, <3>3 DEF Bridge!Restart
      <3>4. ASSUME NEW tr \in idem, Bridge!ExpireKey(tr)
            PROVE  Losing
        BY <3>0, <3>4 DEF Bridge!ExpireKey
      <3> QED
        BY <1>11, <3>1, <3>2, <3>3, <3>4 DEF Lose
    <2>5. BridgePart'
      BY <1>3, <2>3, <2>4, RailwayBounds DEF BridgePart, Bridge!BridgeTypeOK
    <2>6. ScalePart'
      BY <1>5, <2>1, <2>4
    <2> QED
      BY <1>2, <1>3, <2>1, <2>2, <2>5, <2>6 DEF TypeInv, TasksOK
  <1> QED
    BY <1>7, <1>8, <1>9, <1>10, <1>11 DEF BridgeStep

\* The row that shows a tank is one of its rows.
LEMMA FirstRowIs ==
  ASSUME TablePart, NEW n, RowsOf(n) # {}
  PROVE  FirstRow(n) \in RowsOf(n)
  <1> DEFINE blank == {i \in RowsOf(n) : hist[i].arrival = 0}
             among == IF blank # {} THEN blank ELSE RowsOf(n)
             Dates == {hist[i].arrival : i \in among}
  <1>1. among # {} /\ among \subseteq RowsOf(n)
    OBVIOUS
  <1>2. \A i \in among : hist[i].arrival \in 0 .. Len(Plan)
    <2>1. hist \in Seq(Visit)
      BY DEF TablePart
    <2>2. \A i \in among : i \in 1 .. Len(hist)
      BY <1>1, <2>1 DEF RowsOf
    <2>3. \A i \in among : hist[i] \in Visit
      BY <2>1, <2>2, ElementOfSeq
    <2>4. \A i \in among : hist[i].arrival \in {0} \cup Weighings
      BY <2>3 DEF Visit
    <2>5. {0} \cup Weighings \subseteq 0 .. Len(Plan)
      BY PlanType
    <2> QED
      BY <2>4, <2>5
  <1>3. Dates # {} /\ Dates \subseteq 0 .. Len(Plan)
    BY <1>1, <1>2
  <1> HIDE DEF among
  <1>4. PICK d \in Dates : \A e \in Dates : e <= d
    BY <1>3, PlanType, Greatest
  <1>5. PICK i \in among : d = hist[i].arrival
    BY DEF Dates
  <1>6. \A j \in among : hist[j].arrival <= hist[i].arrival
    BY <1>4, <1>5
  <1>7. FirstRow(n) = CHOOSE k \in among : \A j \in among : hist[j].arrival <= hist[k].arrival
    BY DEF FirstRow, among
  <1>8. FirstRow(n) \in among
    BY <1>5, <1>6, <1>7
  <1> QED
    BY <1>1, <1>8

LEMMA StatisticsType ==
  ASSUME TablePart
  PROVE  Statistics \in StatType
  <1>1. hist \in Seq(Visit)
    BY DEF TablePart
  <1>2. Statistics.left \subseteq Nat \cup {-1}
    BY <1>1 DEF Statistics
  <1>3. ASSUME NEW n, RowsOf(n) # {}
        PROVE  hist[FirstRow(n)].arrival \in {0} \cup Weighings
    <2>1. FirstRow(n) \in 1 .. Len(hist)
      BY <1>1, <1>3, FirstRowIs DEF RowsOf
    <2>2. hist[FirstRow(n)] \in Visit
      BY <1>1, <2>1, ElementOfSeq
    <2> QED
      BY <2>2 DEF Visit
  <1>4. Statistics.here \subseteq Numbers \X ({0} \cup Weighings)
    BY <1>3 DEF Statistics
  <1> QED
    BY <1>2, <1>4 DEF Statistics, StatType

LEMMA ResetType ==
  ASSUME queue \in Seq({CameraOff}), Reset
  PROVE  queue' \in Seq({CameraOff})
  BY QueueType DEF Reset, Bridge!Enqueue, CameraOff

\* Either a task puts nothing into the queue, or it resets the camera.
LEMMA WritesOnly ==
  ASSUME NEW t, Run(t) \/ Fails(t)
  PROVE  queue' = queue \/ Reset
  BY DEF Run, Fails, Fetch, Look, Insert, End, SaveTank, Book, Add

\* Tasks that go on to their next stage.
LEMMA RunTasks ==
  ASSUME TypeInv, NEW t \in BagToSet(tasks), Run(t) \/ Fails(t)
  PROVE  TasksOK(tasks')
  <1>1. TasksOK(tasks) /\ TaskOK(t) /\ t \in Task
    BY DEF TypeInv, TasksOK, TaskOK
  <1>2. Done(t) => TasksOK(tasks')
    BY <1>1, RemoveTask DEF Done
  <1>3. ASSUME NEW u, TaskOK(u), Becomes(t, u)
        PROVE  TasksOK(tasks')
    BY <1>1, <1>3, RemoveTask, AddTasks DEF Becomes
  <1>4. ASSUME NEW s \in {"insert", "book", "add"}, t.stage # "queued" \/ t.kind # "railway_camera_worked"
        PROVE  TaskOK([t EXCEPT !.stage = s])
    BY <1>1, <1>4 DEF TaskOK, Task
  <1>5. CASE Fetch(t)
    <2>1. CASE plate # 0 /\ Becomes(t, [t EXCEPT !.stage = "save", !.number = Plan[plate].tank])
      <3> DEFINE m == Plan[plate].tank
                 u == [t EXCEPT !.stage = "save", !.number = m]
      <3>1. m \in Numbers /\ m # 0
        BY <2>1, PlanType DEF TypeInv, ScalePart
      <3> HIDE DEF m
      <3>2. u \in Task /\ u.kind = t.kind /\ u.reg = t.reg /\ u.number = m
        BY <1>1, <3>1 DEF Task
      <3>3. TaskOK(u)
        BY <1>1, <3>1, <3>2 DEF TaskOK
      <3> QED
        BY <1>3, <2>1, <3>3 DEF m
    <2> QED
      BY <1>2, <1>5, <2>1 DEF Fetch
  <1>6. CASE Look(t)
    BY <1>2, <1>3, <1>4, <1>6 DEF Look, Waits
  <1>7. CASE SaveTank(t)
    BY <1>3, <1>4, <1>7 DEF SaveTank, Waits
  <1>8. CASE Book(t)
    BY <1>3, <1>4, <1>8 DEF Book, Waits
  <1>9. CASE Insert(t) \/ End(t) \/ Add(t) \/ Fails(t)
    BY <1>2, <1>9 DEF Insert, End, Add, Fails
  <1> QED
    BY <1>5, <1>6, <1>7, <1>8, <1>9 DEF Run

LEMMA NewBatch ==
  ASSUME TablePart, NEW k \in 0 .. 2
  PROVE  Append(batches, [active |-> TRUE, type |-> k, tanks |-> {}]) \in Seq(BatchRow)
  <1>1. [active |-> TRUE, type |-> k, tanks |-> {}] \in BatchRow
    BY DEF BatchRow
  <1> QED
    BY <1>1 DEF TablePart

LEMMA PutBatch ==
  ASSUME TablePart, NEW i, NEW a \in BOOLEAN, NEW k \in 0 .. 2, NEW S \in SUBSET Numbers
  PROVE  /\ [batches EXCEPT ![i].active = a] \in Seq(BatchRow)
         /\ [batches EXCEPT ![i].type = k] \in Seq(BatchRow)
         /\ [batches EXCEPT ![i].tanks = S] \in Seq(BatchRow)
  <1> DEFINE b == batches[i]
  <1>1. batches \in Seq(BatchRow)
    BY DEF TablePart
  <1>2. i \in DOMAIN batches => b \in BatchRow
    BY <1>1, RowIs
  <1>3. /\ i \in DOMAIN batches => [b EXCEPT !.active = a] \in BatchRow
        /\ i \in DOMAIN batches => [b EXCEPT !.type = k] \in BatchRow
        /\ i \in DOMAIN batches => [b EXCEPT !.tanks = S] \in BatchRow
    <2> HIDE DEF b
    <2> QED
      BY <1>2 DEF BatchRow
  <1>4. /\ [batches EXCEPT ![i] = [b EXCEPT !.active = a]] \in Seq(BatchRow)
        /\ [batches EXCEPT ![i] = [b EXCEPT !.type = k]] \in Seq(BatchRow)
        /\ [batches EXCEPT ![i] = [b EXCEPT !.tanks = S]] \in Seq(BatchRow)
    BY <1>1, <1>3, PutRow
  <1> QED
    BY <1>4

LEMMA RunTables ==
  ASSUME TypeInv, NEW t \in BagToSet(tasks), Run(t) \/ Fails(t)
  PROVE  TablePart' /\ stat' \in StatType
  <1>1. /\ TablePart /\ TaskOK(t) /\ t \in Task /\ stat \in StatType
        /\ t.type \in 0 .. 2 /\ t.reg \in {0} \cup Weighings
        /\ t.number \in {0} \cup Numbers
    BY DEF TypeInv, TasksOK, TaskOK, WebPart, Task
  <1>2. CASE UNCHANGED <<tables, stat>>
    BY <1>1, <1>2 DEF TablePart, tables
  <1>3. CASE Look(t) /\ ~UNCHANGED batches
    <2>1. /\ batches' = [batches EXCEPT ![Newest].type = IF @ = 0 THEN t.type ELSE @]
          /\ UNCHANGED <<present, hist, stat>>
      BY <1>3 DEF Look
    <2> DEFINE b == batches[Newest]
               k == IF b.type = 0 THEN t.type ELSE b.type
    <2>2. ASSUME Newest \in DOMAIN batches PROVE [b EXCEPT !.type = k] \in BatchRow
      <3>1. b \in BatchRow
        BY <1>1, <2>2, RowIs DEF TablePart
      <3>2. k \in 0 .. 2
        BY <1>1, <3>1 DEF BatchRow
      <3> HIDE DEF b, k
      <3> QED
        BY <3>1, <3>2 DEF BatchRow
    <2>3. batches \in Seq(BatchRow) /\ batches' = [batches EXCEPT ![Newest] = [b EXCEPT !.type = k]]
      BY <1>1, <2>1 DEF TablePart
    <2> HIDE DEF b, k
    <2>4. batches' \in Seq(BatchRow)
      BY <2>2, <2>3, PutRow
    <2> QED
      BY <1>1, <2>1, <2>4 DEF TablePart
  <1>4. CASE Insert(t)
    <2>1. /\ batches' = Append(batches, [active |-> TRUE, type |-> t.type, tanks |-> {}])
          /\ UNCHANGED <<present, hist, stat>>
      BY <1>4 DEF Insert
    <2> QED
      BY <1>1, <2>1, NewBatch DEF TablePart
  <1>5. CASE End(t) /\ ~UNCHANGED batches
    <2>1. /\ batches' = [batches EXCEPT ![Newest].active = FALSE]
          /\ UNCHANGED <<present, hist, stat>>
      BY <1>5 DEF End
    <2> QED
      BY <1>1, <2>1, PutBatch DEF TablePart
  <1>6. CASE Add(t) /\ ~UNCHANGED batches
    <2>1. /\ batches' = [batches EXCEPT ![Newest].tanks = @ \cup {t.number}]
          /\ UNCHANGED <<present, hist, stat>> /\ t.number \in Numbers
      BY <1>1, <1>6 DEF Add, Waits, TaskOK
    <2> DEFINE b == batches[Newest]
               S == b.tanks \cup {t.number}
    <2>2. ASSUME Newest \in DOMAIN batches PROVE [b EXCEPT !.tanks = S] \in BatchRow
      <3>1. b \in BatchRow
        BY <1>1, <2>2, RowIs DEF TablePart
      <3>2. S \in SUBSET Numbers
        BY <2>1, <3>1 DEF BatchRow
      <3> HIDE DEF b, S
      <3> QED
        BY <3>1, <3>2 DEF BatchRow
    <2>3. batches \in Seq(BatchRow) /\ batches' = [batches EXCEPT ![Newest] = [b EXCEPT !.tanks = S]]
      BY <1>1, <2>1 DEF TablePart
    <2> HIDE DEF b, S
    <2>4. batches' \in Seq(BatchRow)
      BY <2>2, <2>3, PutRow
    <2> QED
      BY <1>1, <2>1, <2>4 DEF TablePart
  <1>7. CASE SaveTank(t)
    <2>1. /\ present' = [present EXCEPT ![t.number] = IF Plan[t.reg].full THEN "in" ELSE "out"]
          /\ stat' = NoStat /\ UNCHANGED <<batches, hist>>
      BY <1>7 DEF SaveTank
    <2> QED
      BY <1>1, <2>1 DEF TablePart, NoStat, StatType
  <1>8. CASE Book(t)
    <2> DEFINE row == [tank |-> t.number, arrival |-> 0, departure |-> 0]
    <2>1. /\ UNCHANGED <<batches, present>> /\ stat' = NoStat
          /\ t.number \in Numbers /\ hist \in Seq(Visit)
      BY <1>1, <1>8 DEF Book, Waits, TaskOK, TablePart
    <2>2. /\ [row EXCEPT !.arrival = t.reg] \in Visit
          /\ [row EXCEPT !.departure = t.reg] \in Visit
      BY <1>1, <2>1 DEF Visit
    <2>3. ASSUME NEW i \in DOMAIN hist
          PROVE  [hist EXCEPT ![i].departure = t.reg] \in Seq(Visit)
      <3> DEFINE h == hist[i]
      <3>1. h \in Visit
        BY <2>1, <2>3, RowIs
      <3> HIDE DEF h
      <3>2. [h EXCEPT !.departure = t.reg] \in Visit
        BY <1>1, <3>1 DEF Visit
      <3>3. [hist EXCEPT ![i] = [h EXCEPT !.departure = t.reg]] \in Seq(Visit)
        BY <2>1, <3>2, PutRow
      <3> QED
        BY <3>3 DEF h
    <2>4. hist' \in Seq(Visit)
      <3>1. \/ hist' = Append(hist, [row EXCEPT !.arrival = t.reg])
            \/ hist' = Append(hist, [row EXCEPT !.departure = t.reg])
            \/ \E i \in DOMAIN hist : hist' = [hist EXCEPT ![i].departure = t.reg]
        BY <1>8 DEF Book
      <3> QED
        BY <2>1, <2>2, <2>3, <3>1
    <2> QED
      BY <1>1, <2>1, <2>4 DEF TablePart, NoStat, StatType
  <1>9. CASE Fetch(t) \/ Fails(t)
    BY <1>2, <1>9 DEF Fetch, Fails
  <1>10. CASE (Look(t) \/ End(t) \/ Add(t)) /\ UNCHANGED batches
    BY <1>2, <1>10 DEF Look, End, Add, tables
  <1> QED
    BY <1>3, <1>4, <1>5, <1>6, <1>7, <1>8, <1>9, <1>10 DEF Run

LEMMA CeleryType ==
  ASSUME TypeInv, Celery
  PROVE  TypeInv'
  <1>1. PICK t \in BagToSet(tasks) : Run(t) \/ Fails(t)
    BY DEF Celery
  <1>2. UNCHANGED <<plc, bridgeRest, mishaps, scaleVars, heard, query, queries, form>>
    BY DEF Celery
  <1>3. TasksOK(tasks') /\ TablePart' /\ stat' \in StatType
    BY <1>1, RunTasks, RunTables
  <1>4. queue' \in Seq({CameraOff}) /\ queue' \in Seq(Bridge!Write)
    BY <1>1, WritesOnly, ResetType, QueueType DEF TypeInv, BridgePart
  <1>5. BridgePart'
    BY <1>2, <1>4 DEF TypeInv, BridgePart, Bridge!BridgeTypeOK, bridgeRest
  <1>6. ScalePart'
    BY <1>2 DEF TypeInv, ScalePart, bridgeRest, scaleVars
  <1>7. WebPart'
    BY <1>2, <1>3 DEF TypeInv, WebPart
  <1>8. SlipPart'
    <2>1. slips' = slips \/ \E kind : Slip(kind)
      BY <1>1 DEF Run, Fails, Fetch
    <2> QED
      BY <1>2, <2>1, SlipType DEF TypeInv
  <1> QED
    BY <1>3, <1>5, <1>6, <1>7, <1>8 DEF TypeInv

LEMMA WebType ==
  ASSUME TypeInv, Web
  PROVE  TypeInv'
  <1>1. UNCHANGED <<bridgeVars, mishaps, scaleVars, heard, tasks>>
    BY DEF Web
  <1>2. BridgePart' /\ ScalePart' /\ TasksOK(tasks')
    <2>1. UNCHANGED <<plc, sampled, snap, initialized, link, queue, attempt, orphan, idem>>
      BY <1>1 DEF bridgeVars, bridgeRest
    <2> QED
      BY <1>1, <2>1
      DEF TypeInv, BridgePart, Bridge!BridgeTypeOK, ScalePart, scaleVars
  <1>3. TablePart /\ WebPart /\ SlipPart /\ Statistics \in StatType /\ NoStat \in StatType
    BY StatisticsType DEF TypeInv, NoStat, StatType
  <1>4. CASE Compute
    BY <1>1, <1>2, <1>3, <1>4, RailwayBounds DEF Compute, TypeInv, TablePart, WebPart, SlipPart, tables
  <1>5. CASE KeepInCache
    BY <1>1, <1>2, <1>3, <1>5 DEF KeepInCache, TypeInv, TablePart, WebPart, SlipPart, tables
  <1>6. CASE SaveForm
    <2>1. SlipPart'
      BY <1>1, <1>3, <1>6, SlipType DEF SaveForm
    <2> QED
      BY <1>1, <1>2, <1>3, <1>6, <2>1 DEF SaveForm, TypeInv, TablePart, WebPart, tables
  <1>7. CASE CommitForm
    BY <1>1, <1>2, <1>3, <1>7 DEF CommitForm, TypeInv, TablePart, WebPart, SlipPart
  <1>8. CASE EditBatch
    <2>1. SlipPart'
      BY <1>1, <1>3, <1>8, SlipType DEF EditBatch
    <2>2. ASSUME NEW i \in DOMAIN batches
          PROVE  [batches EXCEPT ![i].active = ~@]
                   \in Seq(BatchRow)
      <3> DEFINE a == ~ batches[i].active
      <3>1. a \in BOOLEAN
        OBVIOUS
      <3> HIDE DEF a
      <3>2. \A k \in 0 .. 2, S \in SUBSET Numbers :
              [batches EXCEPT ![i].active = a] \in Seq(BatchRow)
        BY <1>3, <3>1, PutBatch
      <3>3. 0 \in 0 .. 2 /\ {} \in SUBSET Numbers
        OBVIOUS
      <3> QED
        BY <3>2, <3>3 DEF a
    <2>3. Append(batches, [active |-> TRUE, type |-> 0, tanks |-> {}]) \in Seq(BatchRow)
      BY <1>3, NewBatch
    <2>4. batches' \in Seq(BatchRow) /\ UNCHANGED <<present, hist>>
      BY <1>8, <2>2, <2>3 DEF EditBatch
    <2>5. TablePart'
      BY <1>3, <2>4 DEF TablePart
    <2> QED
      BY <1>2, <1>3, <1>8, <2>1, <2>5 DEF EditBatch, TypeInv, WebPart, webVars
  <1> QED
    BY <1>4, <1>5, <1>6, <1>7, <1>8 DEF Web

LEMMA TypeInvariant == Spec => []TypeInv
  <1>1. TypeInv /\ [Next]_vars => TypeInv'
    <2> SUFFICES ASSUME TypeInv, [Next]_vars PROVE TypeInv'
      OBVIOUS
    <2>1. CASE UNCHANGED vars
      <3>1. UNCHANGED <<plc, sampled, snap, initialized, link, queue, attempt, orphan, idem,
                        mishaps, slips, turn, scale, reg, btype, moved, plate,
                        heard, tasks, batches, present, hist, stat, query, queries, form>>
        BY <2>1 DEF vars, bridgeVars, bridgeRest, scaleVars, tables, webVars
      <3> QED
        BY <3>1 DEF TypeInv, BridgePart, Bridge!BridgeTypeOK, ScalePart, TasksOK,
                    TablePart, WebPart, SlipPart
    <2> QED
      BY <2>1, PlcType, BridgeType, CeleryType, WebType DEF Next
  <1> QED
    BY <1>1, InitType, PTL DEF Spec

\* Every variable keeps its type, for every plan of weighings: no task is
\* without the weighing or the number that its next step needs.
THEOREM TypeOKHolds == Spec => []TypeOK
  BY TypeInvariant, TypeInvGives, PTL

-----------------------------------------------------------------------------
(* At most one row is active.  A start makes a row in two steps, so the     *)
(* danger is a second start before the first is done.  Its key keeps it     *)
(* off; and should the key run out too early, which is one thing that goes  *)
(* wrong, the PLC and the snapshot of the bridge go on to say what they said *)
(* when the first start fired, and there is no edge.                        *)


Start == "railway_batch_started"
Both == {"active", "type_known"}
Starts(B) == {t \in BagToSet(B) : t.kind = Start}

\* Nothing can fire the start again before the batch has ended.
Held == Both \subseteq plc /\ Both \subseteq snap /\ initialized /\ link = "up"

OneStart ==
  \A t \in Starts(tasks) : tasks[t] = 1 /\ \A u \in Starts(tasks) : u = t

KeyGuards == Starts(tasks) # {} => Start \in idem \/ ("late" \in mishaps /\ slips > 0 /\ Held)

FirstHeld ==
  slips = 0 => /\ "active" \in plc <=> "type_known" \in plc
               /\ Starts(tasks) # {} => Held

NoRowYet == \A t \in Starts(tasks) : t.stage = "insert" => ActiveRows = {}

OneRow == \A i, j \in ActiveRows : i = j

RowsOK == OneStart /\ KeyGuards /\ FirstHeld /\ NoRowYet /\ OneRow

RowsInv == (Prompt /\ "edit" \notin mishaps) => RowsOK

LEMMA StartCondition ==
  ASSUME NEW s
  PROVE  Bridge!Active(Start, s) <=> Both \subseteq s
  <1>1. Pos[Start] = Both /\ Neg[Start] = {}
    BY DEF Pos, Neg, Start, Both
  <1> QED
    BY <1>1 DEF Bridge!Active

\* A merge loses no tag that both the PLC and the snapshot have, and a tag that
\* it gains comes from the PLC.
LEMMA MergedIs ==
  ASSUME TypeInv, NEW S, NEW i \in Int, NEW y \in Tags
  PROVE  /\ y \in plc /\ y \in snap => y \in Bridge!Merged(S, i)
         /\ y \in Bridge!Merged(S, i) /\ y \notin Bridge!Merged(S, i - 1) => y \in plc
         /\ y \in Bridge!Merged(S, i) /\ y \in plc
              => y \in (snap \ Bridge!Heard(S)) \cup (plc \cap Bridge!Heard(S))
  <1>1. Rank[y] \in Int
    BY TagsAre DEF Rank
  <1>2. y \in Bridge!Merged(S, i) <=>
          \/ y \in snap /\ (y \notin Bridge!Heard(S) \/ Rank[y] > i)
          \/ y \in plc /\ y \in Bridge!Heard(S) /\ Rank[y] <= i
    BY DEF Bridge!Merged
  <1>3. y \in Bridge!Merged(S, i - 1) <=>
          \/ y \in snap /\ (y \notin Bridge!Heard(S) \/ Rank[y] > i - 1)
          \/ y \in plc /\ y \in Bridge!Heard(S) /\ Rank[y] <= i - 1
    BY DEF Bridge!Merged
  <1> QED
    BY <1>1, <1>2, <1>3

\* While the start is held, no sample fires it.
LEMMA HeldIsQuiet ==
  ASSUME TypeInv, Held, NEW S
  PROVE  Start \notin Bridge!PublishFires(S)
  <1> SUFFICES ASSUME Start \in Bridge!PublishFires(S) PROVE FALSE
    OBVIOUS
  <1>1. PICK t \in Bridge!Heard(S) :
          Bridge!MayFire(Start, Bridge!Merged(S, Rank[t] - 1), Bridge!Merged(S, Rank[t]), FALSE)
    BY DEF Bridge!PublishFires
  <1>2. Rank[t] - 1 \in Int
    BY TagsAre DEF Bridge!Heard, Rank
  <1>3. Both \subseteq Bridge!Merged(S, Rank[t] - 1)
    BY <1>2, MergedIs, TagsAre DEF Held, Both
  <1> QED
    BY <1>1, <1>3, StartCondition DEF Bridge!MayFire, Held

\* What fires the start is in the PLC, as long as the PLC has both tags or none.
LEMMA FiredIsHeld ==
  ASSUME TypeInv, NEW S, Start \in Bridge!PublishFires(S),
         "active" \in plc <=> "type_known" \in plc
  PROVE  /\ Both \subseteq plc
         /\ Both \subseteq (snap \ Bridge!Heard(S)) \cup (plc \cap Bridge!Heard(S))
  <1>1. PICK t \in Bridge!Heard(S) :
          Bridge!MayFire(Start, Bridge!Merged(S, Rank[t] - 1), Bridge!Merged(S, Rank[t]), FALSE)
    BY DEF Bridge!PublishFires
  <1>2. Rank[t] \in Int
    BY TagsAre DEF Bridge!Heard, Rank
  <1>3. /\ Both \subseteq Bridge!Merged(S, Rank[t])
        /\ ~ (Both \subseteq Bridge!Merged(S, Rank[t] - 1))
    BY <1>1, StartCondition DEF Bridge!MayFire
  <1>4. PICK y \in Both : y \notin Bridge!Merged(S, Rank[t] - 1)
    BY <1>3
  <1>5. Both \subseteq Tags
    BY TagsAre DEF Both
  <1>6. y \in plc
    BY <1>2, <1>3, <1>4, <1>5, MergedIs
  <1>7. Both \subseteq plc
    BY <1>6 DEF Both
  <1> QED
    BY <1>2, <1>3, <1>5, <1>7, MergedIs

\* A task with one copy goes; the others stay as they are.
LEMMA RemoveOne ==
  ASSUME NEW B, IsABag(B), NEW t \in BagToSet(B), NEW C, C = B (-) SetToBag({t})
  PROVE  /\ \A e \in BagToSet(B) \ {t} : e \in BagToSet(C) /\ C[e] = B[e]
         /\ BagToSet(C) \subseteq BagToSet(B)
         /\ B[t] = 1 => t \notin BagToSet(C)
  BY DEF IsABag, BagToSet, SetToBag, (-)

LEMMA AddOne ==
  ASSUME NEW B, IsABag(B), NEW S, NEW C, C = B (+) SetToBag(S)
  PROVE  /\ BagToSet(C) = BagToSet(B) \cup S
         /\ \A e \in BagToSet(B) \ S : C[e] = B[e]
         /\ \A e \in S \ BagToSet(B) : C[e] = 1
  BY DEF IsABag, BagToSet, SetToBag, (+)

LEMMA Slower ==
  ASSUME TypeInv, NEW kind, Slip(kind)
  PROVE  slips < MaxSlips /\ slips' = slips + 1 /\ slips \in Nat
         /\ slips' # 0 /\ kind \in mishaps
  BY RailwayBounds DEF TypeInv, SlipPart, Slip

\* Nothing but a mishap ends what is held while a task waits.
LEMMA PlcHolds ==
  ASSUME TypeInv, Held, Starts(tasks) # {}, Plc, slips' = slips
  PROVE  Held'
  <1>1. UNCHANGED <<snap, initialized, link>>
    BY DEF Plc, bridgeRest
  <1>2. \A kind : ~ Slip(kind)
    BY Slower DEF TypeInv, SlipPart
  <1>3. tasks # EmptyBag
    BY DEF Starts, EmptyBag, SetToBag, BagToSet
  <1>4. plc \subseteq plc'
    BY <1>2, <1>3 DEF Plc, Roll, Stabilize, Shoot, Complete, Panel, InTime, Served
  <1> QED
    BY <1>1, <1>4 DEF Held

LEMMA BridgeHolds ==
  ASSUME TypeInv, Held, BridgeStep, slips' = slips
  PROVE  Held'
  <1>1. \A kind : ~ Slip(kind)
    BY Slower DEF TypeInv, SlipPart
  <1>2. CASE Publish
    <2>1. PICK S : Bridge!Publish(S, Arrived(Bridge!PublishFires(S)))
      BY <1>2 DEF Publish
    <2> QED
      BY <2>1 DEF Bridge!Publish, Bridge!OnSnapshot, Held
  <1>3. CASE WriteDone
    <2>1. Bridge!WriteDone
      BY <1>3 DEF WriteDone
    <2>2. Head(queue) = CameraOff
      BY <2>1, QueueType DEF TypeInv, BridgePart, Bridge!WriteDone
    <2>3. plc' = plc \ {"camera_worked"} /\ snap' = snap \ {"camera_worked"}
      BY <2>1, <2>2, ResetCamera DEF Bridge!WriteDone
    <2>4. UNCHANGED <<initialized, link>>
      BY <2>1 DEF Bridge!WriteDone
    <2> QED
      BY <2>3, <2>4 DEF Held, Both
  <1>4. CASE Lose
    <2>1. \/ Bridge!PopForNobody \/ Bridge!Restart
          \/ \E tr \in idem : Bridge!ExpireKey(tr)
      BY <1>1, <1>4 DEF Lose
    <2> QED
      BY <2>1 DEF Bridge!PopForNobody, Bridge!Restart, Bridge!ExpireKey, Held
  <1>5. CASE Connect \/ InitialRead
    BY <1>5 DEF Connect, InitialRead, Bridge!Connect, Bridge!InitialRead, Held
  <1> QED
    BY <1>2, <1>3, <1>4, <1>5 DEF BridgeStep

\* A step that leaves the tasks and the table alone.
LEMMA TasksStand ==
  ASSUME TypeInv, RowsOK, Prompt', UNCHANGED <<tasks, batches, mishaps>>,
         slips' = slips \/ (slips' = slips + 1 /\ slips < MaxSlips),
         Starts(tasks) # {} /\ Held /\ slips' = slips => Held',
         slips' = 0 => ("active" \in plc' <=> "type_known" \in plc'),
         Start \in idem /\ Start \notin idem' /\ Starts(tasks) # {}
           => slips' = slips + 1 /\ "late" \in mishaps /\ UNCHANGED <<plc, snap, initialized, link>>
  PROVE  RowsOK'
  <1>1. slips \in 0 .. MaxSlips /\ MaxSlips \in Nat
    BY RailwayBounds DEF TypeInv, SlipPart
  <1>2. Starts(tasks') = Starts(tasks) /\ ActiveRows' = ActiveRows
    BY DEF Starts, ActiveRows
  <1>3. OneStart' /\ NoRowYet' /\ OneRow'
    BY <1>2 DEF RowsOK, OneStart, NoRowYet, OneRow
  <1>4. FirstHeld'
    BY <1>1, <1>2 DEF RowsOK, FirstHeld
  <1>5. KeyGuards'
    <2> SUFFICES ASSUME Starts(tasks) # {}, Start \notin idem'
                 PROVE  "late" \in mishaps' /\ slips' > 0 /\ Held'
      BY <1>2 DEF KeyGuards
    <2>1. CASE Start \in idem
      <3>1. slips' = slips + 1 /\ slips = 0 /\ "late" \in mishaps'
        BY <1>1, <2>1 DEF Prompt
      <3>2. Held
        BY <3>1 DEF RowsOK, FirstHeld
      <3>3. UNCHANGED <<plc, snap, initialized, link>>
        BY <2>1
      <3>4. Held'
        BY <3>2, <3>3 DEF Held
      <3> QED
        BY <3>1, <3>4
    <2>2. CASE Start \notin idem
      <3>1. "late" \in mishaps /\ slips > 0 /\ Held
        BY <2>2 DEF RowsOK, KeyGuards
      <3>2. slips' = slips
        BY <1>1, <3>1 DEF Prompt
      <3> QED
        BY <3>1, <3>2
    <2> QED
      BY <2>1, <2>2
  <1> QED
    BY <1>3, <1>4, <1>5 DEF RowsOK

LEMMA PlcRows ==
  ASSUME TypeInv, RowsOK, Prompt', Plc
  PROVE  RowsOK'
  <1>1. UNCHANGED <<tasks, batches, mishaps, snap, initialized, link, idem>>
    BY DEF Plc, bridgeRest, tables
  <1>2. slips' = slips \/ \E kind : Slip(kind)
    BY DEF Plc, Roll, Stabilize, Shoot, Complete, Panel, InTime
  <1>3. slips' = slips \/ (slips' = slips + 1 /\ slips < MaxSlips)
    BY <1>2, Slower
  <1>4. ASSUME slips' = 0
        PROVE  "active" \in plc' <=> "type_known" \in plc'
    <2>1. slips' = slips /\ \A kind : ~ Slip(kind)
      BY <1>2, <1>4, Slower
    <2>2. "active" \in plc <=> "type_known" \in plc
      BY <1>4, <2>1 DEF RowsOK, FirstHeld
    <2> QED
      BY <2>1, <2>2 DEF Plc, Roll, Stabilize, Shoot, Complete, Panel, EndBatch
  <1>5. Starts(tasks) # {} /\ Held /\ slips' = slips => Held'
    BY PlcHolds
  <1> QED
    BY <1>1, <1>3, <1>4, <1>5, TasksStand

\* A start fires: no other one waits, and this one is held or has its key.
LEMMA StartFires ==
  ASSUME TypeInv, RowsOK, Prompt', NEW fires, Start \in fires,
         Start \notin idem,
         fires \subseteq Triggers,
         Held => Start \notin fires,
         tasks' = tasks (+) SetToBag({NewTask(tr, heard') : tr \in fires}),
         UNCHANGED <<batches, mishaps, slips>>,
         Start \in idem',
         slips = 0 => Held' /\ ("active" \in plc' <=> "type_known" \in plc')
  PROVE  RowsOK'
  <1> DEFINE new == NewTask(Start, heard')
             S == {NewTask(tr, heard') : tr \in fires}
  <1>1. Starts(tasks) = {}
    BY DEF RowsOK, KeyGuards
  <1>2. IsABag(tasks)
    BY DEF TypeInv, TasksOK
  <1>3. /\ new \in S /\ new.kind = Start /\ new.stage = "queued"
        /\ \A t \in S : t.kind = Start => t = new
    BY DEF NewTask
  <1>4. new \notin BagToSet(tasks)
    BY <1>1, <1>3 DEF Starts
  <1> HIDE DEF new, S
  <1>5. tasks' = tasks (+) SetToBag(S)
    BY DEF S
  <1>6. /\ BagToSet(tasks') = BagToSet(tasks) \cup S
        /\ \A e \in S \ BagToSet(tasks) : tasks'[e] = 1
    <2>1. \A C : C = tasks (+) SetToBag(S) =>
            /\ BagToSet(C) = BagToSet(tasks) \cup S
            /\ \A e \in S \ BagToSet(tasks) : C[e] = 1
      BY <1>2, AddOne
    <2> QED
      BY <1>5, <2>1, Zenon
  <1>7. Starts(tasks') = {new} /\ tasks'[new] = 1
    BY <1>1, <1>3, <1>4, <1>6 DEF Starts
  <1>8. OneStart' /\ NoRowYet'
    BY <1>3, <1>7 DEF OneStart, NoRowYet
  <1>9. OneRow'
    BY DEF RowsOK, OneRow, ActiveRows
  <1>10. KeyGuards' /\ FirstHeld'
    BY DEF KeyGuards, FirstHeld
  <1> QED
    BY <1>8, <1>9, <1>10 DEF RowsOK

\* Other triggers fire, or a start that gets no task.
LEMMA OthersFire ==
  ASSUME TypeInv, NEW fires, fires \subseteq Triggers, Sent(fires),
         Start \notin fires \/ tasks' = tasks
  PROVE  /\ Starts(tasks') = Starts(tasks)
         /\ \A t \in Starts(tasks) : tasks'[t] = tasks[t]
  <1>1. CASE tasks' = tasks
    BY <1>1
  <1>2. CASE tasks' # tasks
    <2> DEFINE S == {NewTask(tr, heard') : tr \in fires}
    <2>1. tasks' = tasks (+) SetToBag(S) /\ Start \notin fires
      BY <1>2 DEF Sent
    <2>2. \A t \in S : t.kind # Start
      BY <2>1 DEF NewTask
    <2> HIDE DEF S
    <2>3. IsABag(tasks)
      BY DEF TypeInv, TasksOK
    <2>4. /\ BagToSet(tasks') = BagToSet(tasks) \cup S
          /\ \A e \in BagToSet(tasks) \ S : tasks'[e] = tasks[e]
      BY <2>1, <2>3, AddOne
    <2> QED
      BY <2>2, <2>4 DEF Starts
  <1> QED
    BY <1>1, <1>2

\* A step that leaves the waiting starts and the table alone.
LEMMA StartsStand ==
  ASSUME TypeInv, RowsOK, Prompt', UNCHANGED <<batches, mishaps>>,
         Starts(tasks') = Starts(tasks),
         \A t \in Starts(tasks) : tasks'[t] = tasks[t],
         slips' = slips \/ (slips' = slips + 1 /\ slips < MaxSlips),
         Starts(tasks) # {} /\ Held /\ slips' = slips => Held',
         slips' = 0 => ("active" \in plc' <=> "type_known" \in plc'),
         idem \subseteq idem'
  PROVE  RowsOK'
  <1>1. slips \in 0 .. MaxSlips /\ MaxSlips \in Nat
    BY RailwayBounds DEF TypeInv, SlipPart
  <1>2. ActiveRows' = ActiveRows
    BY DEF ActiveRows
  <1>3. OneStart'
    BY DEF RowsOK, OneStart
  <1>4. NoRowYet' /\ OneRow'
    BY <1>2 DEF RowsOK, NoRowYet, OneRow
  <1>5. FirstHeld'
    BY <1>1 DEF RowsOK, FirstHeld
  <1>6. KeyGuards'
    BY <1>1 DEF RowsOK, KeyGuards, Prompt
  <1> QED
    BY <1>3, <1>4, <1>5, <1>6 DEF RowsOK

\* The snapshot of a session or of a sample.
LEMMA SnapshotRows ==
  ASSUME TypeInv, RowsOK, Prompt', NEW fires, fires \subseteq Triggers,
         Sent(fires), UNCHANGED <<batches, mishaps, plc>>,
         Start \in fires => Start \notin idem,
         Held => Start \notin fires,
         idem' = idem \cup (Arrived(fires) \cap {"railway_batch_started", "railway_batch_ended"}),
         Held => Held',
         Start \in fires /\ ("active" \in plc <=> "type_known" \in plc) => Held'
  PROVE  RowsOK'
  <1>1. slips' = slips \/ (slips' = slips + 1 /\ slips < MaxSlips)
    BY Slower DEF Sent
  <1>2. slips \in Nat /\ (slips' = 0 => slips = 0)
    BY <1>1, RailwayBounds DEF TypeInv, SlipPart
  <1>3. slips' = 0 => ("active" \in plc' <=> "type_known" \in plc')
    BY <1>2 DEF RowsOK, FirstHeld
  <1>4. CASE Start \notin fires \/ tasks' = tasks
    <2>1. /\ Starts(tasks') = Starts(tasks)
          /\ \A t \in Starts(tasks) : tasks'[t] = tasks[t]
      BY <1>4, OthersFire
    <2> QED
      BY <1>1, <1>3, <2>1, StartsStand
  <1>5. CASE Start \in fires /\ tasks' # tasks
    <2>1. /\ slips' = slips
          /\ tasks' = tasks (+) SetToBag({NewTask(tr, heard') : tr \in fires})
      BY <1>5 DEF Sent
    <2>2. Start \in idem'
      BY <1>5 DEF Arrived, Start
    <2>3. slips = 0 => Held' /\ ("active" \in plc' <=> "type_known" \in plc')
      BY <1>3, <1>5, <2>1 DEF RowsOK, FirstHeld
    <2> QED
      BY <1>5, <2>1, <2>2, <2>3, StartFires
  <1> QED
    BY <1>4, <1>5

LEMMA BridgeRows ==
  ASSUME TypeInv, RowsOK, Prompt', BridgeStep
  PROVE  RowsOK'
  <1>1. UNCHANGED <<mishaps, batches>>
    BY DEF BridgeStep, tables
  <1>2. slips \in Nat /\ slips \in 0 .. MaxSlips
    BY RailwayBounds DEF TypeInv, SlipPart
  <1>3. CASE InitialRead
    <2>1. /\ Sent(Bridge!InitialReadFires)
          /\ Bridge!InitialRead(Arrived(Bridge!InitialReadFires))
      BY <1>3 DEF InitialRead
    <2>2. /\ link = "session" /\ link' = "up" /\ plc' = plc /\ snap' = plc /\ initialized' = TRUE
          /\ idem' = idem \cup (Arrived(Bridge!InitialReadFires)
                                  \cap {"railway_batch_started", "railway_batch_ended"})
      BY <2>1 DEF Bridge!InitialRead, Bridge!OnSnapshot
    <2>3. ~ Held
      BY <2>2 DEF Held
    <2>4. Start \in Bridge!InitialReadFires => Both \subseteq plc /\ Start \notin idem
      BY StartCondition DEF Bridge!InitialReadFires, Bridge!MayFire
    <2>5. Start \in Bridge!InitialReadFires => Held'
      BY <2>2, <2>4 DEF Held
    <2>6. Bridge!InitialReadFires \subseteq Triggers
      BY DEF Bridge!InitialReadFires
    <2> QED
      BY <1>1, <2>1, <2>2, <2>3, <2>4, <2>5, <2>6, SnapshotRows
  <1>4. CASE Publish
    <2>1. PICK S : /\ Sent(Bridge!PublishFires(S))
                   /\ Bridge!Publish(S, Arrived(Bridge!PublishFires(S)))
      BY <1>4 DEF Publish
    <2>2. /\ link = "up" /\ link' = "up" /\ plc' = plc /\ initialized' = TRUE
          /\ snap' = (snap \ Bridge!Heard(S)) \cup (plc \cap Bridge!Heard(S))
          /\ idem' = idem \cup (Arrived(Bridge!PublishFires(S))
                                  \cap {"railway_batch_started", "railway_batch_ended"})
      BY <2>1 DEF Bridge!Publish, Bridge!OnSnapshot
    <2>3. Held => Held'
      BY <2>2 DEF Held
    <2>4. Held => Start \notin Bridge!PublishFires(S)
      BY HeldIsQuiet
    <2>5. Start \in Bridge!PublishFires(S) => Start \notin idem
      BY DEF Bridge!PublishFires, Bridge!MayFire
    <2>6. Start \in Bridge!PublishFires(S) /\ ("active" \in plc <=> "type_known" \in plc)
            => Held'
      BY <2>2, FiredIsHeld DEF Held
    <2>7. Bridge!PublishFires(S) \subseteq Triggers
      BY FiresAre
    <2> QED
      BY <1>1, <2>1, <2>2, <2>3, <2>4, <2>5, <2>6, <2>7, SnapshotRows
  <1>5. CASE Connect \/ WriteDone \/ Lose
    <2>1. tasks' = tasks
      BY <1>5 DEF Connect, WriteDone, Lose
    <2>2. slips' = slips \/ \E kind : Slip(kind)
      BY <1>5 DEF Connect, WriteDone, Lose, InTime
    <2>3. slips' = slips \/ (slips' = slips + 1 /\ slips < MaxSlips)
      BY <2>2, Slower
    <2>4. Held /\ slips' = slips => Held'
      BY BridgeHolds
    <2>5. ASSUME slips' = 0 PROVE "active" \in plc' <=> "type_known" \in plc'
      <3>1. slips' = slips /\ slips = 0 /\ \A kind : ~ Slip(kind)
        BY <1>2, <2>3, <2>5, Slower
      <3>2. "active" \in plc <=> "type_known" \in plc
        BY <3>1 DEF RowsOK, FirstHeld
      <3>3. plc' = plc \/ plc' = plc \ {"camera_worked"}
        <4>1. CASE WriteDone
          <5>1. Bridge!WriteDone
            BY <4>1 DEF WriteDone
          <5>2. Head(queue) = CameraOff
            BY <5>1, QueueType DEF TypeInv, BridgePart, Bridge!WriteDone
          <5> QED
            BY <5>1, <5>2, ResetCamera DEF Bridge!WriteDone
        <4>2. CASE Connect \/ Lose
          BY <3>1, <4>2 DEF Connect, Lose, Bridge!Connect, Bridge!PopForNobody,
                            Bridge!Restart, Bridge!ExpireKey
        <4> QED
          BY <1>5, <4>1, <4>2
      <3> QED
        BY <3>2, <3>3
    <2>6. ASSUME Start \in idem, Start \notin idem', Starts(tasks) # {}
          PROVE  /\ slips' = slips + 1 /\ "late" \in mishaps
                 /\ UNCHANGED <<plc, snap, initialized, link>>
      <3>1. PICK tr \in idem : Bridge!ExpireKey(tr) /\ InTime
        BY <1>5, <2>6 DEF Connect, WriteDone, Lose, Bridge!Connect, Bridge!WriteDone,
                          Bridge!Disconnect, Bridge!PopForNobody, Bridge!Restart
      <3>2. tasks # EmptyBag
        BY <2>6 DEF Starts, EmptyBag, SetToBag, BagToSet
      <3>3. Slip("late")
        BY <3>1, <3>2 DEF InTime, Served
      <3> QED
        BY <3>1, <3>3, Slower DEF Bridge!ExpireKey
    <2> QED
      BY <1>1, <2>1, <2>3, <2>4, <2>5, <2>6, TasksStand
  <1> QED
    BY <1>3, <1>4, <1>5 DEF BridgeStep

\* No task but Insert makes an active row.
LEMMA RowsShrink ==
  ASSUME TypeInv, NEW t, Run(t) \/ Fails(t), ~ Insert(t)
  PROVE  ActiveRows' \subseteq ActiveRows
  <1>1. batches \in Seq(BatchRow)
    BY DEF TypeInv, TablePart
  <1> DEFINE b == batches[Newest]
  <1>2. CASE batches' = batches
    BY <1>2 DEF ActiveRows
  <1>3. ASSUME NEW e, batches' = [batches EXCEPT ![Newest] = e],
               Newest \in DOMAIN batches => (e.active => b.active)
        PROVE  ActiveRows' \subseteq ActiveRows
    <2>1. DOMAIN batches' = DOMAIN batches
      BY <1>3
    <2>2. \A i \in DOMAIN batches :
            batches'[i] = IF i = Newest THEN e ELSE batches[i]
      BY <1>3
    <2> QED
      BY <1>3, <2>1, <2>2 DEF ActiveRows
  <1>4. ASSUME Newest \in DOMAIN batches, NEW k
        PROVE  /\ [b EXCEPT !.type = k].active = b.active
               /\ [b EXCEPT !.tanks = k].active = b.active
               /\ [b EXCEPT !.active = FALSE].active = FALSE
    <2>1. b \in BatchRow
      BY <1>1, <1>4, RowIs
    <2> HIDE DEF b
    <2> QED
      BY <2>1 DEF BatchRow
  <1>5. CASE Look(t) /\ batches' # batches
    <2> DEFINE k == IF b.type = 0 THEN t.type ELSE b.type
    <2>1. batches' = [batches EXCEPT ![Newest] = [b EXCEPT !.type = k]]
      BY <1>5 DEF Look
    <2> HIDE DEF k
    <2> QED
      BY <1>3, <1>4, <2>1
  <1>6. CASE End(t) /\ batches' # batches
    <2>1. batches' = [batches EXCEPT ![Newest] = [b EXCEPT !.active = FALSE]]
      BY <1>6 DEF End
    <2>2. Newest \in DOMAIN batches => ~ [b EXCEPT !.active = FALSE].active
      BY <1>4
    <2> QED
      BY <1>3, <2>1, <2>2
  <1>7. CASE Add(t) /\ batches' # batches
    <2> DEFINE k == b.tanks \cup {t.number}
    <2>1. batches' = [batches EXCEPT ![Newest] = [b EXCEPT !.tanks = k]]
      BY <1>7 DEF Add
    <2> HIDE DEF k
    <2> QED
      BY <1>3, <1>4, <2>1
  <1> QED
    BY <1>2, <1>5, <1>6, <1>7 DEF Run, Fails, Fetch, Insert, SaveTank, Book, tables

\* What becomes of the waiting starts when a task runs.
LEMMA StartsRun ==
  ASSUME TypeInv, RowsOK, NEW t \in BagToSet(tasks), Run(t) \/ Fails(t)
  PROVE  \/ /\ Starts(tasks') = Starts(tasks)
            /\ \A u \in Starts(tasks) : tasks'[u] = tasks[u]
            /\ t.kind # Start
         \/ t.kind = Start /\ Starts(tasks') = {}
         \/ /\ Look(t) /\ ActiveRows = {} /\ batches' = batches
            /\ t.kind = Start
            /\ \E u : Starts(tasks') = {u} /\ tasks'[u] = 1
  <1>1. IsABag(tasks) /\ t \in Task
    BY DEF TypeInv, TasksOK, TaskOK
  <1> DEFINE C == tasks (-) SetToBag({t})
  <1>2. PICK D : D = C
    OBVIOUS
  <1>3. /\ \A e \in BagToSet(tasks) \ {t} : e \in BagToSet(D) /\ D[e] = tasks[e]
        /\ BagToSet(D) \subseteq BagToSet(tasks)
        /\ tasks[t] = 1 => t \notin BagToSet(D)
    BY <1>1, <1>2, RemoveOne
  <1>4. IsABag(D)
    BY <1>1, <1>2, SetToBagType, BagSubType
  <1>5. t.kind = Start => Starts(D) = {}
    BY <1>3 DEF RowsOK, OneStart, Starts
  <1>6. t.kind # Start => /\ Starts(D) = Starts(tasks)
                          /\ \A u \in Starts(tasks) : D[u] = tasks[u]
    BY <1>3 DEF Starts
  <1>7. CASE Done(t)
    BY <1>2, <1>5, <1>6, <1>7 DEF Done
  <1>8. CASE ~ Done(t)
    <2>1. \E u : Becomes(t, u) /\ u.kind = t.kind
      <3>1. CASE Fetch(t)
        <4> DEFINE m == Plan[plate].tank
                   u == [t EXCEPT !.stage = "save", !.number = m]
        <4>1. Becomes(t, u)
          BY <1>8, <3>1 DEF Fetch
        <4> HIDE DEF m
        <4>2. u.kind = t.kind
          BY <1>1 DEF Task
        <4> HIDE DEF u
        <4> QED
          BY <4>1, <4>2
      <3>2. CASE Look(t) \/ SaveTank(t) \/ Book(t)
        <4>1. PICK s : Becomes(t, [t EXCEPT !.stage = s])
          BY <1>8, <3>2 DEF Look, SaveTank, Book
        <4> DEFINE u == [t EXCEPT !.stage = s]
        <4>2. Becomes(t, u) /\ u.kind = t.kind
          BY <1>1, <4>1 DEF Task
        <4> HIDE DEF u
        <4> QED
          BY <4>2
      <3> QED
        BY <1>8, <3>1, <3>2 DEF Run, Fails, Insert, End, Add
    <2>2. PICK u : Becomes(t, u) /\ u.kind = t.kind
      BY <2>1
    <2>3. PICK E : E = tasks'
      OBVIOUS
    <2>4. E = D (+) SetToBag({u})
      BY <1>2, <2>2, <2>3 DEF Becomes
    <2>5. /\ BagToSet(E) = BagToSet(D) \cup {u}
          /\ \A e \in BagToSet(D) \ {u} : E[e] = D[e]
          /\ \A e \in {u} \ BagToSet(D) : E[e] = 1
      BY <1>4, <2>4, AddOne
    <2>6. CASE t.kind # Start
      <3>1. Starts(E) = Starts(D) /\ \A e \in Starts(D) : E[e] = D[e]
        BY <2>2, <2>5, <2>6 DEF Starts
      <3> QED
        BY <1>6, <2>3, <2>6, <3>1
    <2>7. CASE t.kind = Start
      <3>1. Look(t)
        BY <1>8, <2>7 DEF Run, Fails, Fetch, Insert, End, SaveTank, Book, Add, Waits, Start
      <3>2. ActiveRows = {} /\ batches' = batches
        BY <1>8, <3>1 DEF Look
      <3>3. u \notin BagToSet(D)
        BY <1>5, <2>2, <2>7 DEF Starts
      <3>4. Starts(E) = {u} /\ E[u] = 1
        BY <1>5, <2>2, <2>5, <2>7, <3>3 DEF Starts
      <3> QED
        BY <2>3, <2>7, <3>1, <3>2, <3>4
    <2> QED
      BY <2>6, <2>7
  <1> QED
    BY <1>7, <1>8

LEMMA CeleryRows ==
  ASSUME TypeInv, RowsOK, Prompt', Celery
  PROVE  RowsOK'
  <1>1. PICK t \in BagToSet(tasks) : Run(t) \/ Fails(t)
    BY DEF Celery
  <1>2. UNCHANGED <<plc, snap, initialized, link, idem, mishaps>>
    BY DEF Celery, bridgeRest
  <1>3. slips' = slips \/ (slips' = slips + 1 /\ slips < MaxSlips)
    <2>1. slips' = slips \/ \E kind : Slip(kind)
      BY <1>1 DEF Run, Fails, Fetch
    <2> QED
      BY <2>1, Slower
  <1>4. slips \in 0 .. MaxSlips /\ MaxSlips \in Nat
    BY RailwayBounds DEF TypeInv, SlipPart
  <1>5. Held' <=> Held
    BY <1>2 DEF Held
  <1>6. Insert(t) => t \in Starts(tasks) /\ t.stage = "insert" /\ Done(t)
    BY <1>1 DEF Insert, Waits, Starts, Start
  <1>7. Starts(tasks') # {} => Starts(tasks) # {}
    BY <1>1, StartsRun DEF Starts
  <1>8. KeyGuards' /\ FirstHeld'
    BY <1>2, <1>3, <1>4, <1>5, <1>7 DEF RowsOK, KeyGuards, FirstHeld, Prompt
  <1>9. OneStart'
    BY <1>1, StartsRun DEF RowsOK, OneStart
  <1>10. CASE ~ Insert(t)
    <2>1. ActiveRows' \subseteq ActiveRows
      BY <1>1, <1>10, RowsShrink
    <2>2. OneRow'
      BY <2>1 DEF RowsOK, OneRow
    <2>3. NoRowYet'
      BY <1>1, <2>1, StartsRun DEF RowsOK, NoRowYet, ActiveRows
    <2> QED
      BY <1>8, <1>9, <2>2, <2>3 DEF RowsOK
  <1>11. CASE Insert(t)
    <2>1. ActiveRows = {} /\ t.kind = Start
      BY <1>6, <1>11 DEF RowsOK, NoRowYet, Starts
    <2>2. Starts(tasks') = {}
      BY <1>1, <1>11, <2>1, StartsRun DEF Insert, Look, Waits
    <2>3. batches' = Append(batches, [active |-> TRUE, type |-> t.type, tanks |-> {}])
      BY <1>11 DEF Insert
    <2>4. batches \in Seq(BatchRow)
      BY DEF TypeInv, TablePart
    <2>5. /\ DOMAIN batches' = 1 .. Len(batches) + 1 /\ DOMAIN batches = 1 .. Len(batches)
          /\ Len(batches) \in Nat
          /\ \A i \in 1 .. Len(batches) : batches'[i] = batches[i]
      BY <2>3, <2>4
    <2>6. ActiveRows' \subseteq {Len(batches) + 1}
      BY <2>1, <2>5 DEF ActiveRows
    <2>7. OneRow'
      BY <2>6 DEF OneRow
    <2>8. NoRowYet'
      BY <2>2 DEF NoRowYet
    <2> QED
      BY <1>8, <1>9, <2>7, <2>8 DEF RowsOK
  <1> QED
    BY <1>10, <1>11

LEMMA WebRows ==
  ASSUME TypeInv, RowsOK, Prompt', "edit" \notin mishaps, Web
  PROVE  RowsOK'
  <1>1. UNCHANGED <<plc, snap, initialized, link, idem, mishaps, tasks>>
    BY DEF Web, bridgeVars, bridgeRest
  <1>2. /\ batches' = batches
        /\ slips' = slips \/ \E kind : Slip(kind)
    BY DEF Web, Compute, KeepInCache, SaveForm, CommitForm, EditBatch, Slip, tables
  <1>3. slips' = slips \/ (slips' = slips + 1 /\ slips < MaxSlips)
    BY <1>2, Slower
  <1>4. slips \in 0 .. MaxSlips /\ MaxSlips \in Nat
    BY RailwayBounds DEF TypeInv, SlipPart
  <1>5. slips' = 0 => slips = 0
    BY <1>3, <1>4
  <1>6. (Held' <=> Held) /\ Starts(tasks') = Starts(tasks) /\ ActiveRows' = ActiveRows
    BY <1>1, <1>2 DEF Held, Starts, ActiveRows
  <1>7. OneStart' /\ NoRowYet' /\ OneRow'
    BY <1>1, <1>6 DEF RowsOK, OneStart, NoRowYet, OneRow
  <1>8. KeyGuards' /\ FirstHeld'
    BY <1>1, <1>3, <1>4, <1>5, <1>6 DEF RowsOK, KeyGuards, FirstHeld, Prompt
  <1> QED
    BY <1>7, <1>8 DEF RowsOK

\* At most one batch is active, for every plan of weighings and any number of
\* mishaps of every kind but the edit of a row and the late step; and if steps
\* may be late, as long as nothing else has gone wrong.
THEOREM OneActiveRowHolds == Spec => []OneActiveRow
  <1>1. Init => RowsInv
    <2> SUFFICES ASSUME Init PROVE RowsOK
      BY DEF RowsInv
    <2>1. Starts(tasks) = {} /\ ActiveRows = {} /\ plc = {}
      BY DEF Init, Starts, ActiveRows, EmptyBag, SetToBag, BagToSet, Bridge!BridgeInit
    <2> QED
      BY <2>1 DEF RowsOK, OneStart, KeyGuards, FirstHeld, NoRowYet, OneRow
  <1>2. TypeInv /\ RowsInv /\ [Next]_vars => RowsInv'
    <2> SUFFICES ASSUME TypeInv, RowsInv, [Next]_vars, Prompt', "edit" \notin mishaps'
                 PROVE  RowsOK'
      BY DEF RowsInv
    <2>1. mishaps' = mishaps
      BY DEF Next, Plc, BridgeStep, Celery, Web, vars
    <2>2. Prompt /\ "edit" \notin mishaps /\ RowsOK
      <3>1. slips' = slips \/ \E kind : Slip(kind)
        <4>1. CASE Plc
          BY <4>1 DEF Plc, Roll, Stabilize, Shoot, Complete, Panel, InTime
        <4>2. CASE BridgeStep
          BY <4>2 DEF BridgeStep, Connect, InitialRead, Publish, WriteDone, Lose, InTime,
                      Sent
        <4>3. CASE Celery
          BY <4>3 DEF Celery, Run, Fails, Fetch
        <4>4. CASE Web
          BY <4>4 DEF Web, Compute, KeepInCache, SaveForm, CommitForm, EditBatch, Slip,
                      tables
        <4>5. CASE UNCHANGED vars
          BY <4>5 DEF vars
        <4> QED
          BY <4>1, <4>2, <4>3, <4>4, <4>5 DEF Next
      <3>2. slips \in Nat /\ (slips' < 2 => slips < 2)
        BY <3>1, Slower, RailwayBounds DEF TypeInv, SlipPart
      <3> QED
        BY <2>1, <3>2 DEF Prompt, RowsInv
    <2>3. CASE UNCHANGED vars
      <3>1. UNCHANGED <<plc, snap, initialized, link, idem, slips, tasks, batches, mishaps>>
        BY <2>3 DEF vars, bridgeVars, bridgeRest, tables
      <3>2. (Held' <=> Held) /\ Starts(tasks') = Starts(tasks) /\ ActiveRows' = ActiveRows
        BY <3>1 DEF Held, Starts, ActiveRows
      <3> QED
        BY <2>2, <3>1, <3>2 DEF RowsOK, OneStart, KeyGuards, FirstHeld, NoRowYet, OneRow
    <2> QED
      BY <2>2, <2>3, PlcRows, BridgeRows, CeleryRows, WebRows DEF Next
  <1>3. RowsInv => OneActiveRow
    <2> SUFFICES ASSUME RowsInv, Prompt, "edit" \notin mishaps
                 PROVE  Cardinality(ActiveRows) <= 1
      BY DEF OneActiveRow
    <2>1. OneRow
      BY DEF RowsInv, RowsOK
    <2>2. CASE ActiveRows = {}
      BY <2>2, FS_EmptySet
    <2>3. CASE ActiveRows # {}
      <3>1. PICK i : ActiveRows = {i}
        BY <2>1, <2>3 DEF OneRow
      <3>2. Cardinality({i}) = 1
        BY FS_Singleton
      <3> QED
        BY <3>1, <3>2
    <2> QED
      BY <2>2, <2>3
  <1> QED
    BY <1>1, <1>2, <1>3, TypeInvariant, PTL DEF Spec

-----------------------------------------------------------------------------
(* The k-th of a set of numbers, and the history of a tank.                *)

Count(S, i) == Cardinality({j \in S : j <= i})

LEMMA CountIs ==
  ASSUME NEW S, S \subseteq Nat, IsFiniteSet(S)
  PROVE  /\ Cardinality(S) \in Nat
         /\ \A i \in S : Count(S, i) \in 1 .. Cardinality(S)
         /\ \A i, j \in S : i < j => Count(S, i) < Count(S, j)
  <1> DEFINE upto(i) == {j \in S : j <= i}
  <1>1. Cardinality(S) \in Nat
    BY FS_CardinalityType
  <1>2. \A i : /\ IsFiniteSet(upto(i)) /\ upto(i) \subseteq S
               /\ Count(S, i) = Cardinality(upto(i)) /\ Count(S, i) \in Nat
    <2> SUFFICES ASSUME NEW i
                 PROVE  /\ IsFiniteSet(upto(i)) /\ upto(i) \subseteq S
                        /\ Count(S, i) = Cardinality(upto(i)) /\ Count(S, i) \in Nat
      OBVIOUS
    <2>1. upto(i) \subseteq S
      OBVIOUS
    <2>2. IsFiniteSet(upto(i))
      BY <2>1, FS_Subset
    <2> QED
      BY <2>1, <2>2, FS_CardinalityType DEF Count
  <1>3. ASSUME NEW i \in S PROVE Count(S, i) \in 1 .. Cardinality(S)
    <2>1. i \in upto(i)
      OBVIOUS
    <2>2. IsFiniteSet(upto(i)) /\ Count(S, i) = Cardinality(upto(i)) /\ Count(S, i) \in Nat
          /\ upto(i) \subseteq S
      BY <1>2
    <2> HIDE DEF upto
    <2>3. Cardinality(upto(i)) <= Cardinality(S) /\ Cardinality(upto(i)) # 0
      BY <2>1, <2>2, FS_Subset, FS_EmptySet
    <2> QED
      BY <1>1, <2>2, <2>3
  <1>4. ASSUME NEW i \in S, NEW j \in S, i < j PROVE Count(S, i) < Count(S, j)
    <2>1. upto(i) \subseteq upto(j) /\ j \in upto(j) /\ j \notin upto(i)
      <3>1. i \in Nat /\ j \in Nat
        OBVIOUS
      <3>2. \A k \in S : k \in Nat /\ (k <= i => k <= j)
        BY <1>4, <3>1
      <3>3. upto(i) \subseteq upto(j)
        BY <3>2
      <3>4. j \in upto(j) /\ ~ (j <= i)
        BY <1>4, <3>1
      <3> QED
        BY <3>3, <3>4
    <2>2. upto(i) # upto(j)
      BY <2>1
    <2>3. /\ IsFiniteSet(upto(j)) /\ Count(S, i) = Cardinality(upto(i)) /\ Count(S, i) \in Nat
          /\ Count(S, j) = Cardinality(upto(j)) /\ Count(S, j) \in Nat
      BY <1>2
    <2> HIDE DEF upto
    <2>4. Cardinality(upto(i)) <= Cardinality(upto(j))
          /\ Cardinality(upto(i)) # Cardinality(upto(j))
      BY <2>1, <2>2, <2>3, FS_Subset
    <2> QED
      BY <2>3, <2>4
  <1> QED
    BY <1>1, <1>3, <1>4

\* Each place up to the size of a set is taken, by one number.
LEMMA NthIs ==
  ASSUME NEW S, S \subseteq Nat, IsFiniteSet(S)
  PROVE  /\ \A k \in 1 .. Cardinality(S) : Nth(S, k) \in S /\ Count(S, Nth(S, k)) = k
         /\ \A i \in S : Nth(S, Count(S, i)) = i
  <1> DEFINE n == Cardinality(S)
             places == 1 .. n
             count == [i \in S |-> Count(S, i)]
  <1>1. /\ n \in Nat
        /\ \A i \in S : Count(S, i) \in places
        /\ \A i, j \in S : i < j => Count(S, i) < Count(S, j)
    BY CountIs
  <1> HIDE DEF n
  <1>2. \A i, j \in S : Count(S, i) = Count(S, j) => i = j
    <2> SUFFICES ASSUME NEW i \in S, NEW j \in S, Count(S, i) = Count(S, j) PROVE i = j
      OBVIOUS
    <2>1. Count(S, i) \in Nat /\ ~ (i < j) /\ ~ (j < i)
      BY <1>1
    <2> QED
      BY <2>1
  <1>3. \A k : (\E i \in S : Count(S, i) = k) => Nth(S, k) \in S /\ Count(S, Nth(S, k)) = k
    BY DEF Nth, Count
  <1>4. count \in [S -> places]
    BY <1>1
  <1>5. \A i, j \in S : count[i] = count[j] => i = j
    BY <1>2
  <1>6. \A i \in S : count[i] = Count(S, i)
    OBVIOUS
  <1> HIDE DEF count
  <1>7. count \in Injection(S, places)
    BY <1>4, <1>5 DEF Injection, IsInjective
  <1>8. IsFiniteSet(places) /\ Cardinality(places) = n
    BY <1>1, FS_Interval
  <1>9. count \in Surjection(S, places)
    BY <1>7, <1>8, FS_Injection DEF n
  <1>10. \A k \in places : \E i \in S : Count(S, i) = k
    BY <1>6, <1>9 DEF Surjection
  <1>11. \A k \in places : Nth(S, k) \in S /\ Count(S, Nth(S, k)) = k
    BY <1>3, <1>10
  <1>12. ASSUME NEW i \in S PROVE Nth(S, Count(S, i)) = i
    BY <1>2, <1>3
  <1> QED
    BY <1>11, <1>12 DEF n

LEMMA NthLast ==
  ASSUME NEW S, S \subseteq Nat, IsFiniteSet(S), NEW m \in S, \A j \in S : j <= m
  PROVE  /\ Cardinality(S) \in Nat \ {0}
         /\ Nth(S, Cardinality(S)) = m
         /\ \A k \in 1 .. Cardinality(S) : Nth(S, k) = m => k = Cardinality(S)
  <1>1. {j \in S : j <= m} = S
    OBVIOUS
  <1>2. Count(S, m) = Cardinality(S)
    BY <1>1 DEF Count
  <1>3. Cardinality(S) \in Nat /\ Count(S, m) \in 1 .. Cardinality(S)
    BY CountIs
  <1>4. Nth(S, Count(S, m)) = m /\ \A k \in 1 .. Cardinality(S) : Count(S, Nth(S, k)) = k
    BY NthIs
  <1>5. Cardinality(S) # 0
    BY <1>2, <1>3
  <1> QED
    BY <1>2, <1>3, <1>4, <1>5

LEMMA NthAdd ==
  ASSUME NEW S, S \subseteq Nat, IsFiniteSet(S), NEW m \in Nat, \A j \in S : j < m
  PROVE  /\ Cardinality(S \cup {m}) = Cardinality(S) + 1
         /\ \A k \in 1 .. Cardinality(S) : Nth(S \cup {m}, k) = Nth(S, k)
         /\ Nth(S \cup {m}, Cardinality(S) + 1) = m
  <1> DEFINE T == S \cup {m}
  <1>1. m \notin S /\ T \subseteq Nat
    OBVIOUS
  <1>2. IsFiniteSet(T) /\ Cardinality(T) = Cardinality(S) + 1
    BY <1>1, FS_AddElement
  <1>3. Cardinality(S) \in Nat
    BY FS_CardinalityType
  <1>4. \A j \in T : j <= m
    OBVIOUS
  <1>5. ASSUME NEW i \in S PROVE Count(T, i) = Count(S, i)
    <2>1. {j \in T : j <= i} = {j \in S : j <= i}
      OBVIOUS
    <2> QED
      BY <2>1 DEF Count
  <1> HIDE DEF T
  <1>6. \A i \in T : Nth(T, Count(T, i)) = i
    BY <1>1, <1>2, NthIs
  <1>7. ASSUME NEW k \in 1 .. Cardinality(S) PROVE Nth(T, k) = Nth(S, k)
    <2>1. Nth(S, k) \in S /\ Count(S, Nth(S, k)) = k
      BY NthIs
    <2>2. Nth(S, k) \in T
      BY <2>1 DEF T
    <2> QED
      BY <1>5, <1>6, <2>1, <2>2
  <1>8. m \in T
    BY DEF T
  <1>9. Nth(T, Cardinality(T)) = m
    BY <1>1, <1>2, <1>4, <1>8, NthLast
  <1> QED
    BY <1>2, <1>7, <1>9 DEF T

-----------------------------------------------------------------------------
(* A row of history is the last place of its tank, or closes that place.   *)

Dates == [arrival : {0} \cup Weighings, departure : {0} \cup Weighings]

DatesOf(row) == [arrival |-> row.arrival, departure |-> row.departure]

LEMMA RowsAre ==
  ASSUME hist \in Seq(Visit)
  PROVE  /\ Len(hist) \in Nat /\ DOMAIN hist = 1 .. Len(hist)
         /\ \A i \in 1 .. Len(hist) : hist[i] \in Visit /\ DatesOf(hist[i]) \in Dates
         /\ \A n : /\ RowsOf(n) \subseteq 1 .. Len(hist) /\ RowsOf(n) \subseteq Nat
                   /\ IsFiniteSet(RowsOf(n)) /\ Cardinality(RowsOf(n)) \in Nat
  <1>1. Len(hist) \in Nat /\ DOMAIN hist = 1 .. Len(hist)
    OBVIOUS
  <1>2. ASSUME NEW i \in 1 .. Len(hist) PROVE hist[i] \in Visit /\ DatesOf(hist[i]) \in Dates
    <2>1. hist[i] \in Visit
      OBVIOUS
    <2> QED
      BY <2>1 DEF Visit, Dates, DatesOf
  <1>3. ASSUME NEW n
        PROVE  /\ RowsOf(n) \subseteq 1 .. Len(hist) /\ RowsOf(n) \subseteq Nat
               /\ IsFiniteSet(RowsOf(n)) /\ Cardinality(RowsOf(n)) \in Nat
    <2>1. RowsOf(n) \subseteq 1 .. Len(hist)
      BY <1>1 DEF RowsOf
    <2>2. IsFiniteSet(1 .. Len(hist))
      BY <1>1, FS_Interval
    <2>3. IsFiniteSet(RowsOf(n))
      BY <2>1, <2>2, FS_Subset
    <2>4. RowsOf(n) \subseteq Nat
      BY <2>1, <1>1
    <2> QED
      BY <2>1, <2>3, <2>4, FS_CardinalityType
  <1> QED
    BY <1>1, <1>2, <1>3

\* What the ledger knows of a tank is what its rows say, in their order.
LEMMA VisitsAre ==
  ASSUME hist \in Seq(Visit), NEW n \in Numbers
  PROVE  /\ Visits[n] \in Seq(Dates)
         /\ Len(Visits[n]) = Cardinality(RowsOf(n))
         /\ \A k \in 1 .. Len(Visits[n]) :
              /\ Nth(RowsOf(n), k) \in RowsOf(n)
              /\ Nth(RowsOf(n), k) \in 1 .. Len(hist)
              /\ Visits[n][k] = DatesOf(hist[Nth(RowsOf(n), k)])
  <1> DEFINE S == RowsOf(n)
             c == Cardinality(S)
             f == [k \in 1 .. c |-> DatesOf(hist[Nth(S, k)])]
  <1>1. /\ S \subseteq 1 .. Len(hist) /\ S \subseteq Nat /\ IsFiniteSet(S) /\ c \in Nat
        /\ \A i \in 1 .. Len(hist) : DatesOf(hist[i]) \in Dates
    BY RowsAre
  <1>2. Visits[n] = f
    BY DEF Visits, DatesOf
  <1> HIDE DEF S
  <1>3. \A k \in 1 .. c : Nth(S, k) \in S
    BY <1>1, NthIs
  <1> HIDE DEF c
  <1>4. \A k \in 1 .. c : DatesOf(hist[Nth(S, k)]) \in Dates
    BY <1>1, <1>3
  <1>5. f \in Seq(Dates) /\ Len(f) = c /\ \A k \in 1 .. c : f[k] = DatesOf(hist[Nth(S, k)])
    BY <1>1, <1>4
  <1> QED
    BY <1>1, <1>2, <1>3, <1>5 DEF S, c

\* The last row is the last place.
LEMMA LastRowIs ==
  ASSUME hist \in Seq(Visit), NEW n, RowsOf(n) # {}
  PROVE  LastRow(n) \in RowsOf(n) /\ \A j \in RowsOf(n) : j <= LastRow(n)
  <1>1. Len(hist) \in Nat /\ RowsOf(n) \subseteq 1 .. Len(hist)
    BY RowsAre
  <1>2. RowsOf(n) \subseteq 0 .. Len(hist)
    BY <1>1
  <1>3. \E i \in RowsOf(n) : \A j \in RowsOf(n) : j <= i
    BY <1>1, <1>2, Greatest
  <1> QED
    BY <1>3 DEF LastRow

LEMMA LastVisit ==
  ASSUME hist \in Seq(Visit), NEW n \in Numbers
  PROVE  /\ Visits[n] = << >> <=> RowsOf(n) = {}
         /\ RowsOf(n) # {} =>
              /\ Len(Visits[n]) \in Nat \ {0}
              /\ Visits[n][Len(Visits[n])] = DatesOf(hist[LastRow(n)])
  <1> DEFINE S == RowsOf(n)
  <1>1. /\ S \subseteq Nat /\ IsFiniteSet(S)
        /\ Visits[n] \in Seq(Dates) /\ Len(Visits[n]) = Cardinality(S)
        /\ \A k \in 1 .. Len(Visits[n]) : Visits[n][k] = DatesOf(hist[Nth(S, k)])
    BY RowsAre, VisitsAre
  <1>2. S = {} => Cardinality(S) = 0
    BY FS_EmptySet
  <1>3. ASSUME S # {}
        PROVE  /\ Len(Visits[n]) \in Nat \ {0}
               /\ Visits[n][Len(Visits[n])] = DatesOf(hist[LastRow(n)])
    <2>1. LastRow(n) \in S /\ \A j \in S : j <= LastRow(n)
      BY <1>3, LastRowIs
    <2> HIDE DEF S
    <2>2. Cardinality(S) \in Nat \ {0} /\ Nth(S, Cardinality(S)) = LastRow(n)
      BY <1>1, <2>1, NthLast
    <2> QED
      BY <1>1, <2>2
  <1>4. Visits[n] = << >> <=> Len(Visits[n]) = 0
    BY <1>1
  <1> QED
    BY <1>1, <1>2, <1>3, <1>4

\* A new row is a new last place of its tank.
LEMMA AppendVisit ==
  ASSUME hist \in Seq(Visit), NEW row \in Visit, hist' = Append(hist, row)
  PROVE  Visits' = [Visits EXCEPT ![row.tank] = Append(@, DatesOf(row))]
  <1> DEFINE m == Len(hist) + 1
             n == row.tank
  <1>1. /\ Len(hist) \in Nat /\ m \in Nat /\ DOMAIN hist = 1 .. Len(hist)
        /\ hist' \in Seq(Visit) /\ DOMAIN hist' = 1 .. m /\ Len(hist') = m /\ hist'[m] = row
        /\ \A i \in 1 .. Len(hist) : hist'[i] = hist[i]
    OBVIOUS
  <1>2. n \in Numbers
    BY DEF Visit
  <1>3. \A x : RowsOf(x)' = IF x = n THEN RowsOf(x) \cup {m} ELSE RowsOf(x)
    <2> SUFFICES ASSUME NEW x
                 PROVE  RowsOf(x)' = IF x = n THEN RowsOf(x) \cup {m} ELSE RowsOf(x)
      OBVIOUS
    <2>1. \A i \in 1 .. m : i \in 1 .. Len(hist) \/ i = m
      BY <1>1
    <2>2. \A i \in 1 .. Len(hist) : i \in 1 .. m
      BY <1>1
    <2>3. m \in 1 .. m
      BY <1>1
    <2> QED
      BY <1>1, <2>1, <2>2, <2>3 DEF RowsOf
  <1>4. \A x : /\ RowsOf(x) \subseteq 1 .. Len(hist) /\ RowsOf(x) \subseteq Nat
               /\ IsFiniteSet(RowsOf(x)) /\ Cardinality(RowsOf(x)) \in Nat
    BY RowsAre
  <1>5. \A x : \A j \in RowsOf(x) : j < m /\ j \in 1 .. Len(hist)
    BY <1>1, <1>4
  <1> DEFINE old(x) == [k \in 1 .. Cardinality(RowsOf(x)) |-> DatesOf(hist[Nth(RowsOf(x), k)])]
             new(x) == [k \in 1 .. Cardinality(RowsOf(x)') |-> DatesOf(hist'[Nth(RowsOf(x)', k)])]
  <1>6. Visits = [x \in Numbers |-> old(x)] /\ Visits' = [x \in Numbers |-> new(x)]
    BY DEF Visits, DatesOf
  <1>7. \A x : \A k \in 1 .. Cardinality(RowsOf(x)) : Nth(RowsOf(x), k) \in RowsOf(x)
    BY <1>4, NthIs
  <1> HIDE DEF m
  <1>8. ASSUME NEW x, x # n PROVE new(x) = old(x)
    <2>1. RowsOf(x)' = RowsOf(x)
      BY <1>3, <1>8
    <2>2. \A k \in 1 .. Cardinality(RowsOf(x)) :
            hist'[Nth(RowsOf(x), k)] = hist[Nth(RowsOf(x), k)]
      BY <1>1, <1>5, <1>7
    <2> QED
      BY <2>1, <2>2
  <1>9. new(n) = Append(old(n), DatesOf(row))
    <2> DEFINE S == RowsOf(n)
               c == Cardinality(S)
    <2>1. RowsOf(n)' = S \cup {m}
      BY <1>3
    <2>2. /\ Cardinality(S \cup {m}) = c + 1
          /\ \A k \in 1 .. c : Nth(S \cup {m}, k) = Nth(S, k)
          /\ Nth(S \cup {m}, c + 1) = m
      BY <1>1, <1>4, <1>5, NthAdd
    <2>3. c \in Nat /\ \A k \in 1 .. c : hist'[Nth(S, k)] = hist[Nth(S, k)]
      BY <1>1, <1>4, <1>5, <1>7
    <2>4. new(n) = [k \in 1 .. c + 1 |-> DatesOf(hist'[Nth(S \cup {m}, k)])]
      BY <2>1, <2>2
    <2> HIDE DEF new
    <2>5. old(n) = [k \in 1 .. c |-> DatesOf(hist[Nth(S, k)])]
      OBVIOUS
    <2> HIDE DEF old, c, S
    <2>6. \A k \in 1 .. c + 1 : k \in 1 .. c \/ k = c + 1
      BY <2>3
    <2> DEFINE g == [k \in 1 .. c + 1 |-> IF k = c + 1 THEN DatesOf(row) ELSE old(n)[k]]
    <2>7. new(n) = g
      <3>1. ASSUME NEW k \in 1 .. c PROVE new(n)[k] = old(n)[k] /\ k # c + 1
        <4>1. k \in 1 .. c + 1 /\ k # c + 1
          BY <2>3
        <4>2. new(n)[k] = DatesOf(hist'[Nth(S \cup {m}, k)])
          BY <2>4, <4>1
        <4>3. old(n)[k] = DatesOf(hist[Nth(S, k)])
          BY <2>5
        <4> QED
          BY <2>2, <2>3, <4>1, <4>2, <4>3
      <3>2. c + 1 \in 1 .. c + 1 /\ new(n)[c + 1] = DatesOf(row)
        BY <1>1, <2>2, <2>3, <2>4
      <3>3. \A k \in 1 .. c + 1 : new(n)[k] = IF k = c + 1 THEN DatesOf(row) ELSE old(n)[k]
        BY <2>6, <3>1, <3>2
      <3> QED
        BY <2>4, <3>3
    <2>8. Len(old(n)) = c
      BY <2>3, <2>5
    <2>9. Append(old(n), DatesOf(row))
            = [k \in 1 .. Len(old(n)) + 1 |-> IF k = Len(old(n)) + 1 THEN DatesOf(row) ELSE old(n)[k]]
      <3>1. old(n) \in Seq({DatesOf(hist[Nth(S, k)]) : k \in 1 .. c})
        BY <2>3, <2>5
      <3> QED
        BY <3>1
    <2> QED
      BY <2>7, <2>8, <2>9
  <1> HIDE DEF old, new
  <1> DEFINE after == [Visits EXCEPT ![n] = Append(@, DatesOf(row))]
  <1>10. after = [x \in Numbers |-> IF x = n THEN Append(old(n), DatesOf(row)) ELSE old(x)]
    BY <1>2, <1>6
  <1> QED
    BY <1>6, <1>8, <1>9, <1>10

\* A departure changes the last place of its tank alone.
LEMMA CloseVisit ==
  ASSUME hist \in Seq(Visit), NEW n \in Numbers, RowsOf(n) # {},
         NEW w \in Weighings,
         hist' = [hist EXCEPT ![LastRow(n)].departure = w]
  PROVE  Visits' = [Visits EXCEPT ![n] = [@ EXCEPT ![Len(@)].departure = w]]
  <1>1. PICK m : m = LastRow(n)
    OBVIOUS
  <1>2. /\ m \in RowsOf(n) /\ \A j \in RowsOf(n) : j <= m
        /\ m \in DOMAIN hist /\ hist[m].tank = n
    BY <1>1, LastRowIs DEF RowsOf
  <1>3. hist[m] \in Visit
    BY <1>2, RowsAre
  <1>4. PICK old : old = hist[m]
    OBVIOUS
  <1> DEFINE row == [old EXCEPT !.departure = w]
  <1>5. row = [tank |-> n, arrival |-> old.arrival, departure |-> w]
    BY <1>2, <1>3, <1>4 DEF Visit
  <1>6. hist' = [hist EXCEPT ![m] = row]
    BY <1>1, <1>4
  <1>7. DatesOf(row) = [DatesOf(old) EXCEPT !.departure = w] /\ row.tank = old.tank
    BY <1>2, <1>4, <1>5 DEF DatesOf
  <1> HIDE DEF row
  <1>8. /\ DOMAIN hist' = DOMAIN hist /\ hist'[m] = row
        /\ \A i \in DOMAIN hist : i # m => hist'[i] = hist[i]
    BY <1>2, <1>6
  <1>9. \A x : RowsOf(x)' = RowsOf(x)
    BY <1>4, <1>7, <1>8 DEF RowsOf
  <1> DEFINE was(x) == [k \in 1 .. Cardinality(RowsOf(x)) |-> DatesOf(hist[Nth(RowsOf(x), k)])]
             new(x) == [k \in 1 .. Cardinality(RowsOf(x)) |-> DatesOf(hist'[Nth(RowsOf(x), k)])]
  <1>10. Visits = [x \in Numbers |-> was(x)] /\ Visits' = [x \in Numbers |-> new(x)]
    BY <1>9 DEF Visits, DatesOf
  <1>11. \A x : /\ RowsOf(x) \subseteq Nat /\ IsFiniteSet(RowsOf(x))
                /\ Cardinality(RowsOf(x)) \in Nat
    BY RowsAre
  <1>12. \A x : \A k \in 1 .. Cardinality(RowsOf(x)) :
           Nth(RowsOf(x), k) \in RowsOf(x) /\ Nth(RowsOf(x), k) \in DOMAIN hist
    <2>1. \A x : \A k \in 1 .. Cardinality(RowsOf(x)) : Nth(RowsOf(x), k) \in RowsOf(x)
      BY <1>11, NthIs
    <2>2. \A x : RowsOf(x) \subseteq DOMAIN hist
      BY DEF RowsOf
    <2> QED
      BY <2>1, <2>2
  <1>13. ASSUME NEW x, x # n PROVE new(x) = was(x)
    <2>1. m \notin RowsOf(x)
      BY <1>2, <1>13 DEF RowsOf
    <2> QED
      BY <1>8, <1>12, <2>1
  <1>14. new(n) = [was(n) EXCEPT ![Len(was(n))].departure = w]
    <2> DEFINE S == RowsOf(n)
               c == Cardinality(S)
    <2>1. /\ c \in Nat \ {0} /\ Nth(S, c) = m
          /\ \A k \in 1 .. c : Nth(S, k) = m => k = c
      BY <1>2, <1>11, NthLast
    <2>2. \A k \in 1 .. c : Nth(S, k) \in DOMAIN hist
      BY <1>12
    <2>3. was(n) = [k \in 1 .. c |-> DatesOf(hist[Nth(S, k)])]
          /\ new(n) = [k \in 1 .. c |-> DatesOf(hist'[Nth(S, k)])]
      OBVIOUS
    <2> HIDE DEF was, new, c, S
    <2>4. Len(was(n)) = c
      BY <2>1, <2>3
    <2>5. c \in 1 .. c
      BY <2>1
    <2>6. was(n)[c] = DatesOf(old) /\ new(n)[c] = DatesOf(row)
      BY <1>4, <1>8, <2>1, <2>3, <2>5
    <2>7. \A k \in 1 .. c : k # c => new(n)[k] = was(n)[k]
      BY <1>8, <2>1, <2>2, <2>3
    <2>8. \A k \in 1 .. c : new(n)[k] = IF k = c THEN [was(n)[c] EXCEPT !.departure = w] ELSE was(n)[k]
      BY <1>7, <2>6, <2>7
    <2>9. DOMAIN was(n) = 1 .. c /\ DOMAIN new(n) = 1 .. c
      BY <2>3
    <2> DEFINE e == [was(n)[c] EXCEPT !.departure = w]
    <2>10. [was(n) EXCEPT ![c] = e] = [k \in 1 .. c |-> IF k = c THEN e ELSE was(n)[k]]
      <3> HIDE DEF e
      <3> QED
        BY <2>3, <2>9
    <2>11. new(n) = [k \in 1 .. c |-> new(n)[k]]
      BY <2>3
    <2>12. new(n) = [was(n) EXCEPT ![c] = e]
      <3> HIDE DEF e
      <3>1. \A k \in 1 .. c : new(n)[k] = IF k = c THEN e ELSE was(n)[k]
        BY <2>8 DEF e
      <3> QED
        BY <2>10, <2>11, <3>1
    <2> QED
      BY <2>4, <2>12
  <1> HIDE DEF was, new
  <1> DEFINE closed == [was(n) EXCEPT ![Len(was(n))].departure = w]
  <1>15. [Visits EXCEPT ![n] = [@ EXCEPT ![Len(@)].departure = w]]
           = [x \in Numbers |-> IF x = n THEN closed ELSE was(x)]
    <2>1. Visits[n] = was(n)
      BY <1>10
    <2>2. [Visits[n] EXCEPT ![Len(Visits[n])].departure = w] = closed
      BY <2>1
    <2>3. [Visits EXCEPT ![n] = [@ EXCEPT ![Len(@)].departure = w]]
            = [Visits EXCEPT ![n] = [Visits[n] EXCEPT ![Len(Visits[n])].departure = w]]
      OBVIOUS
    <2> HIDE DEF closed
    <2> QED
      BY <1>10, <2>2, <2>3
  <1> QED
    BY <1>10, <1>13, <1>14, <1>15

\* A task that books the weighing it was made for, when no later one is booked,
\* does what the ledger allows.
LEMMA BookIs ==
  ASSUME TypeInv, NEW t, Book(t), t.reg \in Weighings, t.number = Plan[t.reg].tank,
         \A i \in DOMAIN hist : hist[i].arrival < t.reg /\ hist[i].departure < t.reg
  PROVE  Ledger!Next
  <1> DEFINE w == t.reg
             n == Plan[w].tank
             full == Plan[w].full
             Added(a, d) == [Visits EXCEPT ![n] = Append(@, [arrival |-> a, departure |-> d])]
             Closed == [Visits EXCEPT ![n] = [@ EXCEPT ![Len(@)].departure = w]]
  <1>1. /\ hist \in Seq(Visit) /\ w \in Weighings /\ n \in Numbers /\ full \in BOOLEAN
        /\ Weighings = DOMAIN Plan /\ w # 0 /\ w \in Nat
    BY PlanType DEF TypeInv, TablePart, Weighings
  <1>2. Ledger!Tanks = Numbers
    BY DEF Ledger!Tanks, Numbers, Weighings
  <1>3. Ledger!Fresh(w)
    <2>1. SUFFICES ASSUME NEW x \in DOMAIN Plan, x >= w, NEW tank \in Numbers,
                          NEW k \in DOMAIN Visits[tank],
                          x \in {Visits[tank][k].arrival, Visits[tank][k].departure}
                   PROVE  FALSE
      BY <1>2 DEF Ledger!Fresh, Ledger!Booked
    <2>2. /\ DOMAIN Visits[tank] = 1 .. Len(Visits[tank])
          /\ \A j \in 1 .. Len(Visits[tank]) :
               /\ Nth(RowsOf(tank), j) \in 1 .. Len(hist)
               /\ Visits[tank][j] = DatesOf(hist[Nth(RowsOf(tank), j)])
      BY <1>1, VisitsAre
    <2>3. PICK i \in 1 .. Len(hist) : Visits[tank][k] = DatesOf(hist[i])
      BY <2>1, <2>2
    <2>4. hist[i].arrival < w /\ hist[i].departure < w /\ hist[i] \in Visit
      BY <1>1, <2>3
    <2>5. x \in Nat /\ x \in {hist[i].arrival, hist[i].departure}
      BY <1>1, <2>1, <2>3, PlanType DEF DatesOf
    <2> QED
      BY <1>1, <2>1, <2>4, <2>5
  <1>4. ASSUME NEW a \in {0} \cup Weighings, NEW d \in {0} \cup Weighings,
               hist' = Append(hist, [tank |-> n, arrival |-> a, departure |-> d])
        PROVE  Visits' = Added(a, d)
    <2> DEFINE row == [tank |-> n, arrival |-> a, departure |-> d]
    <2>1. row \in Visit /\ row.tank = n /\ DatesOf(row) = [arrival |-> a, departure |-> d]
      BY <1>1 DEF Visit, DatesOf
    <2>2. hist' = Append(hist, row)
      BY <1>4
    <2> HIDE DEF row
    <2>3. Visits' = [Visits EXCEPT ![row.tank] = Append(@, DatesOf(row))]
      BY <1>1, <2>1, <2>2, AppendVisit
    <2> QED
      BY <2>1, <2>3
  <1>5. /\ Visits[n] = << >> <=> RowsOf(n) = {}
        /\ RowsOf(n) # {} => Visits[n][Len(Visits[n])] = DatesOf(hist[LastRow(n)])
    BY <1>1, LastVisit
  <1>6. /\ Ledger!Open(n) <=> RowsOf(n) # {} /\ hist[LastRow(n)].departure = 0
        /\ Ledger!Lone(n) <=> RowsOf(n) # {} /\ hist[LastRow(n)].arrival = 0
    BY <1>5 DEF Ledger!Open, Ledger!Lone, DatesOf
  <1>7. CASE full /\ hist' = Append(hist, [[tank |-> n, arrival |-> 0, departure |-> 0]
                                           EXCEPT !.arrival = w])
    <2>1. hist' = Append(hist, [tank |-> n, arrival |-> w, departure |-> 0])
      BY <1>7
    <2>2. Visits' = Added(w, 0)
      BY <1>1, <1>4, <2>1
    <2>3. Ledger!Book(w)
      BY <1>3, <1>7, <2>2 DEF Ledger!Book
    <2> QED
      BY <1>1, <2>3 DEF Ledger!Next
  <1>8. CASE ~full /\ \E i \in DOMAIN hist :
                       Closes(n, i) /\ hist' = [hist EXCEPT ![i].departure = w]
    <2>1. /\ RowsOf(n) # {} /\ hist' = [hist EXCEPT ![LastRow(n)].departure = w]
          /\ ~(hist[LastRow(n)].arrival # 0 /\ hist[LastRow(n)].departure # 0)
      BY <1>8 DEF Closes
    <2>2. Visits' = Closed
      BY <1>1, <2>1, CloseVisit
    <2>3. Ledger!Lone(n) => Ledger!Overwrite(w)
      BY <1>3, <1>8, <2>2 DEF Ledger!Overwrite
    <2>4. ~Ledger!Lone(n) => Ledger!Book(w)
      BY <1>3, <1>6, <1>8, <2>1, <2>2 DEF Ledger!Book
    <2> QED
      BY <1>1, <2>3, <2>4 DEF Ledger!Next
  <1>9. CASE /\ ~full /\ ~\E i \in DOMAIN hist : Closes(n, i)
             /\ hist' = Append(hist, [[tank |-> n, arrival |-> 0, departure |-> 0]
                                         EXCEPT !.departure = w])
    <2>1. hist' = Append(hist, [tank |-> n, arrival |-> 0, departure |-> w])
      BY <1>9
    <2>2. Visits' = Added(0, w)
      BY <1>1, <1>4, <2>1
    <2>3. RowsOf(n) # {} => LastRow(n) \in DOMAIN hist
      BY <1>1, LastRowIs DEF RowsOf
    <2>4. ~Ledger!Open(n) /\ ~Ledger!Lone(n)
      BY <1>6, <1>9, <2>3 DEF Closes
    <2>5. Ledger!Book(w)
      BY <1>3, <1>9, <2>2, <2>4 DEF Ledger!Book
    <2> QED
      BY <1>1, <2>5 DEF Ledger!Next
  <1> QED
    BY <1>7, <1>8, <1>9 DEF Book

-----------------------------------------------------------------------------
(* While nothing is late or lost on the way, a task of the camera serves    *)
(* the tank that has just left the scales: the next one comes after it has  *)
(* ended.  The history is behind the scales by the weighing to be booked.   *)

Cam == "camera_worked"
Camera == "railway_camera_worked"

Calm == mishaps \cap {"unplated", "twice", "late", "link", "restart"} = {}

CameraTasks == {t \in BagToSet(tasks) : t.kind = Camera}

\* The camera has stopped, and the dispatcher has not heard it.
Unheard == Cam \in plc \ snap

ToBook == Unheard \/ \E t \in CameraTasks : t.stage # "add"

\* The scales and the number follow the tank; the first session comes before
\* the first tank.
TurnInv ==
  /\ link # "up" => turn = 0
  /\ turn = 0 => reg = 0
  /\ scale # "settling" => reg = turn
  /\ scale = "free" => plate = turn

\* While a tank is on the scales, the camera of the last one is done with.
IdleInv ==
  /\ scale # "free" =>
       CameraTasks = {} /\ queue = << >> /\ (Cam \in plc \cup sampled => Cam \in snap)
  /\ link = "up" => (Cam \in sampled \cap plc => Cam \in snap)

\* A task of the camera is alone and of the last tank.
LastInv ==
  \A t \in CameraTasks :
    /\ tasks[t] = 1 /\ t.reg = turn
    /\ t.stage # "queued" => t.number = Plan[turn].tank
    /\ \A u \in CameraTasks : u = t
    /\ ~Unheard

HistInv ==
  \A i \in DOMAIN hist : \A w \in {hist[i].arrival, hist[i].departure} :
    w <= turn /\ (scale # "free" \/ ToBook => w < turn)

VisitOK == TurnInv /\ IdleInv /\ LastInv /\ HistInv

VisitInv == Calm => VisitOK

LEMMA CalmIs ==
  ASSUME Calm
  PROVE  /\ ~Slip("unplated") /\ ~Slip("twice") /\ ~Slip("late") /\ ~Slip("link")
         /\ ~Slip("restart") /\ "restart" \notin mishaps
         /\ mishaps \cap {"link", "restart"} = {}
  BY DEF Calm, Slip

\* What the types say of the first turn.
LEMMA FirstTurn ==
  ASSUME TypeInv, TurnInv, LastInv, turn = 0
  PROVE  /\ scale = "free" /\ reg = 0 /\ Cam \notin plc \cup sampled \cup snap
         /\ CameraTasks = {} /\ ~ToBook
  <1>1. scale = "free" /\ reg = 0 /\ Cam \notin plc \cup sampled \cup snap
    BY DEF TypeInv, ScalePart, TurnInv, Cam
  <1>2. CameraTasks = {}
    <2>1. ASSUME NEW t \in CameraTasks PROVE FALSE
      <3>1. t \in BagToSet(tasks) /\ t.kind = Camera /\ t.reg = turn
        BY DEF CameraTasks, LastInv
      <3>2. t.reg # 0
        BY <3>1 DEF TypeInv, TasksOK, TaskOK, Camera
      <3> QED
        BY <3>1, <3>2
    <2> QED
      BY <2>1
  <1> QED
    BY <1>1, <1>2 DEF ToBook, Unheard

LEMMA TurnType ==
  ASSUME TypeInv
  PROVE  /\ turn \in Nat /\ turn \in {0} \cup Weighings /\ reg \in {0} \cup Weighings
         /\ scale \in {"free", "settling", "stable"} /\ (scale # "free" => turn # 0)
         /\ hist \in Seq(Visit)
         /\ \A i \in DOMAIN hist : hist[i].arrival \in Nat /\ hist[i].departure \in Nat
  <1>1. /\ turn \in {0} \cup Weighings /\ reg \in {0} \cup Weighings
        /\ scale \in {"free", "settling", "stable"} /\ (scale # "free" => turn # 0)
        /\ hist \in Seq(Visit)
    BY DEF TypeInv, ScalePart, TablePart
  <1>2. Weighings \subseteq Nat
    BY PlanType
  <1>3. \A i \in DOMAIN hist : hist[i].arrival \in {0} \cup Weighings
                              /\ hist[i].departure \in {0} \cup Weighings
    BY <1>1, RowsAre DEF Visit
  <1>4. turn \in Nat
    BY <1>1, <1>2
  <1>5. ASSUME NEW i \in DOMAIN hist PROVE hist[i].arrival \in Nat /\ hist[i].departure \in Nat
    <2>1. \A x \in {0} \cup Weighings : x \in Nat
      BY <1>2
    <2> QED
      BY <1>3, <2>1
  <1> QED
    BY <1>1, <1>4, <1>5

\* Steps of the PLC.
LEMMA PlcVisits ==
  ASSUME TypeInv, Calm, VisitOK, Plc
  PROVE  VisitOK'
  <1> USE DEF VisitOK
  <1>1. UNCHANGED <<sampled, snap, link, queue, mishaps, tasks, hist>>
    BY DEF Plc, bridgeRest, tables
  <1>2. /\ CameraTasks' = CameraTasks
        /\ (Cam \in plc' => Cam \in plc) => (ToBook' => ToBook) /\ (Unheard' => Unheard)
    BY <1>1 DEF CameraTasks, ToBook, Unheard
  <1>3. /\ turn \in Nat /\ (scale # "free" => turn # 0)
        /\ scale \in {"free", "settling", "stable"}
        /\ \A i \in DOMAIN hist : hist[i].arrival \in Nat /\ hist[i].departure \in Nat
    BY TurnType
  <1>4. CASE Roll
    <2>1. /\ scale = "free" /\ turn' = turn + 1 /\ scale' = "settling"
          /\ UNCHANGED <<plc, reg, plate>>
      BY <1>4 DEF Roll
    <2>2. tasks = EmptyBag /\ queue = << >> /\ link = "up" /\ sampled = plc
      BY <1>4, CalmIs DEF Roll, InTime, Served
    <2>3. CameraTasks = {}
      BY <2>2 DEF CameraTasks, EmptyBag, SetToBag, BagToSet
    <2>4. TurnInv'
      BY <1>1, <1>3, <2>1, <2>2 DEF TurnInv
    <2>5. IdleInv' /\ LastInv'
      BY <1>1, <1>2, <2>1, <2>2, <2>3 DEF IdleInv, LastInv
    <2>6. HistInv'
      BY <1>1, <1>3, <2>1 DEF HistInv
    <2> QED
      BY <2>4, <2>5, <2>6
  <1>5. CASE Stabilize
    <2>1. /\ scale = "settling" /\ scale' = "stable" /\ reg' = turn
          /\ UNCHANGED <<turn, plate>> /\ (Cam \in plc' <=> Cam \in plc)
      BY <1>5 DEF Stabilize, Cam
    <2>2. TurnInv'
      BY <1>1, <1>3, <2>1 DEF TurnInv
    <2>3. IdleInv' /\ LastInv'
      BY <1>1, <1>2, <2>1 DEF IdleInv, LastInv
    <2>4. HistInv'
      BY <1>1, <1>2, <2>1 DEF HistInv
    <2> QED
      BY <2>2, <2>3, <2>4
  <1>6. CASE Shoot
    <2>1. /\ scale = "stable" /\ plc' = plc \cup {Cam}
          /\ plate' = turn /\ scale' = "free" /\ UNCHANGED <<turn, reg>>
      BY <1>6, CalmIs DEF Shoot, Cam
    <2>2. TurnInv'
      BY <1>1, <2>1 DEF TurnInv
    <2>3. IdleInv' /\ LastInv'
      BY <1>1, <1>2, <2>1 DEF IdleInv, LastInv
    <2>4. HistInv'
      BY <1>1, <2>1 DEF HistInv
    <2> QED
      BY <2>2, <2>3, <2>4
  <1>7. CASE Complete \/ Panel
    <2>1. UNCHANGED <<turn, scale, reg, plate>> /\ (Cam \in plc' <=> Cam \in plc)
      BY <1>7 DEF Complete, Panel, EndBatch, Cam
    <2>2. TurnInv'
      BY <1>1, <2>1 DEF TurnInv
    <2>3. IdleInv' /\ LastInv'
      BY <1>1, <1>2, <2>1 DEF IdleInv, LastInv
    <2>4. HistInv'
      BY <1>1, <1>2, <2>1 DEF HistInv
    <2> QED
      BY <2>2, <2>3, <2>4
  <1> QED
    BY <1>4, <1>5, <1>6, <1>7 DEF Plc

\* A sample that fires the camera is the first the dispatcher hears of it.
LEMMA CameraFires ==
  ASSUME TypeInv, NEW S, Camera \in Bridge!PublishFires(S)
  PROVE  Unheard /\ Cam \in (snap \ Bridge!Heard(S)) \cup (plc \cap Bridge!Heard(S))
  <1>1. PICK t \in Bridge!Heard(S) :
          Bridge!MayFire(Camera, Bridge!Merged(S, Rank[t] - 1), Bridge!Merged(S, Rank[t]), FALSE)
    BY DEF Bridge!PublishFires
  <1>2. Rank[t] \in Int /\ Cam \in Tags
    BY TagsAre DEF Bridge!Heard, Rank, Cam
  <1>3. \A s : Bridge!Active(Camera, s) <=> Cam \in s
    <2>1. Pos[Camera] = {Cam} /\ Neg[Camera] = {}
      BY DEF Pos, Neg, Camera, Cam
    <2> QED
      BY <2>1 DEF Bridge!Active
  <1>4. Cam \in Bridge!Merged(S, Rank[t]) /\ Cam \notin Bridge!Merged(S, Rank[t] - 1)
    BY <1>1, <1>3 DEF Bridge!MayFire
  <1>5. Cam \in plc /\ Cam \notin snap
        /\ Cam \in (snap \ Bridge!Heard(S)) \cup (plc \cap Bridge!Heard(S))
    <2>1. /\ Cam \in plc /\ Cam \in snap => Cam \in Bridge!Merged(S, Rank[t] - 1)
          /\ Cam \in Bridge!Merged(S, Rank[t]) /\ Cam \notin Bridge!Merged(S, Rank[t] - 1) => Cam \in plc
          /\ Cam \in Bridge!Merged(S, Rank[t]) /\ Cam \in plc
               => Cam \in (snap \ Bridge!Heard(S)) \cup (plc \cap Bridge!Heard(S))
      BY <1>2, MergedIs
    <2> QED
      BY <1>4, <2>1
  <1> QED
    BY <1>5 DEF Unheard

\* The tasks of a sample beside the camera's.
LEMMA SentCamera ==
  ASSUME TypeInv, NEW fires \in SUBSET Triggers, Sent(fires)
  PROVE  \/ /\ CameraTasks' = CameraTasks
            /\ \A t \in CameraTasks : tasks'[t] = tasks[t]
         \/ /\ Camera \in fires
            /\ CameraTasks' = CameraTasks \cup {NewTask(Camera, heard')}
            /\ CameraTasks = {} => tasks'[NewTask(Camera, heard')] = 1
  <1> DEFINE S == {NewTask(tr, heard') : tr \in fires}
  <1>1. CASE tasks' = tasks
    BY <1>1 DEF CameraTasks
  <1>2. CASE tasks' = tasks (+) SetToBag(S)
    <2>1. IsABag(tasks)
      BY DEF TypeInv, TasksOK
    <2>2. PICK B : B = tasks (+) SetToBag(S)
      OBVIOUS
    <2>3. \A tr \in fires : NewTask(tr, heard').kind = tr
      BY DEF NewTask
    <2>4. \A t \in S : t.kind = Camera => Camera \in fires /\ t = NewTask(Camera, heard')
      BY <2>3
    <2>5. Camera \in fires => NewTask(Camera, heard') \in S /\ NewTask(Camera, heard').kind = Camera
      BY <2>3
    <2> HIDE DEF S
    <2>6. /\ BagToSet(B) = BagToSet(tasks) \cup S
          /\ \A e \in BagToSet(tasks) \ S : B[e] = tasks[e]
          /\ \A e \in S \ BagToSet(tasks) : B[e] = 1
      BY <2>1, <2>2, AddOne
    <2>7. CameraTasks' = {t \in BagToSet(B) : t.kind = Camera}
      BY <1>2, <2>2 DEF CameraTasks, S
    <2>8. CASE Camera \notin fires
      <3>1. CameraTasks' = CameraTasks
        BY <2>4, <2>6, <2>7, <2>8 DEF CameraTasks
      <3>2. \A t \in CameraTasks : B[t] = tasks[t]
        BY <2>4, <2>6, <2>8 DEF CameraTasks
      <3> QED
        BY <1>2, <2>2, <3>1, <3>2 DEF S
    <2>9. CASE Camera \in fires
      <3>1. CameraTasks' = CameraTasks \cup {NewTask(Camera, heard')}
        BY <2>4, <2>5, <2>6, <2>7, <2>9 DEF CameraTasks
      <3>2. CameraTasks = {} => B[NewTask(Camera, heard')] = 1
        BY <2>5, <2>6, <2>9 DEF CameraTasks
      <3> QED
        BY <1>2, <2>2, <2>9, <3>1, <3>2 DEF S
    <2> QED
      BY <2>8, <2>9
  <1> QED
    BY <1>1, <1>2 DEF Sent

\* Steps that leave the scales and the history alone, and of the tasks of the
\* camera the copies.
LEMMA VisitsStand ==
  ASSUME TypeInv, VisitOK, UNCHANGED <<turn, scale, reg, plate, hist>>,
         link' = link \/ turn = 0,
         CameraTasks' = CameraTasks, \A t \in CameraTasks : tasks'[t] = tasks[t],
         Unheard' => Unheard, IdleInv'
  PROVE  VisitOK'
  <1> USE DEF VisitOK
  <1>1. TurnInv'
    BY DEF TurnInv
  <1>2. LastInv'
    BY DEF LastInv
  <1>3. ToBook' => ToBook
    BY DEF ToBook
  <1>4. HistInv'
    BY <1>3 DEF HistInv
  <1> QED
    BY <1>1, <1>2, <1>4

LEMMA BridgeVisits ==
  ASSUME TypeInv, Calm, VisitOK, BridgeStep
  PROVE  VisitOK'
  <1> USE DEF VisitOK
  <1>1. UNCHANGED <<turn, scale, reg, plate, hist, mishaps>>
    BY DEF BridgeStep, scaleVars, tables
  <1>2. /\ turn \in Nat /\ (scale # "free" => turn # 0)
        /\ scale \in {"free", "settling", "stable"}
    BY TurnType
  <1>3. turn = 0 => /\ scale = "free" /\ Cam \notin plc \cup sampled \cup snap
                    /\ CameraTasks = {}
    BY FirstTurn
  <1>4. tasks' = tasks => CameraTasks' = CameraTasks
    BY DEF CameraTasks
  <1>5. CASE Connect
    <2>1. /\ link = "down" /\ link' = "session" /\ tasks' = tasks
          /\ UNCHANGED <<plc, sampled, snap, queue>>
      BY <1>5 DEF Connect, Bridge!Connect
    <2>2. turn = 0
      BY <2>1 DEF TurnInv
    <2>3. IdleInv' /\ (Unheard' => Unheard)
      BY <1>1, <1>4, <2>1 DEF IdleInv, Unheard
    <2> QED
      BY <1>1, <1>4, <2>1, <2>2, <2>3, VisitsStand
  <1>6. CASE InitialRead
    <2>1. /\ Sent(Bridge!InitialReadFires) /\ link = "session" /\ link' = "up"
          /\ plc' = plc /\ sampled' = plc /\ snap' = plc /\ queue' = queue
      BY <1>6 DEF InitialRead, Bridge!InitialRead, Bridge!OnSnapshot
    <2>2. turn = 0
      BY <2>1 DEF TurnInv
    <2>3. Bridge!InitialReadFires \subseteq Triggers /\ Camera \notin Bridge!InitialReadFires
      BY <1>3, <2>2, FiresAre DEF Camera, Cam
    <2>4. CameraTasks' = CameraTasks /\ \A t \in CameraTasks : tasks'[t] = tasks[t]
      BY <2>1, <2>3, SentCamera
    <2>5. IdleInv' /\ ~Unheard'
      BY <1>1, <1>3, <2>1, <2>2 DEF IdleInv, Unheard
    <2> QED
      BY <1>1, <2>2, <2>4, <2>5, VisitsStand
  <1>7. CASE Publish
    <2>1. PICK S : /\ Sent(Bridge!PublishFires(S))
                   /\ Bridge!Publish(S, Arrived(Bridge!PublishFires(S)))
                   /\ heard'.reg = reg
      BY <1>7 DEF Publish
    <2>2. /\ link = "up" /\ link' = link /\ plc' = plc /\ queue' = queue
          /\ sampled' = (sampled \ Bridge!Heard(S)) \cup (plc \cap Bridge!Heard(S))
          /\ snap' = (snap \ Bridge!Heard(S)) \cup (plc \cap Bridge!Heard(S))
      BY <2>1 DEF Bridge!Publish, Bridge!OnSnapshot
    <2>3. Bridge!PublishFires(S) \subseteq Triggers
      BY FiresAre
    <2>4. /\ Unheard' => Unheard
          /\ Cam \in sampled' /\ (Cam \in sampled => Cam \in snap) => Cam \in snap'
          /\ Cam \in sampled' \cap plc' /\ (Cam \in sampled \cap plc => Cam \in snap)
               => Cam \in snap'
      BY <2>2 DEF Unheard
    <2>5. /\ (Cam \in sampled \cap plc => Cam \in snap)
          /\ scale # "free" => CameraTasks = {} /\ queue = << >> /\ ~Unheard
                               /\ (Cam \in sampled => Cam \in snap)
      BY <2>2 DEF IdleInv, Unheard
    <2>6. CASE /\ CameraTasks' = CameraTasks
               /\ \A t \in CameraTasks : tasks'[t] = tasks[t]
      <3>1. IdleInv'
        BY <1>1, <2>2, <2>4, <2>5, <2>6 DEF IdleInv, Unheard
      <3> QED
        BY <1>1, <2>2, <2>4, <2>6, <3>1, VisitsStand
    <2>7. CASE /\ Camera \in Bridge!PublishFires(S)
               /\ CameraTasks' = CameraTasks \cup {NewTask(Camera, heard')}
               /\ CameraTasks = {} => tasks'[NewTask(Camera, heard')] = 1
      <3> DEFINE u == NewTask(Camera, heard')
      <3>1. Unheard /\ Cam \in snap'
        BY <2>2, <2>7, CameraFires
      <3>2. CameraTasks = {} /\ scale = "free"
        BY <2>5, <3>1 DEF LastInv
      <3>3. CameraTasks' = {u} /\ tasks'[u] = 1
        BY <2>7, <3>2
      <3>4. u.reg = turn /\ u.stage = "queued"
        BY <2>1, <3>2 DEF NewTask, TurnInv
      <3>5. ~Unheard'
        BY <3>1 DEF Unheard
      <3> HIDE DEF u
      <3>6. TurnInv'
        BY <1>1, <2>2 DEF TurnInv
      <3>7. IdleInv'
        BY <1>1, <3>1, <3>2 DEF IdleInv
      <3>8. LastInv'
        BY <1>1, <3>3, <3>4, <3>5 DEF LastInv
      <3>9. HistInv'
        BY <1>1, <3>1 DEF HistInv, ToBook
      <3> QED
        BY <3>6, <3>7, <3>8, <3>9
    <2> QED
      BY <2>1, <2>3, <2>6, <2>7, SentCamera
  <1>8. CASE WriteDone
    <2>1. Bridge!WriteDone /\ tasks' = tasks
      BY <1>8 DEF WriteDone
    <2>2. queue # << >> /\ Head(queue) = CameraOff
      BY <2>1, QueueType DEF TypeInv, BridgePart, Bridge!WriteDone
    <2>3. /\ plc' = plc \ {Cam} /\ snap' = snap \ {Cam}
          /\ link' = link
      BY <2>1, <2>2, ResetCamera DEF Bridge!WriteDone, Cam
    <2>4. scale = "free" /\ ~Unheard'
      BY <2>2, <2>3 DEF IdleInv, Unheard
    <2>5. IdleInv'
      BY <1>1, <2>3, <2>4 DEF IdleInv
    <2> QED
      BY <1>1, <1>4, <2>1, <2>3, <2>4, <2>5, VisitsStand
  <1>9. CASE Lose
    <2>1. /\ tasks' = tasks
          /\ Bridge!PopForNobody \/ \E tr \in idem : Bridge!ExpireKey(tr)
      BY <1>9, CalmIs DEF Lose
    <2>2. /\ UNCHANGED <<plc, sampled, snap, link>>
          /\ queue' = queue \/ queue # << >>
      BY <2>1 DEF Bridge!PopForNobody, Bridge!ExpireKey
    <2>3. IdleInv' /\ (Unheard' => Unheard)
      BY <1>1, <1>4, <2>1, <2>2 DEF IdleInv, Unheard
    <2> QED
      BY <1>1, <1>4, <2>1, <2>2, <2>3, VisitsStand
  <1> QED
    BY <1>5, <1>6, <1>7, <1>8, <1>9 DEF BridgeStep

\* What becomes of the tasks of the camera when a task runs.
LEMMA CameraRuns ==
  ASSUME TypeInv, LastInv, NEW t \in BagToSet(tasks), Run(t) \/ Fails(t)
  PROVE  \/ /\ CameraTasks' = CameraTasks /\ \A u \in CameraTasks : tasks'[u] = tasks[u]
            /\ t.kind # Camera /\ UNCHANGED <<queue, hist>>
         \/ t.kind = Camera /\ CameraTasks' = {} /\ hist' = hist
         \/ /\ t.kind = Camera
            /\ \E u : /\ CameraTasks' = {u} /\ tasks'[u] = 1 /\ u.reg = t.reg
                     /\ \/ u.number = t.number /\ t.stage # "queued" /\ hist' = hist
                           /\ t.stage # "add"
                        \/ u.number = t.number /\ t.stage = "book" /\ Book(t) /\ u.stage = "add"
                        \/ u.number = Plan[plate].tank /\ t.stage = "queued" /\ hist' = hist
  <1>1. IsABag(tasks) /\ t \in Task
    BY DEF TypeInv, TasksOK, TaskOK
  <1> DEFINE C == tasks (-) SetToBag({t})
             Cameras(B) == {u \in BagToSet(B) : u.kind = Camera}
  <1>2. PICK D : D = C
    OBVIOUS
  <1>3. /\ \A e \in BagToSet(tasks) \ {t} : e \in BagToSet(D) /\ D[e] = tasks[e]
        /\ BagToSet(D) \subseteq BagToSet(tasks)
        /\ tasks[t] = 1 => t \notin BagToSet(D)
    BY <1>1, <1>2, RemoveOne
  <1>4. IsABag(D)
    BY <1>1, <1>2, SetToBagType, BagSubType
  <1>5. t.kind = Camera => t \in CameraTasks /\ Cameras(D) = {}
    BY <1>3 DEF LastInv, CameraTasks
  <1>6. t.kind # Camera => /\ Cameras(D) = CameraTasks
                           /\ \A u \in CameraTasks : D[u] = tasks[u]
    BY <1>3 DEF CameraTasks
  <1>7. CameraTasks' = Cameras(tasks')
    BY DEF CameraTasks
  <1>8. t.kind # Camera => UNCHANGED <<queue, hist>>
    BY DEF Run, Fails, Fetch, Look, Insert, End, SaveTank, Book, Add, Waits, Camera, tables
  <1>9. CASE Done(t)
    <2>1. tasks' = D
      BY <1>2, <1>9 DEF Done
    <2>2. t.kind = Camera => hist' = hist
      <3>1. CASE ~Book(t)
        BY <3>1 DEF Run, Fails, Fetch, Look, Insert, End, SaveTank, Add, tables
      <3>2. CASE Book(t)
        <4>1. PICK u : u = [t EXCEPT !.stage = "add"]
          OBVIOUS
        <4>2. tasks' = D (+) SetToBag({u}) /\ u.kind = t.kind
          BY <1>1, <1>2, <3>2, <4>1 DEF Book, Becomes, Task
        <4>3. BagToSet(tasks') = BagToSet(D) \cup {u}
          BY <1>4, <4>2, AddOne
        <4>4. t.kind = Camera
          BY <3>2 DEF Book, Waits, Camera
        <4> QED
          BY <1>5, <2>1, <4>2, <4>3, <4>4
      <3> QED
        BY <3>1, <3>2
    <2> HIDE DEF Cameras
    <2> QED
      BY <1>5, <1>6, <1>7, <1>8, <2>1, <2>2
  <1>10. ASSUME NEW u, Becomes(t, u), u.kind = t.kind
         PROVE  /\ t.kind # Camera => /\ Cameras(tasks') = CameraTasks
                                      /\ \A e \in CameraTasks : tasks'[e] = tasks[e]
                /\ t.kind = Camera => Cameras(tasks') = {u} /\ tasks'[u] = 1
    <2>1. PICK E : E = tasks'
      OBVIOUS
    <2>2. E = D (+) SetToBag({u})
      BY <1>2, <1>10, <2>1 DEF Becomes
    <2>3. /\ BagToSet(E) = BagToSet(D) \cup {u}
          /\ \A e \in BagToSet(D) \ {u} : E[e] = D[e]
          /\ \A e \in {u} \ BagToSet(D) : E[e] = 1
      BY <1>4, <2>2, AddOne
    <2>4. ASSUME t.kind # Camera
          PROVE  Cameras(E) = CameraTasks /\ \A e \in CameraTasks : E[e] = tasks[e]
      <3>1. Cameras(E) = Cameras(D)
        BY <1>10, <2>3, <2>4
      <3>2. \A e \in Cameras(D) : e \in BagToSet(D) \ {u}
        BY <1>10, <2>4
      <3> QED
        BY <1>6, <2>3, <2>4, <3>1, <3>2
    <2>5. ASSUME t.kind = Camera PROVE Cameras(E) = {u} /\ E[u] = 1
      <3>1. Cameras(D) = {}
        BY <1>5, <2>5
      <3>2. u \notin BagToSet(D)
        BY <1>10, <2>5, <3>1
      <3> QED
        BY <1>10, <2>3, <2>5, <3>1, <3>2
    <2> QED
      BY <2>1, <2>4, <2>5
  <1> HIDE DEF Cameras
  <1>11. CASE Fetch(t) /\ ~Done(t)
    <2> DEFINE n == Plan[plate].tank
    <2>1. PICK u : u = [t EXCEPT !.stage = "save", !.number = n]
      OBVIOUS
    <2>2. Becomes(t, u) /\ UNCHANGED hist /\ t.kind = Camera /\ t.stage = "queued"
      BY <1>11, <2>1 DEF Fetch, Waits, tables, Camera
    <2> HIDE DEF n
    <2>3. u.kind = t.kind /\ u.reg = t.reg /\ u.number = n
      BY <1>1, <2>1 DEF Task
    <2> QED
      BY <1>7, <1>10, <2>2, <2>3 DEF n
  <1>12. CASE SaveTank(t)
    <2>1. PICK u : u = [t EXCEPT !.stage = "book"]
      OBVIOUS
    <2>2. Becomes(t, u) /\ UNCHANGED hist /\ t.kind = Camera /\ t.stage = "save"
      BY <1>12, <2>1 DEF SaveTank, Waits, Camera
    <2>3. u.kind = t.kind /\ u.reg = t.reg /\ u.number = t.number
      BY <1>1, <2>1 DEF Task
    <2> QED
      BY <1>7, <1>10, <2>2, <2>3
  <1>13. CASE Book(t)
    <2>1. PICK u : u = [t EXCEPT !.stage = "add"]
      OBVIOUS
    <2>2. Becomes(t, u) /\ t.kind = Camera /\ t.stage = "book"
      BY <1>13, <2>1 DEF Book, Waits, Camera
    <2>3. u.kind = t.kind /\ u.reg = t.reg /\ u.number = t.number /\ u.stage = "add"
      BY <1>1, <2>1 DEF Task
    <2> QED
      BY <1>7, <1>10, <1>13, <2>2, <2>3
  <1>14. CASE Look(t) /\ ~Done(t)
    <2>1. PICK u : u = [t EXCEPT !.stage = "insert"]
      OBVIOUS
    <2>2. Becomes(t, u) /\ t.kind # Camera
      BY <1>14, <2>1 DEF Look, Waits, Camera
    <2>3. u.kind = t.kind
      BY <1>1, <2>1 DEF Task
    <2> QED
      BY <1>7, <1>8, <1>10, <2>2, <2>3
  <1> QED
    BY <1>9, <1>11, <1>12, <1>13, <1>14 DEF Run, Fails, Insert, End, Add

\* A task that books writes its weighing and no other.
LEMMA BookBounds ==
  ASSUME TypeInv, NEW t, Book(t), t.reg \in Weighings,
         \A i \in DOMAIN hist : hist[i].arrival < t.reg /\ hist[i].departure < t.reg
  PROVE  \A i \in DOMAIN hist' : hist'[i].arrival <= t.reg /\ hist'[i].departure <= t.reg
  <1> DEFINE w == t.reg
             Bounded(row) == row.arrival <= w /\ row.departure <= w
  <1>1. /\ hist \in Seq(Visit) /\ w \in Nat
        /\ \A i \in DOMAIN hist : hist[i] \in Visit /\ Bounded(hist[i])
    <2>1. hist \in Seq(Visit) /\ w \in Nat /\ \A i \in DOMAIN hist : hist[i] \in Visit
      BY PlanType DEF TypeInv, TablePart
    <2>2. \A i \in DOMAIN hist : hist[i].arrival \in Nat /\ hist[i].departure \in Nat
      BY TurnType
    <2> QED
      BY <2>1, <2>2
  <1>2. ASSUME NEW row, Bounded(row), hist' = Append(hist, row)
        PROVE  \A i \in DOMAIN hist' : Bounded(hist'[i])
    <2>1. /\ DOMAIN hist = 1 .. Len(hist) /\ Len(hist) \in Nat
          /\ DOMAIN hist' = 1 .. Len(hist) + 1 /\ hist'[Len(hist) + 1] = row
          /\ \A i \in 1 .. Len(hist) : hist'[i] = hist[i]
      BY <1>1, <1>2
    <2>2. \A i \in 1 .. Len(hist) + 1 : i \in 1 .. Len(hist) \/ i = Len(hist) + 1
      BY <2>1
    <2> HIDE DEF Bounded
    <2> QED
      BY <1>1, <1>2, <2>1, <2>2
  <1>3. ASSUME NEW k \in DOMAIN hist, hist' = [hist EXCEPT ![k].departure = w]
        PROVE  \A i \in DOMAIN hist' : Bounded(hist'[i])
    <2>1. PICK old : old = hist[k]
      OBVIOUS
    <2>2. PICK row : row = [old EXCEPT !.departure = w]
      OBVIOUS
    <2>3. Bounded(row)
      BY <1>1, <2>1, <2>2 DEF Visit
    <2>4. hist' = [hist EXCEPT ![k] = row]
      BY <1>3, <2>1, <2>2
    <2> HIDE DEF Bounded
    <2> QED
      BY <1>1, <2>3, <2>4
  <1>4. /\ Bounded([tank |-> t.number, arrival |-> w, departure |-> 0])
        /\ Bounded([tank |-> t.number, arrival |-> 0, departure |-> w])
    BY <1>1
  <1>5. /\ [[tank |-> t.number, arrival |-> 0, departure |-> 0] EXCEPT !.arrival = w]
             = [tank |-> t.number, arrival |-> w, departure |-> 0]
        /\ [[tank |-> t.number, arrival |-> 0, departure |-> 0] EXCEPT !.departure = w]
             = [tank |-> t.number, arrival |-> 0, departure |-> w]
    OBVIOUS
  <1>6. \A i \in DOMAIN hist' : Bounded(hist'[i])
    BY <1>2, <1>3, <1>4, <1>5 DEF Book
  <1> QED
    BY <1>6

LEMMA CeleryVisits ==
  ASSUME TypeInv, Calm, VisitOK, Celery
  PROVE  /\ VisitOK'
         /\ hist' # hist => Ledger!Next
  <1> USE DEF VisitOK
  <1>1. /\ UNCHANGED <<plc, sampled, snap, link, mishaps, turn, scale, reg, plate>>
        /\ (Unheard' <=> Unheard)
    BY DEF Celery, bridgeRest, scaleVars, Unheard
  <1>2. PICK t \in BagToSet(tasks) : Run(t) \/ Fails(t)
    BY DEF Celery
  <1>3. CASE /\ CameraTasks' = CameraTasks /\ \A u \in CameraTasks : tasks'[u] = tasks[u]
             /\ UNCHANGED <<queue, hist>>
    <2>1. IdleInv'
      BY <1>1, <1>3 DEF IdleInv
    <2> QED
      BY <1>1, <1>3, <2>1, VisitsStand
  <1>4. ASSUME t.kind = Camera
        PROVE  /\ t \in CameraTasks /\ scale = "free" /\ ~Unheard /\ t.reg = turn
               /\ t.stage # "queued" => t.number = Plan[turn].tank
               /\ TurnInv' /\ IdleInv'
    <2>1. t \in CameraTasks
      BY <1>4 DEF CameraTasks
    <2>2. scale = "free"
      BY <2>1 DEF IdleInv
    <2>3. TurnInv' /\ IdleInv'
      BY <1>1, <2>2 DEF TurnInv, IdleInv
    <2> QED
      BY <2>1, <2>2, <2>3 DEF LastInv
  <1>5. CASE t.kind = Camera /\ CameraTasks' = {} /\ hist' = hist
    <2>1. TurnInv' /\ IdleInv' /\ LastInv'
      BY <1>1, <1>4, <1>5 DEF LastInv
    <2>2. HistInv'
      BY <1>1, <1>4, <1>5 DEF HistInv, ToBook
    <2> QED
      BY <1>5, <2>1, <2>2
  <1>6. ASSUME NEW u, t.kind = Camera, CameraTasks' = {u}, tasks'[u] = 1, u.reg = t.reg,
               \/ u.number = t.number /\ t.stage # "queued" /\ hist' = hist /\ t.stage # "add"
               \/ u.number = t.number /\ t.stage = "book" /\ Book(t) /\ u.stage = "add"
               \/ u.number = Plan[plate].tank /\ t.stage = "queued" /\ hist' = hist
        PROVE  VisitOK' /\ (hist' # hist => Ledger!Next)
    <2>1. /\ t \in CameraTasks /\ scale = "free" /\ ~Unheard /\ t.reg = turn
          /\ t.stage # "queued" => t.number = Plan[turn].tank
          /\ plate = turn
      BY <1>4, <1>6 DEF TurnInv
    <2>2. TurnInv' /\ IdleInv'
      BY <1>1, <1>4, <1>6
    <2>3. u.number = Plan[turn].tank
      BY <1>6, <2>1
    <2>4. LastInv'
      BY <1>1, <1>6, <2>1, <2>3 DEF LastInv
    <2>5. ToBook /\ \A i \in DOMAIN hist : hist[i].arrival < turn /\ hist[i].departure < turn
      BY <1>6, <2>1 DEF HistInv, ToBook
    <2>6. CASE hist' = hist
      <3>1. HistInv'
        BY <1>1, <2>5, <2>6 DEF HistInv
      <3> QED
        BY <2>2, <2>4, <2>6, <3>1
    <2>7. CASE t.stage = "book" /\ Book(t) /\ u.stage = "add"
      <3>1. ~ToBook'
        BY <1>1, <1>6, <2>1, <2>7 DEF ToBook
      <3>2. t.reg \in Weighings
        BY <1>6 DEF TypeInv, TasksOK, TaskOK, Task, Camera
      <3>3. Ledger!Next
        BY <2>1, <2>5, <2>7, <3>2, BookIs
      <3>4. \A i \in DOMAIN hist' : hist'[i].arrival <= turn /\ hist'[i].departure <= turn
        BY <2>1, <2>5, <2>7, <3>2, BookBounds
      <3>5. HistInv'
        BY <1>1, <2>1, <3>1, <3>4 DEF HistInv
      <3> QED
        BY <2>2, <2>4, <3>3, <3>5
    <2> QED
      BY <1>6, <2>6, <2>7
  <1> QED
    BY <1>2, <1>3, <1>5, <1>6, CameraRuns

-----------------------------------------------------------------------------
\* The history books the weighings in their order, each once and under its tank,
\* a departure on the arrival it belongs to, for every plan of weighings and
\* any number of mishaps that the property does not exclude.
THEOREM KeepsVisitsHolds == Spec => KeepsVisits
  <1>1. Init => VisitInv /\ Ledger!Init
    <2> SUFFICES ASSUME Init PROVE VisitOK /\ Ledger!Init
      BY DEF VisitInv
    <2>1. /\ turn = 0 /\ scale = "free" /\ reg = 0 /\ plate = 0 /\ plc = {} /\ sampled = {}
          /\ hist = << >> /\ CameraTasks = {}
      BY DEF Init, CameraTasks, EmptyBag, SetToBag, BagToSet, Bridge!BridgeInit
    <2>2. VisitOK
      BY <2>1 DEF VisitOK, TurnInv, IdleInv, LastInv, HistInv
    <2>3. hist \in Seq(Visit) /\ \A n : RowsOf(n) = {}
      BY <2>1 DEF RowsOf
    <2>4. \A n \in Numbers : Visits[n] = << >>
      BY <2>3, LastVisit
    <2>5. Visits = [n \in Numbers |-> << >>]
      <3>1. Visits = [n \in Numbers |-> Visits[n]]
        BY DEF Visits
      <3> QED
        BY <2>4, <3>1
    <2>6. Ledger!Init
      BY <2>5 DEF Ledger!Init, Ledger!Tanks, Numbers, Weighings
    <2> QED
      BY <2>2, <2>6
  <1>2. TypeInv /\ VisitInv /\ [Next]_vars
          => VisitInv' /\ [Calm => Ledger!Next]_hist
    <2> SUFFICES ASSUME TypeInv, VisitInv, [Next]_vars
                 PROVE  VisitInv' /\ [Calm => Ledger!Next]_hist
      OBVIOUS
    <2>1. mishaps' = mishaps /\ (Calm' <=> Calm)
      BY DEF Next, Plc, BridgeStep, Celery, Web, vars, Calm
    <2>2. SUFFICES ASSUME Calm PROVE VisitOK' /\ [Ledger!Next]_hist
      BY <2>1 DEF VisitInv
    <2>3. VisitOK
      BY <2>2 DEF VisitInv
    <2>4. CASE Plc
      BY <2>2, <2>3, <2>4, PlcVisits DEF Plc, tables
    <2>5. CASE BridgeStep
      BY <2>2, <2>3, <2>5, BridgeVisits DEF BridgeStep, tables
    <2>6. CASE Celery
      BY <2>2, <2>3, <2>6, CeleryVisits
    <2>7. CASE Web \/ UNCHANGED vars
      <3>1. UNCHANGED <<plc, sampled, snap, link, queue, tasks, turn, scale, reg, plate, hist>>
        BY <2>7 DEF Web, Compute, KeepInCache, SaveForm, CommitForm, EditBatch, vars,
                    bridgeVars, bridgeRest, scaleVars, tables
      <3>2. CameraTasks' = CameraTasks /\ (Unheard' <=> Unheard)
        BY <3>1 DEF CameraTasks, Unheard
      <3>3. IdleInv'
        BY <2>3, <3>1, <3>2 DEF VisitOK, IdleInv
      <3> QED
        BY <2>3, <3>1, <3>2, <3>3, VisitsStand
    <2> QED
      BY <2>4, <2>5, <2>6, <2>7 DEF Next
  <1> QED
    BY <1>1, <1>2, TypeInvariant, PTL DEF Spec, KeepsVisits, Calm
=============================================================================
