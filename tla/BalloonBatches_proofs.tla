----------------------- MODULE BalloonBatches_proofs -----------------------
(***************************************************************************)
(* Theorems about BalloonBatches, for every number of workers, batches,    *)
(* balloons and requests, and every kind of failure.                       *)
(***************************************************************************)
EXTENDS BalloonBatches, FiniteSetTheorems, TLAPS

-----------------------------------------------------------------------------
(* Types of what the actions write.                                        *)

LEMMA BlankType == Blank \in Row /\ Idle \in Request
  <1>1. Blank \in Row
    BY BoundsAreNat DEF Blank, Row, Statuses
  <1>2. 1 \in Batches
    BY BoundsAreNat DEF Batches
  <1> QED
    BY <1>1, <1>2 DEF Idle, Request, Kinds, Places

LEMMA AnswerType ==
  ASSUME TypeOK, NEW w \in Workers, Answer(w)
  PROVE  req' \in [Workers -> Request]
  BY BlankType DEF TypeOK, Answer

\* Of a request only its place changes.
LEMMA GoType ==
  ASSUME TypeOK, NEW w \in Workers, NEW place \in Places, Go(w, place)
  PROVE  req' \in [Workers -> Request]
  <1>1. req[w] \in Request
    BY DEF TypeOK
  <1>2. [req[w] EXCEPT !.at = place] \in Request
    BY <1>1 DEF Request
  <1> QED
    BY <1>2 DEF TypeOK, Go

LEMMA SavedType ==
  ASSUME NEW row \in Row
  PROVE  Saved(row) \in Row
  <1>1. CASE row.status = "miriada_error"
    BY <1>1 DEF Row, Saved
  <1>2. CASE row.status = "completed"
    BY <1>2 DEF Row, Saved
  <1>3. CASE row.status \notin {"miriada_error", "completed"}
    BY <1>3 DEF Row, Saved
  <1> QED
    BY <1>1, <1>2, <1>3

LEMMA SaveAllType ==
  ASSUME TypeOK, NEW w \in Workers, NEW row \in Row, SaveAll(w, row)
  PROVE  rows' \in [Batches -> Row]
  BY SavedType DEF TypeOK, SaveAll

LEMMA SetStatusType ==
  ASSUME TypeOK, NEW S, NEW status \in Statuses, SetStatus(S, status)
  PROVE  rows' \in [Batches -> Row]
  <1>1. ASSUME NEW b \in Batches
        PROVE  [rows[b] EXCEPT !.status = status] \in Row
    BY DEF TypeOK, Row
  <1> QED
    BY <1>1 DEF TypeOK, SetStatus

-----------------------------------------------------------------------------
(* Type correctness.  The copy of a request that counts the sensor leaves  *)
(* room for one more.                                                      *)

SensorFits ==
  \A w \in Workers :
    At(w, "sensor", "loaded") => req[w].row.sensor < MaxSensor

TypeInv == TypeOK /\ SensorFits

\* Requests that have moved on are not at their first step any more.
LEMMA FitsWhenMoved ==
  ASSUME TypeInv, NEW w \in Workers, req' \in [Workers -> Request],
         \A v \in Workers \ {w} : req'[v] = req[v],
         req'[w].at # "loaded"
  PROVE  SensorFits'
  BY DEF TypeInv, SensorFits, At

LEMMA FitsAfterAnswer ==
  ASSUME TypeInv, NEW w \in Workers, Answer(w)
  PROVE  SensorFits'
  <1>1. req' \in [Workers -> Request]
    BY AnswerType DEF TypeInv
  <1>2. req'[w].at = "idle" /\ \A v \in Workers \ {w} : req'[v] = req[v]
    BY DEF TypeInv, TypeOK, Answer, Idle
  <1> QED
    BY <1>1, <1>2, FitsWhenMoved

LEMMA FitsAfterGo ==
  ASSUME TypeInv, NEW w \in Workers, NEW place \in Places, Go(w, place),
         place # "loaded"
  PROVE  SensorFits'
  <1>1. req' \in [Workers -> Request]
    BY GoType DEF TypeInv
  <1>2. req'[w].at = place /\ \A v \in Workers \ {w} : req'[v] = req[v]
    BY DEF TypeInv, TypeOK, Go, Request
  <1> QED
    BY <1>1, <1>2, FitsWhenMoved

LEMMA TypeInit == Init => TypeInv
  <1> SUFFICES ASSUME Init PROVE TypeInv
    OBVIOUS
  <1>1. TypeOK
    BY BlankType, BoundsAreNat DEF Init, TypeOK
  <1>2. SensorFits
    BY DEF Init, SensorFits, At, Idle
  <1> QED
    BY <1>1, <1>2 DEF TypeInv

LEMMA BeginType ==
  ASSUME TypeInv, NEW w \in Workers, NEW b \in Batches, NEW kind \in Kinds,
         NEW S \in SUBSET Balloons, Begin(w, kind, b, S)
  PROVE  TypeInv'
  <1> DEFINE new == [kind |-> kind, at |-> "loaded", batch |-> b,
                     row |-> rows[b], balloons |-> S, tags |-> {},
                     locked |-> {}]
  <1>1. new \in Request
    BY DEF TypeInv, TypeOK, Request, Kinds, Places
  <1>2. req' = [req EXCEPT ![w] = new]
    BY DEF Begin
  <1>3. TypeOK'
    BY <1>1, <1>2, BoundsAreNat DEF TypeInv, TypeOK, Begin
  <1>4. kind = "sensor" => new.row.sensor < MaxSensor
    BY DEF Begin
  <1>5. req'[w] = new /\ \A v \in Workers \ {w} : req'[v] = req[v]
    BY <1>2 DEF TypeInv, TypeOK
  <1>6. SensorFits'
    BY <1>4, <1>5 DEF TypeInv, SensorFits, At
  <1> QED
    BY <1>3, <1>6 DEF TypeInv

LEMMA BeginSomeType ==
  ASSUME TypeInv, NEW w \in Workers, BeginSome(w)
  PROVE  TypeInv'
  <1>1. \E b \in Batches, kind \in Kinds, S \in SUBSET Balloons :
          Begin(w, kind, b, S)
    <2>1. \A n \in Balloons : {n} \in SUBSET Balloons
      OBVIOUS
    <2> QED
      BY <2>1 DEF BeginSome, BeginStatus, BeginUpdate, BeginRetry,
                  BeginContent, BeginScan, Kinds
  <1> QED
    BY <1>1, BeginType

LEMMA CreateType ==
  ASSUME TypeInv, NEW w \in Workers, Create(w)
  PROVE  TypeInv'
  <1> PICK b \in Batches, status \in {"active", "paused"} :
        /\ rows' = [rows EXCEPT ![b].status = status]
        /\ req' = IF status = "active"
                    THEN [req EXCEPT ![w] = [Idle EXCEPT !.kind = "create",
                                               !.at = "inserted", !.batch = b]]
                    ELSE req
    BY DEF Create
  <1>1. [rows[b] EXCEPT !.status = status] \in Row
    BY DEF TypeInv, TypeOK, Row, Statuses, OpenStatuses
  <1>2. rows' \in [Batches -> Row]
    BY <1>1 DEF TypeInv, TypeOK
  <1> DEFINE new == [Idle EXCEPT !.kind = "create", !.at = "inserted",
                                 !.batch = b]
  <1>3. new \in Request
    BY BlankType DEF Idle, Request, Places
  <1>4. req' \in [Workers -> Request]
    BY <1>3 DEF TypeInv, TypeOK
  <1>5. TypeOK'
    BY <1>2, <1>4, BoundsAreNat DEF TypeInv, TypeOK, Create
  <1>6. CASE status = "active"
    <2>1. req'[w] = new /\ \A v \in Workers \ {w} : req'[v] = req[v]
      BY <1>6 DEF TypeInv, TypeOK
    <2>2. req'[w].at # "loaded"
      <3>1. new.at = "inserted"
        BY DEF Idle
      <3> QED
        BY <2>1, <3>1
    <2> QED
      BY <1>4, <1>5, <2>1, <2>2, FitsWhenMoved DEF TypeInv
  <1>7. CASE status = "paused"
    BY <1>5, <1>7 DEF TypeInv, SensorFits, At
  <1> QED
    BY <1>6, <1>7

\* A step that answers the request and keeps the table well typed.
LEMMA AnsweredType ==
  ASSUME TypeInv, NEW w \in Workers, Answer(w), rows' \in [Batches -> Row],
         listed' \in [Batches -> SUBSET Balloons],
         UNCHANGED <<accepted, closed, begun>>
  PROVE  TypeInv'
  BY AnswerType, FitsAfterAnswer DEF TypeInv, TypeOK

LEMMA ResumeType ==
  ASSUME TypeInv, NEW w \in Workers,
         ResumeLocksOthers(w) \/ ResumeCommits(w)
  PROVE  TypeInv'
  <1>1. CASE ResumeLocksOthers(w)
    <2>1. Others(w) \in SUBSET Batches
      BY DEF Others, ActiveRows
    <2>2. req[w] \in Request
      BY DEF TypeInv, TypeOK
    <2>3. [req[w] EXCEPT !.at = "locked", !.locked = Others(w)] \in Request
      BY <2>1, <2>2 DEF Request, Places
    <2>4. req' = [req EXCEPT ![w] = [req[w] EXCEPT !.at = "locked",
                                                   !.locked = Others(w)]]
      BY <1>1 DEF ResumeLocksOthers
    <2>5. req' \in [Workers -> Request]
      BY <2>3, <2>4 DEF TypeInv, TypeOK
    <2>6. req'[w].at = "locked" /\ \A v \in Workers \ {w} : req'[v] = req[v]
      BY <2>2, <2>4 DEF TypeInv, TypeOK, Request
    <2> QED
      BY <1>1, <2>5, <2>6, FitsWhenMoved DEF ResumeLocksOthers, TypeInv, TypeOK
  <1>2. CASE ResumeCommits(w)
    <2>1. ASSUME NEW b \in Batches
          PROVE  /\ [rows[b] EXCEPT !.status = "active"] \in Row
                 /\ [rows[b] EXCEPT !.status = "paused"] \in Row
                 /\ rows[b] \in Row
      BY DEF TypeInv, TypeOK, Row, Statuses, OpenStatuses
    <2>2. rows' \in [Batches -> Row]
      BY <1>2, <2>1 DEF ResumeCommits
    <2> QED
      BY <1>2, <2>2, AnsweredType DEF ResumeCommits, TypeInv, TypeOK
  <1> QED
    BY <1>1, <1>2

LEMMA StatusStepsType ==
  ASSUME TypeInv, NEW w \in Workers, CreatePausesOthers(w) \/ Pause(w)
  PROVE  TypeInv'
  <1>1. \E S : SetStatus(S, "paused")
    BY DEF CreatePausesOthers, Pause
  <1>2. rows' \in [Batches -> Row]
    BY <1>1, SetStatusType DEF TypeInv, Statuses, OpenStatuses
  <1> QED
    BY <1>2, AnsweredType DEF CreatePausesOthers, Pause, TypeInv, TypeOK

LEMMA ContentType ==
  ASSUME TypeInv, NEW w \in Workers,
         AddBalloon(w) \/ CountSensor(w) \/ RemoveBalloon(w) \/ Edit(w)
  PROVE  TypeInv'
  <1>1. req[w] \in Request
    BY DEF TypeInv, TypeOK
  <1>2. CASE AddBalloon(w)
    <2>1. listed' \in [Batches -> SUBSET Balloons]
      BY <1>1, <1>2 DEF AddBalloon, TypeInv, TypeOK, Request
    <2> QED
      BY <1>2, <2>1, AnsweredType DEF AddBalloon, TypeInv, TypeOK
  <1>3. CASE CountSensor(w)
    <2>1. req[w].row.sensor < MaxSensor /\ req[w].row \in Row
      BY <1>1, <1>3 DEF CountSensor, TypeInv, SensorFits, Request
    <2>2. [req[w].row EXCEPT !.sensor = @ + 1] \in Row
      BY <2>1, BoundsAreNat DEF Row
    <2>3. rows' \in [Batches -> Row]
      BY <1>3, <2>2, SaveAllType DEF CountSensor, TypeInv
    <2> QED
      BY <1>3, <2>3, AnsweredType DEF CountSensor, TypeInv, TypeOK
  <1>4. CASE RemoveBalloon(w)
    <2>1. listed' \in [Batches -> SUBSET Balloons]
      BY <1>1, <1>4 DEF RemoveBalloon, TypeInv, TypeOK, Request
    <2>2. [rows[req[w].batch] EXCEPT
             !.errors = req[w].row.errors \ req[w].balloons] \in Row
      BY <1>1 DEF TypeInv, TypeOK, Request, Row
    <2>3. \/ rows' = rows
          \/ rows' = [rows EXCEPT ![req[w].batch] =
                        [rows[req[w].batch] EXCEPT
                           !.errors = req[w].row.errors \ req[w].balloons]]
      BY <1>4 DEF RemoveBalloon
    <2>4. rows' \in [Batches -> Row]
      BY <2>2, <2>3 DEF TypeInv, TypeOK
    <2> QED
      BY <1>4, <2>1, <2>4, AnsweredType DEF RemoveBalloon
  <1>5. CASE Edit(w)
    <2>1. PICK status \in EditStatuses \cup {req[w].row.status} :
            SaveAll(w, [req[w].row EXCEPT !.status = status])
      BY <1>5 DEF Edit
    <2>2. [req[w].row EXCEPT !.status = status] \in Row
      BY <1>1, SetsAreKnown DEF Request, Row
    <2>3. rows' \in [Batches -> Row]
      BY <2>1, <2>2, SaveAllType DEF TypeInv
    <2> QED
      BY <1>5, <2>3, AnsweredType DEF Edit, TypeInv, TypeOK
  <1> QED
    BY <1>2, <1>3, <1>4, <1>5

LEMMA CloseSavesType ==
  ASSUME TypeInv, NEW w \in Workers, CloseSaves(w)
  PROVE  TypeInv'
  <1>1. req[w] \in Request /\ req[w].row \in Row /\ req[w].batch \in Batches
    BY DEF TypeInv, TypeOK, Request
  <1>2. rows' \in [Batches -> Row]
    BY <1>1, SaveAllType DEF CloseSaves, TypeInv
  <1> DEFINE copy == rows'[req[w].batch]
  <1>3. copy \in Row
    BY <1>1, <1>2
  <1> HIDE DEF copy
  <1>4. [req[w] EXCEPT !.at = "saved", !.row = copy] \in Request
    BY <1>1, <1>3 DEF Request, Places
  <1>5. req' = [req EXCEPT ![w] = [req[w] EXCEPT !.at = "saved", !.row = copy]]
    BY DEF CloseSaves, copy
  <1>6. req' \in [Workers -> Request]
    BY <1>4, <1>5 DEF TypeInv, TypeOK
  <1>7. req'[w].at = "saved" /\ \A v \in Workers \ {w} : req'[v] = req[v]
    BY <1>1, <1>5 DEF TypeInv, TypeOK, Request
  <1> QED
    BY <1>2, <1>6, <1>7, FitsWhenMoved DEF CloseSaves, TypeInv, TypeOK

LEMMA ClosePreparesType ==
  ASSUME TypeInv, NEW w \in Workers, CloseCounts(w) \/ CloseCollects(w)
  PROVE  TypeInv'
  <1>1. CASE Answer(w) /\ UNCHANGED <<rows, listed, accepted, closed, begun>>
    BY <1>1, AnsweredType DEF TypeInv, TypeOK
  <1>2. ASSUME NEW place \in {"counted", "failed"}, Go(w, place),
               UNCHANGED <<rows, listed, accepted, closed, begun>>
        PROVE  TypeInv'
    BY <1>2, GoType, FitsAfterGo DEF TypeInv, TypeOK, Places
  <1>3. ASSUME req' = [req EXCEPT ![w].at = "collected",
                                  ![w].tags = listed[req[w].batch]],
               UNCHANGED <<rows, listed, accepted, closed, begun>>
        PROVE  TypeInv'
    <2>1. req[w] \in Request /\ listed[req[w].batch] \in SUBSET Balloons
      BY DEF TypeInv, TypeOK, Request
    <2> DEFINE tags == listed[req[w].batch]
    <2> HIDE DEF tags
    <2>2. [req[w] EXCEPT !.at = "collected", !.tags = tags] \in Request
      BY <2>1 DEF Request, Places, tags
    <2>3. req' = [req EXCEPT ![w] = [req[w] EXCEPT !.at = "collected",
                                                   !.tags = tags]]
      BY <1>3 DEF tags
    <2>4. req' \in [Workers -> Request]
      BY <2>2, <2>3 DEF TypeInv, TypeOK
    <2>5. req'[w].at = "collected" /\ \A v \in Workers \ {w} : req'[v] = req[v]
      BY <2>1, <2>3 DEF TypeInv, TypeOK, Request
    <2> QED
      BY <1>3, <2>4, <2>5, FitsWhenMoved DEF TypeInv, TypeOK
  <1> QED
    BY <1>1, <1>2, <1>3 DEF CloseCounts, CloseCollects

LEMMA CloseReportsType ==
  ASSUME TypeInv, NEW w \in Workers, CloseReports(w)
  PROVE  TypeInv'
  <1>1. req[w] \in Request /\ req[w].batch \in Batches
        /\ req[w].tags \in SUBSET Balloons
    BY DEF TypeInv, TypeOK, Request
  <1> PICK outcome \in [req[w].tags -> PostOutcomes] :
        /\ accepted' = [accepted EXCEPT ![req[w].batch] =
                          @ \cup {n \in req[w].tags : outcome[n] # "refused"}]
        /\ rows' = [rows EXCEPT ![req[w].batch].errors =
                      {n \in req[w].tags : outcome[n] # "ok"}]
        /\ Go(w, IF {n \in req[w].tags : outcome[n] # "ok"} = {}
                   THEN "reported" ELSE "failed")
    BY DEF CloseReports
  <1>2. accepted' \in [Batches -> SUBSET Balloons]
    BY <1>1 DEF TypeInv, TypeOK
  <1>3. [rows[req[w].batch] EXCEPT
           !.errors = {n \in req[w].tags : outcome[n] # "ok"}] \in Row
    BY <1>1 DEF TypeInv, TypeOK, Row
  <1>4. rows' \in [Batches -> Row]
    BY <1>3 DEF TypeInv, TypeOK
  <1>5. \E place \in {"reported", "failed"} : Go(w, place)
    OBVIOUS
  <1>6. req' \in [Workers -> Request] /\ SensorFits'
    BY <1>5, GoType, FitsAfterGo DEF TypeInv, Places
  <1> QED
    BY <1>2, <1>4, <1>6 DEF CloseReports, TypeInv, TypeOK

LEMMA CloseFinishesType ==
  ASSUME TypeInv, NEW w \in Workers, CloseFails(w) \/ CloseEnds(w)
  PROVE  TypeInv'
  <1>1. req[w].batch \in Batches /\ rows[req[w].batch] \in Row
    BY DEF TypeInv, TypeOK, Request
  <1>2. CASE CloseFails(w)
    <2>1. [rows[req[w].batch] EXCEPT !.status = "miriada_error",
                                     !.failed = TRUE] \in Row
      BY <1>1 DEF Row, Statuses, OpenStatuses
    <2>2. rows' = [rows EXCEPT ![req[w].batch] =
                     [rows[req[w].batch] EXCEPT !.status = "miriada_error",
                                                !.failed = TRUE]]
      BY <1>2 DEF CloseFails
    <2>3. rows' \in [Batches -> Row]
      BY <2>1, <2>2 DEF TypeInv, TypeOK
    <2> QED
      BY <1>2, <2>3, AnsweredType DEF CloseFails, TypeInv, TypeOK
  <1>3. CASE CloseEnds(w)
    <2> PICK success \in BOOLEAN, done \in BOOLEAN :
          /\ closed' = [closed EXCEPT ![req[w].batch] = @ \/ done]
          /\ rows' = [rows EXCEPT ![req[w].batch] =
               [rows[req[w].batch] EXCEPT
                  !.errors = {}, !.failed = ~ success,
                  !.status = IF success THEN "completed" ELSE "miriada_error"]]
      BY <1>3 DEF CloseEnds
    <2>1. [rows[req[w].batch] EXCEPT
             !.errors = {}, !.failed = ~ success,
             !.status = IF success THEN "completed" ELSE "miriada_error"] \in Row
      BY <1>1 DEF Row, Statuses, OpenStatuses
    <2>2. rows' \in [Batches -> Row]
      BY <2>1 DEF TypeInv, TypeOK
    <2>3. closed' \in [Batches -> BOOLEAN]
      BY <1>1 DEF TypeInv, TypeOK
    <2>4. req' \in [Workers -> Request] /\ SensorFits'
      BY <1>3, AnswerType, FitsAfterAnswer DEF CloseEnds, TypeInv
    <2> QED
      BY <1>3, <2>2, <2>3, <2>4 DEF CloseEnds, TypeInv, TypeOK
  <1> QED
    BY <1>2, <1>3

LEMMA TypeStep == TypeInv /\ [Next]_vars => TypeInv'
  <1> SUFFICES ASSUME TypeInv, [Next]_vars PROVE TypeInv'
    OBVIOUS
  <1>1. ASSUME NEW w \in Workers, BeginSome(w) \/ Create(w)
        PROVE  TypeInv'
    BY <1>1, BeginSomeType, CreateType
  <1>2. ASSUME NEW w \in Workers, Serve(w)
        PROVE  TypeInv'
    BY <1>2, StatusStepsType, ResumeType, ContentType, CloseSavesType,
       ClosePreparesType, CloseReportsType, CloseFinishesType DEF Serve
  <1>3. ASSUME NEW w \in Workers, Die(w)
        PROVE  TypeInv'
    BY <1>3, AnsweredType DEF Die, TypeInv, TypeOK
  <1>4. CASE UNCHANGED vars
    BY <1>4 DEF vars, TypeInv, TypeOK, SensorFits, At
  <1> QED
    BY <1>1, <1>2, <1>3, <1>4 DEF Next, Finished

LEMMA TypeInvHolds == Spec => []TypeInv
  BY TypeInit, TypeStep, PTL DEF Spec

\* Every variable keeps its type: no step writes a status, a flag or an error
\* that the table cannot hold.
THEOREM BatchTypeCorrect == Spec => []TypeOK
  <1>1. TypeInv => TypeOK
    BY DEF TypeInv
  <1> QED
    BY <1>1, TypeInvHolds, PTL

-----------------------------------------------------------------------------
(* The flag of a failed close.  Every way to write a row either keeps the  *)
(* flag right by itself (save) or sets a status that allows both values.   *)

FlagRight(row) ==
  /\ row.status = "miriada_error" => row.failed
  /\ row.status = "completed" => ~ row.failed

LEMMA SavedFlag ==
  ASSUME NEW row \in Row
  PROVE  FlagRight(Saved(row))
  <1>1. CASE row.status = "miriada_error"
    BY <1>1 DEF Row, Saved, FlagRight
  <1>2. CASE row.status = "completed"
    BY <1>2 DEF Row, Saved, FlagRight
  <1>3. CASE row.status \notin {"miriada_error", "completed"}
    BY <1>3 DEF Row, Saved, FlagRight
  <1> QED
    BY <1>1, <1>2, <1>3

LEMMA FlagAfterSaveAll ==
  ASSUME TypeOK, FlagAgrees, NEW w \in Workers, NEW row \in Row, SaveAll(w, row)
  PROVE  FlagAgrees'
  <1>1. req[w].batch \in Batches
    BY DEF TypeOK, Request
  <1> QED
    BY <1>1, SavedFlag DEF TypeOK, SaveAll, FlagAgrees, FlagRight

LEMMA FlagAfterSetStatus ==
  ASSUME TypeOK, FlagAgrees, NEW S, SetStatus(S, "paused")
  PROVE  FlagAgrees'
  BY DEF TypeOK, SetStatus, FlagAgrees, Row

LEMMA FlagStep == TypeInv /\ FlagAgrees /\ [Next]_vars => FlagAgrees'
  <1> SUFFICES ASSUME TypeInv, FlagAgrees, [Next]_vars PROVE FlagAgrees'
    OBVIOUS
  <1> USE DEF TypeInv
  <1>1. CASE rows' = rows
    BY <1>1 DEF FlagAgrees
  <1>2. ASSUME NEW w \in Workers, Create(w) PROVE FlagAgrees'
    BY <1>2 DEF Create, FlagAgrees, TypeOK, Row
  <1>3. ASSUME NEW w \in Workers, Serve(w) PROVE FlagAgrees'
    <2>1. req[w] \in Request /\ req[w].row \in Row /\ req[w].batch \in Batches
      BY DEF TypeOK, Request
    <2>2. CASE CreatePausesOthers(w) \/ Pause(w)
      BY <2>2, FlagAfterSetStatus DEF CreatePausesOthers, Pause
    <2>3. CASE ResumeCommits(w)
      BY <2>3 DEF ResumeCommits, FlagAgrees, TypeOK, Row
    <2>4. CASE CountSensor(w)
      <3>1. [req[w].row EXCEPT !.sensor = @ + 1] \in Row
        BY <2>1, <2>4, BoundsAreNat DEF CountSensor, SensorFits, Row
      <3> QED
        BY <2>4, <3>1, FlagAfterSaveAll DEF CountSensor
    <2>5. CASE RemoveBalloon(w)
      <3>1. \/ rows' = rows
            \/ rows' = [rows EXCEPT ![req[w].batch].errors = req[w].row.errors \ req[w].balloons]
        BY <2>5 DEF RemoveBalloon
      <3>2. ASSUME NEW b \in Batches
            PROVE  rows'[b].status = rows[b].status /\ rows'[b].failed = rows[b].failed
        BY <2>1, <3>1 DEF TypeOK, Row
      <3> QED
        BY <3>2 DEF FlagAgrees
    <2>6. CASE Edit(w)
      <3>1. ASSUME NEW status \in EditStatuses \cup {req[w].row.status}
            PROVE  [req[w].row EXCEPT !.status = status] \in Row
        BY <2>1, SetsAreKnown DEF Row
      <3> QED
        BY <2>6, <3>1, FlagAfterSaveAll DEF Edit
    <2>7. CASE CloseSaves(w)
      BY <2>1, <2>7, FlagAfterSaveAll DEF CloseSaves
    <2>8. CASE CloseReports(w)
      <3>1. \E errors : rows' = [rows EXCEPT ![req[w].batch].errors = errors]
        BY <2>8, Zenon DEF CloseReports
      <3> QED
        BY <2>1, <3>1 DEF FlagAgrees, TypeOK, Row
    <2>9. CASE CloseFails(w)
      BY <2>1, <2>9 DEF CloseFails, FlagAgrees, TypeOK, Row
    <2>10. CASE CloseEnds(w)
      <3> PICK success \in BOOLEAN :
            rows' = [rows EXCEPT ![req[w].batch].errors = {},
                       ![req[w].batch].failed = ~ success,
                       ![req[w].batch].status =
                         IF success THEN "completed" ELSE "miriada_error"]
        BY <2>10 DEF CloseEnds
      <3> QED
        BY <2>1 DEF FlagAgrees, TypeOK, Row
    <2>11. CASE \/ ResumeLocksOthers(w) \/ AddBalloon(w)
                \/ CloseCounts(w) \/ CloseCollects(w)
      BY <1>1, <2>11
         DEF ResumeLocksOthers, AddBalloon, CloseCounts, CloseCollects
    <2> QED
      BY <1>3, <2>2, <2>3, <2>4, <2>5, <2>6, <2>7, <2>8, <2>9, <2>10, <2>11
         DEF Serve
  <1>4. ASSUME NEW w \in Workers, BeginSome(w) \/ Die(w) PROVE FlagAgrees'
    BY <1>1, <1>4 DEF BeginSome, BeginStatus, BeginUpdate, BeginRetry,
                      BeginContent, BeginScan, Begin, Die
  <1> QED
    BY <1>1, <1>2, <1>3, <1>4 DEF Next, Finished, vars

\* miriada_close_failed agrees with the status of every row, whatever requests
\* overwrite each other's columns.
THEOREM FlagAgreesHolds == Spec => []FlagAgrees
  <1>1. Init => FlagAgrees
    BY DEF Init, FlagAgrees, Blank
  <1> QED
    BY <1>1, FlagStep, TypeInvHolds, PTL DEF Spec

-----------------------------------------------------------------------------
(* Completed batches.  A row is only the half of the invariant: a request  *)
(* that holds a completed copy may write it back at any later time.        *)

Settled(b) == closed[b] \/ b \in Cages

CopiesAreSettled ==
  \A w \in Workers :
    req[w].row.status = "completed" => Settled(req[w].batch)

CompletedInv == CompletedWasClosed /\ CopiesAreSettled

LEMMA SavedKeepsStatus ==
  ASSUME NEW row \in Row
  PROVE  Saved(row).status = row.status
  <1>1. CASE row.status = "miriada_error"
    BY <1>1 DEF Row, Saved
  <1>2. CASE row.status = "completed"
    BY <1>2 DEF Row, Saved
  <1>3. CASE row.status \notin {"miriada_error", "completed"}
    BY <1>3 DEF Row, Saved
  <1> QED
    BY <1>1, <1>2, <1>3

\* A step that closes no TTN: rows become completed only if they were, or if
\* their batch is settled; copies as well.
LEMMA SettledStep ==
  ASSUME CompletedInv, UNCHANGED closed,
         \A b \in Batches : rows'[b].status = "completed" =>
           rows[b].status = "completed" \/ Settled(b),
         \A v \in Workers : req'[v].row.status = "completed" =>
           \/ req[v].row.status = "completed" /\ req'[v].batch = req[v].batch
           \/ Settled(req'[v].batch)
  PROVE  CompletedInv'
  BY DEF CompletedInv, CompletedWasClosed, CopiesAreSettled, Settled

\* An answered request has no copy left.
LEMMA AnsweredCopies ==
  ASSUME TypeOK, NEW w \in Workers, Answer(w), NEW v \in Workers,
         req'[v].row.status = "completed"
  PROVE  req[v].row.status = "completed" /\ req'[v].batch = req[v].batch
  BY DEF TypeOK, Answer, Idle, Blank

LEMMA GoCopies ==
  ASSUME TypeOK, NEW w \in Workers, NEW place, Go(w, place), NEW v \in Workers
  PROVE  req'[v].row = req[v].row /\ req'[v].batch = req[v].batch
  BY DEF TypeOK, Request, Go

\* What is written back is the copy, whose batch is settled if it is completed.
LEMMA SaveAllSettled ==
  ASSUME TypeOK, CompletedInv, NEW w \in Workers, NEW row \in Row,
         SaveAll(w, row), row.status = "completed" => Settled(req[w].batch),
         NEW b \in Batches, rows'[b].status = "completed"
  PROVE  rows[b].status = "completed" \/ Settled(b)
  <1>1. req[w].batch \in Batches
    BY DEF TypeOK, Request
  <1>2. rows' = [rows EXCEPT ![req[w].batch] = Saved(row)]
    BY DEF SaveAll
  <1>3. CASE b = req[w].batch
    <2>1. rows'[b] = Saved(row)
      BY <1>1, <1>2, <1>3 DEF TypeOK
    <2> QED
      BY <1>3, <2>1, SavedKeepsStatus
  <1>4. CASE b # req[w].batch
    BY <1>1, <1>2, <1>4 DEF TypeOK
  <1> QED
    BY <1>3, <1>4

LEMMA CompletedBegins ==
  ASSUME TypeInv, CompletedInv, NEW w \in Workers, BeginSome(w) \/ Create(w)
  PROVE  CompletedInv'
  <1> USE DEF TypeInv
  <1>1. CASE BeginSome(w)
    <2> PICK b \in Batches : \E kind, S : Begin(w, kind, b, S)
      BY <1>1 DEF BeginSome, BeginStatus, BeginUpdate, BeginRetry,
                  BeginContent, BeginScan
    <2> PICK kind, S : Begin(w, kind, b, S)
      OBVIOUS
    <2>1. UNCHANGED <<rows, closed>>
      BY DEF Begin
    <2>2. rows[b].status = "completed" => Settled(b)
      BY DEF CompletedInv, CompletedWasClosed, Settled
    <2>3. req'[w].row = rows[b] /\ req'[w].batch = b
      BY DEF Begin, TypeOK
    <2>4. \A v \in Workers \ {w} : req'[v] = req[v]
      BY DEF Begin, TypeOK
    <2> QED
      BY <2>1, <2>2, <2>3, <2>4, SettledStep
  <1>2. CASE Create(w)
    <2> PICK b \in Batches, status \in {"active", "paused"} :
          /\ rows' = [rows EXCEPT ![b].status = status]
          /\ req' = IF status = "active"
                      THEN [req EXCEPT ![w] =
                              [Idle EXCEPT !.kind = "create",
                                           !.at = "inserted", !.batch = b]]
                      ELSE req
      BY <1>2 DEF Create
    <2>1. \A c \in Batches : rows'[c].status = "completed" =>
                               rows[c].status = "completed"
      BY DEF TypeOK, Row
    <2> DEFINE new == [Idle EXCEPT !.kind = "create", !.at = "inserted",
                                   !.batch = b]
    <2>2. new.row.status # "completed"
      BY DEF Idle, Blank
    <2>3. \A v \in Workers : req'[v] = req[v] \/ req'[v] = new
      BY DEF TypeOK
    <2> QED
      BY <1>2, <2>1, <2>2, <2>3, SettledStep DEF Create
  <1> QED
    BY <1>1, <1>2

LEMMA CompletedServes ==
  ASSUME "completed" \notin EditStatuses,
         TypeInv, CompletedInv, NEW w \in Workers, Serve(w)
  PROVE  CompletedInv'
  <1> USE DEF TypeInv
  <1>1. req[w] \in Request /\ req[w].row \in Row /\ req[w].batch \in Batches
    BY DEF TypeOK, Request
  <1>2. req[w].row.status = "completed" => Settled(req[w].batch)
    BY DEF CompletedInv, CopiesAreSettled
  \* Steps that answer and leave no completed row that was not one before.
  <1>3. ASSUME Answer(w), UNCHANGED closed,
               \A b \in Batches : rows'[b].status = "completed" =>
                 rows[b].status = "completed" \/ Settled(b)
        PROVE  CompletedInv'
    BY <1>3, AnsweredCopies, SettledStep
  <1>4. CASE CreatePausesOthers(w) \/ Pause(w)
    <2>1. \A b \in Batches : rows'[b].status = "completed" =>
                               rows[b].status = "completed"
      BY <1>4 DEF CreatePausesOthers, Pause, SetStatus, TypeOK, Row
    <2> QED
      BY <1>3, <1>4, <2>1 DEF CreatePausesOthers, Pause
  <1>5. CASE ResumeCommits(w)
    <2>1. \A b \in Batches : rows'[b].status = "completed" =>
                               rows[b].status = "completed"
      BY <1>5 DEF ResumeCommits, TypeOK, Row
    <2> QED
      BY <1>3, <1>5, <2>1 DEF ResumeCommits
  <1>6. CASE ResumeLocksOthers(w)
    <2>1. \A v \in Workers : req'[v].row = req[v].row
                             /\ req'[v].batch = req[v].batch
      BY <1>6 DEF ResumeLocksOthers, TypeOK, Request
    <2> QED
      BY <1>6, <2>1, SettledStep DEF ResumeLocksOthers
  <1>7. CASE AddBalloon(w)
    BY <1>3, <1>7 DEF AddBalloon
  <1>8. CASE CountSensor(w)
    <2> DEFINE row == [req[w].row EXCEPT !.sensor = @ + 1]
    <2>1. row \in Row
      BY <1>1, <1>8, BoundsAreNat DEF CountSensor, SensorFits, Row
    <2>2. row.status = req[w].row.status
      BY <1>1 DEF Row
    <2>3. SaveAll(w, row)
      BY <1>8 DEF CountSensor
    <2> HIDE DEF row
    <2> QED
      BY <1>2, <1>3, <1>8, <2>1, <2>2, <2>3, SaveAllSettled DEF CountSensor
  <1>9. CASE RemoveBalloon(w)
    <2>1. \A b \in Batches : rows'[b].status = rows[b].status
      BY <1>1, <1>9 DEF RemoveBalloon, TypeOK, Row
    <2> QED
      BY <1>3, <1>9, <2>1 DEF RemoveBalloon
  <1>10. CASE Edit(w)
    <2> PICK status \in EditStatuses \cup {req[w].row.status} :
          SaveAll(w, [req[w].row EXCEPT !.status = status])
      BY <1>10 DEF Edit
    <2> DEFINE row == [req[w].row EXCEPT !.status = status]
    <2>1. row \in Row /\ row.status = status
      BY <1>1, SetsAreKnown DEF Row
    <2>2. SaveAll(w, row)
      OBVIOUS
    <2>3. status = "completed" => Settled(req[w].batch)
      BY <1>2
    <2> HIDE DEF row
    <2> QED
      BY <1>3, <1>10, <2>1, <2>2, <2>3, SaveAllSettled DEF Edit
  <1>11. CASE CloseSaves(w)
    <2>1. SaveAll(w, req[w].row)
      BY <1>11 DEF CloseSaves
    <2>2. rows'[req[w].batch].status = req[w].row.status
      BY <1>1, <2>1, SavedKeepsStatus DEF SaveAll, TypeOK
    <2>3. \A b \in Batches : rows'[b].status = "completed" =>
            rows[b].status = "completed" \/ Settled(b)
      BY <1>1, <1>2, <2>1, SaveAllSettled
    <2> DEFINE copy == rows'[req[w].batch]
    <2> HIDE DEF copy
    <2>4. req' = [req EXCEPT ![w] = [req[w] EXCEPT !.at = "saved",
                                                   !.row = copy]]
      BY <1>11 DEF CloseSaves, copy
    <2>5. /\ req'[w].row = copy /\ req'[w].batch = req[w].batch
          /\ \A v \in Workers \ {w} : req'[v] = req[v]
      BY <1>1, <2>4 DEF TypeOK, Request
    <2> QED
      BY <1>2, <1>11, <2>2, <2>3, <2>5, SettledStep DEF CloseSaves, copy
  <1>12. CASE CloseCounts(w) \/ CloseCollects(w)
    <2>1. CASE Answer(w)
      BY <1>3, <1>12, <2>1 DEF CloseCounts, CloseCollects
    <2>2. CASE \E place : Go(w, place)
      BY <1>12, <2>2, GoCopies, SettledStep DEF CloseCounts, CloseCollects
    <2>3. CASE req' = [req EXCEPT ![w].at = "collected",
                                  ![w].tags = listed[req[w].batch]]
      <3>1. \A v \in Workers : req'[v].row = req[v].row
                               /\ req'[v].batch = req[v].batch
        BY <2>3 DEF TypeOK, Request
      <3> QED
        BY <1>12, <3>1, SettledStep DEF CloseCounts, CloseCollects
    <2> QED
      BY <1>12, <2>1, <2>2, <2>3 DEF CloseCounts, CloseCollects
  <1>13. CASE CloseReports(w)
    <2>1. \E errors, place : /\ Go(w, place)
                             /\ rows' = [rows EXCEPT ![req[w].batch].errors = errors]
      BY <1>13 DEF CloseReports
    <2>2. \A b \in Batches : rows'[b].status = rows[b].status
      BY <1>1, <2>1 DEF TypeOK, Row
    <2> QED
      BY <1>13, <2>1, <2>2, GoCopies, SettledStep DEF CloseReports
  <1>14. CASE CloseFails(w)
    <2>1. \A b \in Batches : rows'[b].status = "completed" =>
                               rows[b].status = "completed"
      BY <1>1, <1>14 DEF CloseFails, TypeOK, Row
    <2> QED
      BY <1>3, <1>14, <2>1 DEF CloseFails
  <1>15. CASE CloseEnds(w)
    <2> PICK b \in Batches : b = req[w].batch
      BY <1>1
    <2> PICK outcome \in CloseOutcomes(b) :
          /\ closed' = [closed EXCEPT ![b] = @ \/ outcome \in {"ok", "lost"}]
          /\ rows' = [rows EXCEPT ![b].errors = {},
               ![b].failed = ~ (outcome \in {"ok", "not_sent"}),
               ![b].status = IF outcome \in {"ok", "not_sent"}
                               THEN "completed" ELSE "miriada_error"]
      BY <1>15 DEF CloseEnds
    <2>1. \A c \in Batches : Settled(c) => closed'[c] \/ c \in Cages
      BY DEF Settled, TypeOK
    <2>2. outcome = "ok" => closed'[b]
      BY <1>1 DEF TypeOK
    <2>3. outcome = "not_sent" => b \in Cages
      BY DEF CloseOutcomes
    <2>4. rows'[b].status = "completed" => closed'[b] \/ b \in Cages
      <3>1. rows'[b].status = "completed" => outcome \in {"ok", "not_sent"}
        BY <1>1 DEF TypeOK, Row
      <3> QED
        BY <2>2, <2>3, <3>1
    <2>5. \A c \in Batches \ {b} : rows'[c] = rows[c]
      BY <1>1 DEF TypeOK
    <2>6. CompletedWasClosed'
      BY <2>1, <2>4, <2>5 DEF CompletedInv, CompletedWasClosed, Settled
    <2>7. Answer(w)
      BY <1>15 DEF CloseEnds
    <2>8. CopiesAreSettled'
      <3> SUFFICES ASSUME NEW v \in Workers, req'[v].row.status = "completed"
                   PROVE  closed'[req'[v].batch] \/ req'[v].batch \in Cages
        BY DEF CopiesAreSettled, Settled
      <3>1. req[v].row.status = "completed" /\ req'[v].batch = req[v].batch
        BY <2>7, AnsweredCopies
      <3>2. Settled(req[v].batch) /\ req[v].batch \in Batches
        BY <3>1 DEF CompletedInv, CopiesAreSettled, TypeOK, Request
      <3> QED
        BY <2>1, <3>1, <3>2
    <2> QED
      BY <2>6, <2>8 DEF CompletedInv
  <1> QED
    BY <1>4, <1>5, <1>6, <1>7, <1>8, <1>9, <1>10, <1>11, <1>12, <1>13, <1>14,
       <1>15 DEF Serve

LEMMA CompletedStep ==
  ASSUME "completed" \notin EditStatuses
  PROVE  TypeInv /\ CompletedInv /\ [Next]_vars => CompletedInv'
  <1> SUFFICES ASSUME TypeInv, CompletedInv, [Next]_vars PROVE CompletedInv'
    OBVIOUS
  <1>1. ASSUME NEW w \in Workers, Die(w) PROVE CompletedInv'
    BY <1>1, AnsweredCopies, SettledStep DEF Die, TypeInv
  <1>2. CASE UNCHANGED vars
    BY <1>2, SettledStep DEF vars
  <1> QED
    BY <1>1, <1>2, CompletedBegins, CompletedServes DEF Next, Finished

\* As long as no edit sets the status "completed" by itself, a completed batch
\* is one whose TTN was closed, or must not be closed: a stale copy never
\* completes a batch.
THEOREM CompletedWasClosedHolds ==
  ASSUME "completed" \notin EditStatuses
  PROVE  Spec => []CompletedWasClosed
  <1>1. Init => CompletedInv
    BY DEF Init, CompletedInv, CompletedWasClosed, CopiesAreSettled, Blank, Idle
  <1>2. TypeInv /\ CompletedInv /\ [Next]_vars => CompletedInv'
    BY CompletedStep
  <1>3. CompletedInv => CompletedWasClosed
    BY DEF CompletedInv
  <1> QED
    BY <1>1, <1>2, <1>3, TypeInvHolds, PTL DEF Spec

-----------------------------------------------------------------------------
(***************************************************************************)
(* Requests that are served one after the other: what holds for any number *)
(* of workers is less, because copies get stale.                           *)
(***************************************************************************)
Serial == \A v, w \in Workers : v = w

\* What a request knows is still so.
UpToDate(w) ==
  LET b == req[w].batch
      at == req[w].at
  IN  /\ at = "loaded" => /\ req[w].row = rows[b]
                          /\ rows[b].status \in Accepts(req[w].kind)
      /\ at = "locked" => /\ req[w].locked = Others(w)
                          /\ rows[b].status \in OpenStatuses
      /\ at \in {"saved", "counted", "collected", "failed", "reported"}
           => rows[b].status \in OpenStatuses
      /\ at \in {"counted", "collected", "reported"} => ~CountMismatch(b)
      /\ at = "collected" => req[w].tags = listed[b]
      /\ at = "reported" => listed[b] \subseteq accepted[b]

SerialInv == TypeInv /\ \A w \in Workers : UpToDate(w)

-----------------------------------------------------------------------------
(* How steps change a row.                                                 *)

LEMMA RequestType ==
  ASSUME TypeInv, NEW w \in Workers
  PROVE  req[w] \in Request /\ req[w].batch \in Batches /\ req[w].row \in Row
  BY DEF TypeInv, TypeOK, Request

LEMMA SavedKeeps ==
  ASSUME NEW row \in Row
  PROVE  Saved(row).status = row.status /\ Saved(row).errors = row.errors
  <1>1. CASE row.status = "miriada_error"
    BY <1>1 DEF Row, Saved
  <1>2. CASE row.status = "completed"
    BY <1>2 DEF Row, Saved
  <1>3. CASE row.status \notin {"miriada_error", "completed"}
    BY <1>3 DEF Row, Saved
  <1> QED
    BY <1>1, <1>2, <1>3

LEMMA SaveAllRows ==
  ASSUME TypeInv, NEW w \in Workers, NEW row \in Row, SaveAll(w, row)
  PROVE  \A b \in Batches :
           IF b = req[w].batch
           THEN rows'[b].status = row.status /\ rows'[b].errors = row.errors
           ELSE rows'[b] = rows[b]
  BY SavedKeeps, RequestType DEF TypeInv, TypeOK, SaveAll

LEMMA SetStatusRows ==
  ASSUME TypeInv, NEW S, NEW status, SetStatus(S, status)
  PROVE  \A b \in Batches :
           /\ rows'[b].errors = rows[b].errors
           /\ rows'[b].status = IF b \in S THEN status ELSE rows[b].status
  BY DEF TypeInv, TypeOK, Row, SetStatus

\* save(update_fields=['miriada_status_errors'])
LEMMA ErrorsOnly ==
  ASSUME TypeInv, NEW b \in Batches,
         rows' = rows \/ \E errors : rows' = [rows EXCEPT ![b].errors = errors]
  PROVE  \A c \in Batches : rows'[c].status = rows[c].status
  <1> SUFFICES ASSUME NEW c \in Batches PROVE rows'[c].status = rows[c].status
    OBVIOUS
  <1>1. CASE rows' = rows
    BY <1>1
  <1>2. ASSUME NEW errors, rows' = [rows EXCEPT ![b].errors = errors]
        PROVE  rows'[c].status = rows[c].status
    <2> DEFINE row == [rows[b] EXCEPT !.errors = errors]
    <2>1. row.status = rows[b].status
      BY DEF TypeInv, TypeOK, Row
    <2>2. rows' = [rows EXCEPT ![b] = row]
      BY <1>2
    <2> HIDE DEF row
    <2> QED
      BY <2>1, <2>2 DEF TypeInv, TypeOK
  <1> QED
    BY <1>1, <1>2

-----------------------------------------------------------------------------
(* A request that is served alone is up to date.                           *)

LEMMA AnsweredSerial ==
  ASSUME Serial, TypeInv, TypeInv', NEW w \in Workers, Answer(w)
  PROVE  SerialInv'
  <1>1. \A v \in Workers : req'[v].at = "idle"
    BY DEF Serial, TypeInv, TypeOK, Answer, Idle
  <1> QED
    BY <1>1 DEF SerialInv, UpToDate

LEMMA BeginsSerial ==
  ASSUME Serial, SerialInv, TypeInv', NEW w \in Workers, BeginSome(w) \/ Create(w)
  PROVE  SerialInv'
  <1> USE DEF SerialInv
  <1>1. CASE BeginSome(w)
    <2>1. PICK b \in Batches, kind \in Kinds, S \in SUBSET Balloons : Begin(w, kind, b, S)
      BY <1>1 DEF BeginSome, BeginStatus, BeginUpdate, BeginRetry, BeginContent,
                  BeginScan, Kinds
    <2>2. /\ rows' = rows /\ rows[b].status \in Accepts(kind)
          /\ req'[w].at = "loaded" /\ req'[w].kind = kind /\ req'[w].batch = b
          /\ req'[w].row = rows[b]
      BY <2>1 DEF Begin, TypeInv, TypeOK
    <2>3. UpToDate(w)'
      BY <2>2 DEF UpToDate
    <2> QED
      BY <2>3 DEF Serial
  <1>2. CASE Create(w)
    <2>1. req[w].at = "idle" /\ (req' = req \/ req'[w].at = "inserted")
      <3>1. PICK c \in Batches, status \in {"active", "paused"} :
              req' = IF status = "active"
                       THEN [req EXCEPT ![w] = [Idle EXCEPT !.kind = "create",
                                                  !.at = "inserted", !.batch = c]]
                       ELSE req
        BY <1>2 DEF Create
      <3> DEFINE new == [Idle EXCEPT !.kind = "create", !.at = "inserted", !.batch = c]
      <3>2. new.at = "inserted"
        BY DEF Idle
      <3> HIDE DEF new
      <3>3. req' = [req EXCEPT ![w] = new] \/ req' = req
        BY <3>1 DEF new
      <3>4. req \in [Workers -> Request] /\ req[w].at = "idle"
        BY <1>2 DEF Create, TypeInv, TypeOK
      <3> QED
        BY <3>2, <3>3, <3>4
    <2>2. UpToDate(w)'
      BY <2>1 DEF UpToDate
    <2> QED
      BY <2>2 DEF Serial
  <1> QED
    BY <1>1, <1>2

\* Of a request only its place changes, and of the tables nothing it knows.
LEMMA GoSerial ==
  ASSUME Serial, SerialInv, TypeInv', NEW w \in Workers, NEW place, Go(w, place),
         UpToDate(w)'
  PROVE  SerialInv'
  BY DEF Serial, SerialInv

LEMMA ClosesSerial ==
  ASSUME Serial, SerialInv, TypeInv', NEW w \in Workers,
         CloseSaves(w) \/ CloseCounts(w) \/ CloseCollects(w) \/ CloseReports(w)
  PROVE  SerialInv'
  <1> DEFINE b == req[w].batch
  <1>1. req[w] \in Request /\ b \in Batches /\ req[w].row \in Row /\ UpToDate(w)
    BY RequestType DEF SerialInv
  <1>2. CASE CloseSaves(w)
    <2>1. /\ req[w].at = "loaded" /\ req[w].row = rows[b]
          /\ rows[b].status \in OpenStatuses
      BY <1>1, <1>2 DEF CloseSaves, At, UpToDate, Accepts
    <2>2. rows'[b].status = rows[b].status
      BY <1>1, <1>2, <2>1, SaveAllRows DEF CloseSaves, SerialInv
    <2>3. req'[w].at = "saved" /\ req'[w].batch = b
      BY <1>1, <1>2 DEF CloseSaves, SerialInv, TypeInv, TypeOK, Request
    <2>4. UpToDate(w)'
      BY <2>1, <2>2, <2>3 DEF UpToDate
    <2> QED
      BY <2>4 DEF Serial, SerialInv
  <1>3. CASE CloseCounts(w)
    <2>1. CASE Answer(w)
      BY <2>1, AnsweredSerial DEF SerialInv
    <2>2. CASE ~CountMismatch(b) /\ Go(w, "counted")
      <3>1. rows[b].status \in OpenStatuses /\ UNCHANGED <<rows, listed>>
        BY <1>1, <1>3 DEF CloseCounts, At, UpToDate, Accepts
      <3>2. req'[w].at = "counted" /\ req'[w].batch = b
        BY <1>1, <2>2 DEF Go, SerialInv, TypeInv, TypeOK, Request
      <3>3. ~CountMismatch(b)'
        BY <2>2, <3>1, <3>2 DEF CountMismatch, RfidBalloonCount
      <3>4. UpToDate(w)'
        BY <3>1, <3>2, <3>3 DEF UpToDate
      <3> QED
        BY <3>4 DEF Serial, SerialInv
    <2> QED
      BY <1>3, <2>1, <2>2 DEF CloseCounts
  <1>4. CASE CloseCollects(w)
    <2>1. /\ rows[b].status \in OpenStatuses /\ ~CountMismatch(b)
          /\ UNCHANGED <<rows, listed>>
      BY <1>1, <1>4 DEF CloseCollects, At, UpToDate
    <2>2. req'[w].batch = b /\ \/ req'[w].at = "collected" /\ req'[w].tags = listed[b]
                               \/ req'[w].at = "failed"
      BY <1>1, <1>4 DEF CloseCollects, Go, SerialInv, TypeInv, TypeOK, Request
    <2>3. ~CountMismatch(b)'
      BY <2>1, <2>2 DEF CountMismatch, RfidBalloonCount
    <2>4. UpToDate(w)'
      BY <2>1, <2>2, <2>3 DEF UpToDate
    <2> QED
      BY <2>4 DEF Serial, SerialInv
  <1>5. CASE CloseReports(w)
    <2>1. /\ rows[b].status \in OpenStatuses /\ ~CountMismatch(b)
          /\ req[w].tags = listed[b] /\ listed' = listed
      BY <1>1, <1>5 DEF CloseReports, At, UpToDate
    <2>2. PICK outcome \in [req[w].tags -> PostOutcomes] :
            /\ accepted' = [accepted EXCEPT ![b] =
                              @ \cup {n \in req[w].tags : outcome[n] # "refused"}]
            /\ rows' = [rows EXCEPT ![b].errors =
                          {n \in req[w].tags : outcome[n] # "ok"}]
            /\ Go(w, IF {n \in req[w].tags : outcome[n] # "ok"} = {}
                       THEN "reported" ELSE "failed")
      BY <1>5 DEF CloseReports
    <2>3. rows'[b].status = rows[b].status
      BY <1>1, <2>2 DEF SerialInv, TypeInv, TypeOK, Row
    <2>4. req'[w].batch = b
          /\ \/ req'[w].at = "failed"
             \/ req'[w].at = "reported" /\ {n \in req[w].tags : outcome[n] # "ok"} = {}
      BY <1>1, <2>2 DEF Go, SerialInv, TypeInv, TypeOK, Request
    <2>5. req'[w].at = "reported" => listed[b] \subseteq accepted'[b]
      <3> SUFFICES ASSUME req'[w].at = "reported" PROVE listed[b] \subseteq accepted'[b]
        OBVIOUS
      <3>1. \A n \in listed[b] : outcome[n] = "ok"
        BY <2>1, <2>4
      <3>2. accepted'[b] = accepted[b] \cup {n \in req[w].tags : outcome[n] # "refused"}
        BY <1>1, <2>2 DEF SerialInv, TypeInv, TypeOK
      <3> QED
        BY <2>1, <3>1, <3>2
    <2>6. ~CountMismatch(b)'
      BY <2>1, <2>4 DEF CountMismatch, RfidBalloonCount
    <2>7. UpToDate(w)'
      BY <2>1, <2>3, <2>4, <2>5, <2>6 DEF UpToDate
    <2> QED
      BY <2>7 DEF Serial, SerialInv
  <1> QED
    BY <1>2, <1>3, <1>4, <1>5

LEMMA LocksSerial ==
  ASSUME Serial, SerialInv, TypeInv', NEW w \in Workers, ResumeLocksOthers(w)
  PROVE  SerialInv'
  <1> DEFINE j == [req[w] EXCEPT !.at = "locked", !.locked = Others(w)]
  <1>1. req[w] \in Request /\ req \in [Workers -> Request]
    BY DEF SerialInv, TypeInv, TypeOK
  <1>2. req' = [req EXCEPT ![w] = j] /\ rows' = rows
    BY DEF ResumeLocksOthers
  <1>3. j.at = "locked" /\ j.locked = Others(w) /\ j.batch = req[w].batch
    BY <1>1 DEF Request
  <1> HIDE DEF j
  <1>4. req'[w] = j
    BY <1>1, <1>2
  <1>5. Others(w)' = Others(w)
    BY <1>2, <1>3, <1>4 DEF Others, ActiveRows
  <1>6. rows[req[w].batch].status \in OpenStatuses
    BY DEF SerialInv, UpToDate, ResumeLocksOthers, At, Accepts, OpenStatuses
  <1>7. UpToDate(w)'
    BY <1>2, <1>3, <1>4, <1>5, <1>6 DEF UpToDate
  <1> QED
    BY <1>7 DEF Serial, SerialInv

LEMMA AnswersSerial ==
  ASSUME NEW w \in Workers,
         \/ CreatePausesOthers(w) \/ Pause(w) \/ ResumeCommits(w) \/ AddBalloon(w)
         \/ CountSensor(w) \/ RemoveBalloon(w) \/ Edit(w) \/ CloseFails(w)
         \/ CloseEnds(w) \/ Die(w)
  PROVE  Answer(w)
  BY DEF CreatePausesOthers, Pause, ResumeCommits, AddBalloon, CountSensor,
         RemoveBalloon, Edit, CloseFails, CloseEnds, Die

LEMMA SerialStep == Serial /\ SerialInv /\ [Next]_vars => SerialInv'
  <1> SUFFICES ASSUME Serial, SerialInv, [Next]_vars PROVE SerialInv'
    OBVIOUS
  <1>1. TypeInv /\ TypeInv'
    BY TypeStep DEF SerialInv
  <1>2. ASSUME NEW w \in Workers, BeginSome(w) \/ Create(w) PROVE SerialInv'
    BY <1>1, <1>2, BeginsSerial
  <1>3. ASSUME NEW w \in Workers, Serve(w) PROVE SerialInv'
    BY <1>1, <1>3, ClosesSerial, LocksSerial, AnswersSerial, AnsweredSerial DEF Serve
  <1>4. ASSUME NEW w \in Workers, Die(w) PROVE SerialInv'
    BY <1>1, <1>4, AnswersSerial, AnsweredSerial
  <1>5. CASE UNCHANGED vars
    BY <1>1, <1>5 DEF vars, SerialInv, UpToDate, Others, ActiveRows, CountMismatch,
                      RfidBalloonCount
  <1> QED
    BY <1>2, <1>3, <1>4, <1>5 DEF Next, Finished

LEMMA SerialInit == Init => SerialInv
  <1> SUFFICES ASSUME Init PROVE SerialInv
    OBVIOUS
  <1>1. \A w \in Workers : req[w].at = "idle"
    BY DEF Init, Idle
  <1> QED
    BY <1>1, TypeInit DEF SerialInv, UpToDate

-----------------------------------------------------------------------------
(* The TTN.                                                                *)

LEMMA MoreBalloons ==
  ASSUME NEW S \in SUBSET Balloons, NEW T \in SUBSET S
  PROVE  Cardinality(T) \in Nat /\ Cardinality(S) \in Nat
         /\ Cardinality(T) =< Cardinality(S)
  BY SetsAreKnown, FS_Subset, FS_CardinalityType

LEMMA BackedStep ==
  ASSUME SerialInv, TtnIsBacked, [Next]_vars
  PROVE  TtnIsBacked'
  <1>1. ASSUME NEW w \in Workers, CloseReports(w) PROVE TtnIsBacked'
    <2>1. /\ closed' = closed /\ accepted' \in [Batches -> SUBSET Balloons]
          /\ \A b \in Batches : accepted[b] \subseteq accepted'[b]
      <3>1. PICK taken \in SUBSET req[w].tags :
              accepted' = [accepted EXCEPT ![req[w].batch] = @ \cup taken]
        BY <1>1 DEF CloseReports
      <3>2. accepted' \in [Batches -> SUBSET Balloons]
        BY TypeStep DEF SerialInv, TypeInv, TypeOK
      <3> QED
        BY <1>1, <3>1, <3>2 DEF CloseReports, SerialInv, TypeInv, TypeOK
    <2>2. \A b \in Batches : Cardinality(accepted[b]) =< Cardinality(accepted'[b])
                             /\ Cardinality(accepted[b]) \in Nat
                             /\ Cardinality(accepted'[b]) \in Nat
      BY <2>1, MoreBalloons
    <2> QED
      BY <2>1, <2>2, TtnIsNat DEF TtnIsBacked
  <1>2. ASSUME NEW w \in Workers, CloseEnds(w) PROVE TtnIsBacked'
    <2> DEFINE b == req[w].batch
    <2>1. /\ ~CountMismatch(b) /\ listed[b] \subseteq accepted[b]
          /\ accepted' = accepted
      BY <1>2 DEF CloseEnds, At, SerialInv, UpToDate
    <2>2. PICK done \in BOOLEAN : closed' = [closed EXCEPT ![b] = @ \/ done]
      BY <1>2 DEF CloseEnds
    <2>3. b \in Batches /\ accepted[b] \in SUBSET Balloons /\ listed[b] \in SUBSET Balloons
      BY RequestType DEF SerialInv, TypeInv, TypeOK
    <2>4. Cardinality(accepted[b]) >= Ttn
      <3>1. /\ Cardinality(listed[b]) =< Cardinality(accepted[b])
            /\ Cardinality(listed[b]) \in Nat /\ Cardinality(accepted[b]) \in Nat
        BY <2>1, <2>3, MoreBalloons
      <3> QED
        BY <2>1, <3>1, TtnIsNat DEF CountMismatch, RfidBalloonCount
    <2>5. \A c \in Batches \ {b} : closed'[c] = closed[c]
      BY <2>2 DEF SerialInv, TypeInv, TypeOK
    <2> QED
      BY <2>1, <2>4, <2>5 DEF TtnIsBacked
  <1>3. CASE UNCHANGED <<closed, accepted>>
    BY <1>3 DEF TtnIsBacked
  <1>4. ASSUME NEW w \in Workers, BeginSome(w) \/ Create(w) \/ Die(w)
        PROVE  UNCHANGED <<closed, accepted>>
    BY <1>4 DEF BeginSome, BeginStatus, BeginUpdate, BeginRetry, BeginContent,
                BeginScan, Begin, Create, Die
  <1>5. ASSUME NEW w \in Workers, Serve(w), ~CloseReports(w), ~CloseEnds(w)
        PROVE  UNCHANGED <<closed, accepted>>
    BY <1>5 DEF Serve, CreatePausesOthers, Pause, ResumeLocksOthers, ResumeCommits,
                AddBalloon, CountSensor, RemoveBalloon, Edit, CloseSaves, CloseCounts,
                CloseCollects, CloseFails
  <1>6. CASE UNCHANGED vars
    BY <1>3, <1>6 DEF vars
  <1> QED
    BY <1>1, <1>2, <1>3, <1>4, <1>5, <1>6 DEF Next, Finished

\* When the TTN of a batch has been closed, Miriada has taken as many balloons
\* as it names: the comparison, the query of the tags and the reports are of
\* one batch that nobody else has changed.
THEOREM TtnIsBackedHolds == Serial => (Spec => []TtnIsBacked)
  <1> SUFFICES ASSUME Serial PROVE Spec => []TtnIsBacked
    OBVIOUS
  <1>1. Init => TtnIsBacked
    BY DEF Init, TtnIsBacked
  <1>2. SerialInv /\ TtnIsBacked /\ [Next]_vars => SerialInv' /\ TtnIsBacked'
    BY SerialStep, BackedStep
  <1> QED
    BY <1>1, <1>2, SerialInit, PTL DEF Spec

-----------------------------------------------------------------------------
(* The errors of balloons.                                                 *)

LEMMA ErrorsStep ==
  ASSUME SerialInv, "completed" \notin EditStatuses, ErrorsAreListed, [Next]_vars
  PROVE  ErrorsAreListed'
  <1> USE DEF SerialInv
  <1>1. CASE UNCHANGED <<rows, listed>>
    BY <1>1 DEF ErrorsAreListed
  <1>2. CASE /\ listed' = listed
             /\ \A b \in Batches :
                  /\ rows'[b].errors = rows[b].errors
                  /\ rows'[b].status = "completed" => rows[b].status = "completed"
    BY <1>2 DEF ErrorsAreListed
  <1>3. ASSUME NEW w \in Workers, Create(w) PROVE ErrorsAreListed'
    BY <1>2, <1>3 DEF Create, TypeInv, TypeOK, Row
  <1>4. ASSUME NEW w \in Workers, CreatePausesOthers(w) \/ Pause(w)
        PROVE  ErrorsAreListed'
    <2>1. listed' = listed /\ \E S : SetStatus(S, "paused")
      BY <1>4 DEF CreatePausesOthers, Pause
    <2> QED
      BY <1>2, <2>1, SetStatusRows
  <1>5. ASSUME NEW w \in Workers, ResumeCommits(w) PROVE ErrorsAreListed'
    <2>1. \A b \in Batches : /\ rows'[b].errors = rows[b].errors
                             /\ rows'[b].status \in {"active", "paused", rows[b].status}
      BY <1>5 DEF ResumeCommits, TypeInv, TypeOK, Row
    <2> QED
      BY <1>2, <1>5, <2>1 DEF ResumeCommits
  <1>6. ASSUME NEW w \in Workers, AddBalloon(w) PROVE ErrorsAreListed'
    BY <1>6 DEF AddBalloon, ErrorsAreListed, TypeInv, TypeOK
  <1>7. ASSUME NEW w \in Workers, CountSensor(w) PROVE ErrorsAreListed'
    <2> DEFINE row == [req[w].row EXCEPT !.sensor = @ + 1]
    <2>1. /\ SaveAll(w, row) /\ listed' = listed
          /\ At(w, "sensor", "loaded") /\ req[w].row = rows[req[w].batch]
      BY <1>7 DEF CountSensor, At, UpToDate
    <2>2. row \in Row /\ row.status = req[w].row.status /\ row.errors = req[w].row.errors
      <3>1. req[w].row \in Row /\ req[w].row.sensor < MaxSensor
        BY <2>1, RequestType DEF TypeInv, SensorFits
      <3>2. req[w].row.sensor + 1 \in 0 .. MaxSensor
        BY <3>1, BoundsAreNat DEF Row
      <3> QED
        BY <3>1, <3>2 DEF Row
    <2> HIDE DEF row
    <2> QED
      BY <1>2, <2>1, <2>2, SaveAllRows
  <1>8. ASSUME NEW w \in Workers, RemoveBalloon(w) PROVE ErrorsAreListed'
    <2> DEFINE b == req[w].batch
               known == req[w].row.errors
    <2>1. b \in Batches /\ known = rows[b].errors
      BY <1>8, RequestType DEF RemoveBalloon, At, UpToDate
    <2>2. CASE UNCHANGED <<rows, listed>>
      BY <1>1, <2>2
    <2>3. CASE /\ listed' = [listed EXCEPT ![b] = @ \ req[w].balloons]
               /\ \/ rows' = [rows EXCEPT ![b].errors = known \ req[w].balloons]
                  \/ rows' = rows /\ req[w].balloons \cap known = {}
      <3>1. listed'[b] = listed[b] \ req[w].balloons
            /\ \A c \in Batches \ {b} : listed'[c] = listed[c] /\ rows'[c] = rows[c]
        BY <2>1, <2>3 DEF TypeInv, TypeOK
      <3>2. rows'[b].errors = known \ req[w].balloons /\ rows'[b].status = rows[b].status
        BY <2>1, <2>3 DEF TypeInv, TypeOK, Row
      <3> QED
        BY <2>1, <3>1, <3>2 DEF ErrorsAreListed
    <2> QED
      BY <1>8, <2>2, <2>3 DEF RemoveBalloon
  <1>9. ASSUME NEW w \in Workers, Edit(w) PROVE ErrorsAreListed'
    <2>1. PICK status \in EditStatuses \cup {req[w].row.status} :
            SaveAll(w, [req[w].row EXCEPT !.status = status])
      BY <1>9 DEF Edit
    <2> DEFINE row == [req[w].row EXCEPT !.status = status]
    <2>2. req[w].row = rows[req[w].batch] /\ listed' = listed
      BY <1>9 DEF Edit, At, UpToDate
    <2>3. row \in Row /\ row.status = status /\ row.errors = req[w].row.errors
      BY RequestType, SetsAreKnown DEF Row
    <2> HIDE DEF row
    <2>4. SaveAll(w, row)
      BY <2>1 DEF row
    <2> QED
      BY <1>2, <2>1, <2>2, <2>3, <2>4, SaveAllRows
  <1>10. ASSUME NEW w \in Workers, CloseSaves(w) PROVE ErrorsAreListed'
    <2>1. SaveAll(w, req[w].row) /\ req[w].row = rows[req[w].batch] /\ listed' = listed
      BY <1>10 DEF CloseSaves, At, UpToDate
    <2> QED
      BY <1>2, <2>1, SaveAllRows, RequestType
  <1>11. ASSUME NEW w \in Workers, CloseReports(w) PROVE ErrorsAreListed'
    <2> DEFINE b == req[w].batch
    <2>1. /\ b \in Batches /\ rows[b].status \in OpenStatuses
          /\ req[w].tags = listed[b] /\ listed' = listed
      BY <1>11, RequestType DEF CloseReports, At, UpToDate
    <2>2. PICK errors \in SUBSET req[w].tags : rows' = [rows EXCEPT ![b].errors = errors]
      BY <1>11 DEF CloseReports
    <2>3. /\ rows'[b].errors = errors /\ rows'[b].status = rows[b].status
          /\ \A c \in Batches \ {b} : rows'[c] = rows[c]
      BY <2>1, <2>2 DEF TypeInv, TypeOK, Row
    <2> QED
      BY <2>1, <2>2, <2>3 DEF ErrorsAreListed, OpenStatuses
  <1>12. ASSUME NEW w \in Workers, CloseFails(w) \/ CloseEnds(w) PROVE ErrorsAreListed'
    <2> DEFINE b == req[w].batch
    <2>1. b \in Batches /\ rows[b] \in Row /\ listed' = listed
      BY <1>12, RequestType DEF CloseFails, CloseEnds, TypeInv, TypeOK
    <2>2. CASE CloseFails(w)
      <3>1. /\ rows'[b].errors = rows[b].errors /\ rows'[b].status = "miriada_error"
            /\ \A c \in Batches \ {b} : rows'[c] = rows[c]
        <4> DEFINE row == [rows[b] EXCEPT !.status = "miriada_error", !.failed = TRUE]
        <4>1. rows' = [rows EXCEPT ![b] = row]
          BY <2>2 DEF CloseFails
        <4>2. row.errors = rows[b].errors /\ row.status = "miriada_error"
          BY <2>1 DEF Row
        <4> HIDE DEF row
        <4> QED
          BY <2>1, <4>1, <4>2 DEF TypeInv, TypeOK
      <3> QED
        BY <2>1, <3>1 DEF ErrorsAreListed
    <2>3. CASE CloseEnds(w)
      <3>1. PICK success \in BOOLEAN :
              rows' = [rows EXCEPT ![b] =
                [rows[b] EXCEPT !.errors = {}, !.failed = ~ success,
                   !.status = IF success THEN "completed" ELSE "miriada_error"]]
        BY <2>3 DEF CloseEnds
      <3> DEFINE row == [rows[b] EXCEPT !.errors = {}, !.failed = ~ success,
                           !.status = IF success THEN "completed" ELSE "miriada_error"]
      <3>2. row.errors = {}
        BY <2>1 DEF Row
      <3> HIDE DEF row
      <3>3. rows'[b].errors = {} /\ \A c \in Batches \ {b} : rows'[c] = rows[c]
        BY <2>1, <3>1, <3>2 DEF row, TypeInv, TypeOK
      <3> QED
        BY <2>1, <3>3 DEF ErrorsAreListed
    <2> QED
      BY <1>12, <2>2, <2>3
  <1>13. ASSUME NEW w \in Workers, \/ BeginSome(w) \/ Die(w) \/ ResumeLocksOthers(w)
                                   \/ CloseCounts(w) \/ CloseCollects(w)
         PROVE  UNCHANGED <<rows, listed>>
    BY <1>13 DEF BeginSome, BeginStatus, BeginUpdate, BeginRetry, BeginContent,
                 BeginScan, Begin, Die, ResumeLocksOthers, CloseCounts, CloseCollects
  <1>14. CASE UNCHANGED vars
    BY <1>1, <1>14 DEF vars
  <1> QED
    BY <1>1, <1>3, <1>4, <1>5, <1>6, <1>7, <1>8, <1>9, <1>10, <1>11, <1>12, <1>13, <1>14
       DEF Next, Serve, Finished

\* The errors kept for a batch are about balloons that are still in it, and a
\* completed batch has none, as long as no edit sets that status.
THEOREM ErrorsAreListedHolds ==
  Serial /\ "completed" \notin EditStatuses => (Spec => []ErrorsAreListed)
  <1> SUFFICES ASSUME Serial, "completed" \notin EditStatuses
               PROVE  Spec => []ErrorsAreListed
    OBVIOUS
  <1>1. Init => ErrorsAreListed
    BY DEF Init, ErrorsAreListed, Blank
  <1>2. SerialInv /\ ErrorsAreListed /\ [Next]_vars => SerialInv' /\ ErrorsAreListed'
    BY SerialStep, ErrorsStep
  <1> QED
    BY <1>1, <1>2, SerialInit, PTL DEF Spec

-----------------------------------------------------------------------------
(* The active batch.                                                       *)

\* Only between the two statements of create there may be two.
OneRow == \A b, c \in ActiveRows : b = c
ActiveInv == (\A w \in Workers : req[w].at # "inserted") => OneRow

LEMMA FewerActive ==
  ASSUME Serial, ActiveInv, NEW w \in Workers, req[w].at # "inserted",
         \A b \in Batches : rows'[b].status = "active" => rows[b].status = "active"
  PROVE  ActiveInv'
  <1>1. OneRow
    BY DEF Serial, ActiveInv
  <1> QED
    BY <1>1 DEF ActiveInv, OneRow, ActiveRows

LEMMA OnlyActive ==
  ASSUME NEW b \in Batches, \A c \in Batches \ {b} : rows'[c].status # "active"
  PROVE  ActiveInv'
  BY DEF ActiveInv, OneRow, ActiveRows

LEMMA ActiveStep ==
  ASSUME Serial, SerialInv, "active" \notin EditStatuses, "crash" \notin Faults,
         ActiveInv, [Next]_vars
  PROVE  ActiveInv'
  <1> USE DEF SerialInv
  <1>1. CASE UNCHANGED vars
    BY <1>1 DEF vars, ActiveInv, OneRow, ActiveRows
  <1>2. ASSUME NEW w \in Workers, BeginSome(w) PROVE ActiveInv'
    <2>1. req[w].at = "idle" /\ rows' = rows
      BY <1>2 DEF BeginSome, BeginStatus, BeginUpdate, BeginRetry, BeginContent,
                  BeginScan, Begin
    <2> QED
      BY <2>1, FewerActive
  <1>3. ASSUME NEW w \in Workers, Create(w) PROVE ActiveInv'
    <2>1. PICK b \in Batches, status \in {"active", "paused"} :
            /\ rows' = [rows EXCEPT ![b].status = status]
            /\ req' = IF status = "active"
                        THEN [req EXCEPT ![w] = [Idle EXCEPT !.kind = "create",
                                                   !.at = "inserted", !.batch = b]]
                        ELSE req
      BY <1>3 DEF Create
    <2>2. CASE status = "active"
      <3> DEFINE new == [Idle EXCEPT !.kind = "create", !.at = "inserted", !.batch = b]
      <3>1. new.at = "inserted"
        BY DEF Idle
      <3> HIDE DEF new
      <3>2. req' = [req EXCEPT ![w] = new]
        BY <2>1, <2>2 DEF new
      <3>3. req'[w].at = "inserted"
        BY <3>1, <3>2 DEF TypeInv, TypeOK
      <3> QED
        BY <3>3 DEF ActiveInv
    <2>3. CASE status = "paused"
      <3>1. \A c \in Batches : rows'[c].status = "active" => rows[c].status = "active"
        BY <2>1, <2>3 DEF TypeInv, TypeOK, Row
      <3>2. req[w].at # "inserted"
        BY <1>3 DEF Create
      <3> QED
        BY <3>1, <3>2, FewerActive
    <2> QED
      BY <2>2, <2>3
  <1>4. ASSUME NEW w \in Workers, CreatePausesOthers(w) PROVE ActiveInv'
    <2>1. SetStatus(Others(w), "paused") /\ req[w].batch \in Batches
      BY <1>4, RequestType DEF CreatePausesOthers
    <2>2. \A c \in Batches \ {req[w].batch} : rows'[c].status # "active"
      BY <2>1, SetStatusRows DEF Others, ActiveRows
    <2> QED
      BY <2>1, <2>2, OnlyActive
  <1>5. ASSUME NEW w \in Workers, ResumeCommits(w) PROVE ActiveInv'
    <2>1. req[w].locked = Others(w) /\ req[w].batch \in Batches
      BY <1>5, RequestType DEF ResumeCommits, At, UpToDate
    <2>2. \A c \in Batches \ {req[w].batch} : rows'[c].status # "active"
      BY <1>5, <2>1 DEF ResumeCommits, Others, ActiveRows, TypeInv, TypeOK, Row
    <2> QED
      BY <2>1, <2>2, OnlyActive
  <1>6. ASSUME NEW w \in Workers, Pause(w) PROVE ActiveInv'
    <2>1. req[w].at = "loaded" /\ SetStatus({req[w].batch}, "paused")
      BY <1>6 DEF Pause, At
    <2> QED
      BY <2>1, SetStatusRows, FewerActive
  <1>7. ASSUME NEW w \in Workers,
               \/ AddBalloon(w) \/ ResumeLocksOthers(w) \/ CloseCounts(w)
               \/ CloseCollects(w)
        PROVE  ActiveInv'
    <2>1. rows' = rows /\ req[w].at \in {"loaded", "saved", "counted"}
      BY <1>7 DEF AddBalloon, ResumeLocksOthers, CloseCounts, CloseCollects, At
    <2> QED
      BY <2>1, FewerActive
  <1>8. ASSUME NEW w \in Workers, NEW row \in Row, SaveAll(w, row),
               req[w].at = "loaded",
               row.status \in EditStatuses \cup {req[w].row.status}
        PROVE  ActiveInv'
    <2>1. req[w].row = rows[req[w].batch]
      BY <1>8 DEF UpToDate
    <2>2. \A b \in Batches : rows'[b].status = "active" => rows[b].status = "active"
      BY <1>8, <2>1, SaveAllRows
    <2> QED
      BY <1>8, <2>2, FewerActive
  <1>9. ASSUME NEW w \in Workers, CountSensor(w) PROVE ActiveInv'
    <2> DEFINE row == [req[w].row EXCEPT !.sensor = @ + 1]
    <2>1. SaveAll(w, row) /\ At(w, "sensor", "loaded")
      BY <1>9 DEF CountSensor
    <2>2. row \in Row /\ row.status = req[w].row.status
      <3>1. req[w].row \in Row /\ req[w].row.sensor < MaxSensor
        BY <2>1, RequestType DEF TypeInv, SensorFits
      <3>2. req[w].row.sensor + 1 \in 0 .. MaxSensor
        BY <3>1, BoundsAreNat DEF Row
      <3> QED
        BY <3>1, <3>2 DEF Row
    <2> HIDE DEF row
    <2> QED
      BY <1>8, <2>1, <2>2 DEF At
  <1>10. ASSUME NEW w \in Workers, Edit(w) PROVE ActiveInv'
    <2>1. PICK status \in EditStatuses \cup {req[w].row.status} :
            SaveAll(w, [req[w].row EXCEPT !.status = status])
      BY <1>10 DEF Edit
    <2> DEFINE row == [req[w].row EXCEPT !.status = status]
    <2>2. row \in Row /\ row.status = status
      BY RequestType, SetsAreKnown DEF Row
    <2> HIDE DEF row
    <2>3. SaveAll(w, row) /\ req[w].at = "loaded"
      BY <1>10, <2>1 DEF row, Edit, At
    <2> QED
      BY <1>8, <2>1, <2>2, <2>3
  <1>11. ASSUME NEW w \in Workers, CloseSaves(w) PROVE ActiveInv'
    BY <1>8, <1>11, RequestType DEF CloseSaves, At
  <1>12. ASSUME NEW w \in Workers, RemoveBalloon(w) \/ CloseReports(w) PROVE ActiveInv'
    <2>1. req[w].at \in {"loaded", "collected"} /\ req[w].batch \in Batches
      BY <1>12, RequestType DEF RemoveBalloon, CloseReports, At
    <2>2. rows' = rows \/ \E errors : rows' = [rows EXCEPT ![req[w].batch].errors = errors]
      BY <1>12 DEF RemoveBalloon, CloseReports
    <2>3. \A b \in Batches : rows'[b].status = rows[b].status
      BY <2>1, <2>2, ErrorsOnly
    <2> QED
      BY <2>1, <2>3, FewerActive
  <1>13. ASSUME NEW w \in Workers, CloseFails(w) \/ CloseEnds(w) PROVE ActiveInv'
    <2> DEFINE b == req[w].batch
    <2>1. req[w].at \in {"failed", "reported"} /\ b \in Batches /\ rows[b] \in Row
      BY <1>13, RequestType DEF CloseFails, CloseEnds, At, TypeInv, TypeOK
    <2>2. PICK row : rows' = [rows EXCEPT ![b] = row] /\ row.status # "active"
      <3>1. CASE CloseFails(w)
        <4> DEFINE row == [rows[b] EXCEPT !.status = "miriada_error", !.failed = TRUE]
        <4>1. rows' = [rows EXCEPT ![b] = row]
          BY <3>1 DEF CloseFails
        <4>2. row.status = "miriada_error"
          BY <2>1 DEF Row
        <4> QED
          BY <4>1, <4>2
      <3>2. CASE CloseEnds(w)
        <4>1. PICK success \in BOOLEAN :
                rows' = [rows EXCEPT ![b] =
                  [rows[b] EXCEPT !.errors = {}, !.failed = ~ success,
                     !.status = IF success THEN "completed" ELSE "miriada_error"]]
          BY <3>2 DEF CloseEnds
        <4> DEFINE row == [rows[b] EXCEPT !.errors = {}, !.failed = ~ success,
                             !.status = IF success THEN "completed" ELSE "miriada_error"]
        <4>2. row.status = IF success THEN "completed" ELSE "miriada_error"
          BY <2>1 DEF Row
        <4>3. row.status # "active"
          BY <4>2
        <4> QED
          BY <4>1, <4>3
      <3> QED
        BY <1>13, <3>1, <3>2
    <2>3. \A c \in Batches : rows'[c].status = "active" => rows[c].status = "active"
      BY <2>1, <2>2 DEF TypeInv, TypeOK
    <2> QED
      BY <2>1, <2>3, FewerActive
  <1>14. ASSUME NEW w \in Workers PROVE ~Die(w)
    BY DEF Die
  <1> QED
    BY <1>1, <1>2, <1>3, <1>4, <1>5, <1>6, <1>7, <1>9, <1>10, <1>11, <1>12, <1>13, <1>14
       DEF Next, Serve, Finished

\* Between requests at most one batch of the reader is active, as long as no
\* request ends between its two statements and no edit sets that status.
THEOREM OneActiveHolds ==
  Serial /\ "active" \notin EditStatuses /\ "crash" \notin Faults
    => (Spec => []OneActive)
  <1> SUFFICES ASSUME Serial, "active" \notin EditStatuses, "crash" \notin Faults
               PROVE  Spec => []OneActive
    OBVIOUS
  <1>1. Init => ActiveInv
    BY DEF Init, ActiveInv, OneRow, ActiveRows, Blank
  <1>2. SerialInv /\ ActiveInv /\ [Next]_vars => SerialInv' /\ ActiveInv'
    BY SerialStep, ActiveStep
  <1>3. ActiveInv => OneActive
    <2> SUFFICES ASSUME ActiveInv, \A w \in Workers : req[w].at = "idle"
                 PROVE  Cardinality(ActiveRows) <= 1
      BY DEF OneActive
    <2>1. OneRow
      BY DEF ActiveInv
    <2>2. ActiveRows = {} \/ \E b : ActiveRows = {b}
      BY <2>1 DEF OneRow
    <2> QED
      BY <2>2, FS_EmptySet, FS_Singleton
  <1> QED
    BY <1>1, <1>2, <1>3, SerialInit, PTL DEF Spec

-----------------------------------------------------------------------------
(* The register as a ledger.                                               *)

LedgerStates == [b \in Batches |-> LedgerState(rows[b].status)]

LEMMA StatusStates ==
  /\ LedgerState("absent") = "absent"
  /\ LedgerState("completed") = "done"
  /\ \A status \in OpenStatuses : LedgerState(status) = "open"
  BY DEF LedgerState, OpenStatuses

\* A step that leaves every batch open, done or absent, as it was.
LEMMA LedgerStutters ==
  ASSUME \A b \in Batches :
           LedgerState(rows'[b].status) = LedgerState(rows[b].status),
         listed' = listed, accepted' = accepted
  PROVE  UNCHANGED Ledger!ledgerVars
  <1>1. LedgerStates' = LedgerStates
    BY DEF LedgerStates
  <1> QED
    BY <1>1 DEF LedgerStates, Ledger!ledgerVars

\* A step that opens or completes one batch.
LEMMA LedgerMoves ==
  ASSUME NEW b \in Batches, NEW state, LedgerState(rows'[b].status) = state,
         \A c \in Batches \ {b} : rows'[c] = rows[c]
  PROVE  LedgerStates' = [LedgerStates EXCEPT ![b] = state]
  BY DEF LedgerStates

LEMMA LedgerStep ==
  ASSUME Serial, EditStatuses = {}, SerialInv, Next
  PROVE  [Ledger!Next]_(Ledger!ledgerVars)
  <1> USE DEF SerialInv
  <1>1. CASE UNCHANGED vars
    BY <1>1, LedgerStutters DEF vars
  <1>2. ASSUME NEW w \in Workers, BeginSome(w) \/ Die(w)
        PROVE  UNCHANGED Ledger!ledgerVars
    <2>1. UNCHANGED <<rows, listed, accepted>>
      BY <1>2 DEF BeginSome, BeginStatus, BeginUpdate, BeginRetry, BeginContent,
                  BeginScan, Begin, Die
    <2> QED
      BY <2>1, LedgerStutters
  <1>3. ASSUME NEW w \in Workers, Create(w)
        PROVE  \E b \in Batches : Ledger!Open(b)
    <2>1. PICK b \in Batches, status \in {"active", "paused"} :
            rows[b].status = "absent" /\ rows' = [rows EXCEPT ![b].status = status]
      BY <1>3 DEF Create
    <2>2. rows'[b].status = status /\ \A c \in Batches \ {b} : rows'[c] = rows[c]
      BY <2>1 DEF TypeInv, TypeOK, Row
    <2>3. LedgerState(rows[b].status) = "absent" /\ LedgerState(rows'[b].status) = "open"
      BY <2>1, <2>2, StatusStates DEF OpenStatuses
    <2>4. LedgerStates' = [LedgerStates EXCEPT ![b] = "open"]
      BY <2>2, <2>3, LedgerMoves
    <2>5. listed' = listed /\ accepted' = accepted
      BY <1>3 DEF Create
    <2> QED
      BY <2>3, <2>4, <2>5 DEF Ledger!Open, LedgerStates
  <1>4. ASSUME NEW w \in Workers, CreatePausesOthers(w) \/ Pause(w) \/ ResumeCommits(w)
        PROVE  UNCHANGED Ledger!ledgerVars
    <2>1. req[w].batch \in Batches /\ listed' = listed /\ accepted' = accepted
      BY <1>4, RequestType DEF CreatePausesOthers, Pause, ResumeCommits
    <2>2. ASSUME NEW b \in Batches
          PROVE  \/ rows'[b].status = rows[b].status
                 \/ rows[b].status \in OpenStatuses /\ rows'[b].status \in OpenStatuses
      <3>1. CASE CreatePausesOthers(w)
        <4>1. SetStatus(Others(w), "paused")
          BY <3>1 DEF CreatePausesOthers
        <4> QED
          BY <4>1, SetStatusRows DEF Others, ActiveRows, OpenStatuses
      <3>2. CASE Pause(w)
        <4>1. SetStatus({req[w].batch}, "paused") /\ rows[req[w].batch].status = "active"
          BY <3>2 DEF Pause, At, UpToDate, Accepts
        <4> QED
          BY <4>1, SetStatusRows DEF OpenStatuses
      <3>3. CASE ResumeCommits(w)
        <4>1. req[w].locked = Others(w) /\ rows[req[w].batch].status \in OpenStatuses
          BY <3>3 DEF ResumeCommits, At, UpToDate
        <4> QED
          BY <3>3, <4>1
             DEF ResumeCommits, Others, ActiveRows, OpenStatuses, TypeInv, TypeOK, Row
      <3> QED
        BY <1>4, <3>1, <3>2, <3>3
    <2> QED
      BY <2>1, <2>2, StatusStates, LedgerStutters
  <1>5. ASSUME NEW w \in Workers,
               ResumeLocksOthers(w) \/ CloseCounts(w) \/ CloseCollects(w)
        PROVE  UNCHANGED Ledger!ledgerVars
    <2>1. UNCHANGED <<rows, listed, accepted>>
      BY <1>5 DEF ResumeLocksOthers, CloseCounts, CloseCollects
    <2> QED
      BY <2>1, LedgerStutters
  <1>6. ASSUME NEW w \in Workers, NEW row \in Row, SaveAll(w, row),
               req[w].at = "loaded", row.status = req[w].row.status,
               listed' = listed, accepted' = accepted
        PROVE  UNCHANGED Ledger!ledgerVars
    <2>1. row.status = rows[req[w].batch].status
      BY <1>6 DEF UpToDate
    <2>2. \A b \in Batches : rows'[b].status = rows[b].status
      BY <1>6, <2>1, SaveAllRows
    <2> QED
      BY <1>6, <2>2, LedgerStutters
  <1>7. ASSUME NEW w \in Workers, CountSensor(w) PROVE UNCHANGED Ledger!ledgerVars
    <2> DEFINE row == [req[w].row EXCEPT !.sensor = @ + 1]
    <2>1. /\ SaveAll(w, row) /\ At(w, "sensor", "loaded")
          /\ listed' = listed /\ accepted' = accepted
      BY <1>7 DEF CountSensor
    <2>2. row \in Row /\ row.status = req[w].row.status
      <3>1. req[w].row \in Row /\ req[w].row.sensor < MaxSensor
        BY <2>1, RequestType DEF TypeInv, SensorFits
      <3>2. req[w].row.sensor + 1 \in 0 .. MaxSensor
        BY <3>1, BoundsAreNat DEF Row
      <3> QED
        BY <3>1, <3>2 DEF Row
    <2> HIDE DEF row
    <2> QED
      BY <1>6, <2>1, <2>2 DEF At
  <1>8. ASSUME NEW w \in Workers, Edit(w) PROVE UNCHANGED Ledger!ledgerVars
    <2> DEFINE row == [req[w].row EXCEPT !.status = req[w].row.status]
    <2>1. /\ SaveAll(w, row) /\ req[w].at = "loaded"
          /\ listed' = listed /\ accepted' = accepted
      BY <1>8 DEF Edit, At
    <2>2. row \in Row /\ row.status = req[w].row.status
      BY RequestType DEF Row
    <2> HIDE DEF row
    <2> QED
      BY <1>6, <2>1, <2>2
  <1>9. ASSUME NEW w \in Workers, CloseSaves(w) PROVE UNCHANGED Ledger!ledgerVars
    BY <1>6, <1>9, RequestType DEF CloseSaves, At
  <1>10. ASSUME NEW w \in Workers, AddBalloon(w) \/ RemoveBalloon(w)
         PROVE  UNCHANGED Ledger!ledgerVars \/ \E b \in Batches : Ledger!Change(b)
    <2> DEFINE b == req[w].batch
    <2>1. b \in Batches /\ req[w] \in Request /\ rows[b].status \in OpenStatuses
      BY <1>10, RequestType DEF AddBalloon, RemoveBalloon, At, UpToDate, Accepts,
                                OpenStatuses
    <2>2. \A c \in Batches : rows'[c].status = rows[c].status
      <3>1. rows' = rows \/ \E errors : rows' = [rows EXCEPT ![b].errors = errors]
        BY <1>10 DEF AddBalloon, RemoveBalloon
      <3> QED
        BY <2>1, <3>1, ErrorsOnly
    <2>3. /\ accepted' = accepted
          /\ listed' = listed \/ \E s \in SUBSET Balloons : listed' = [listed EXCEPT ![b] = s]
      <3>1. listed[b] \in SUBSET Balloons /\ req[w].balloons \in SUBSET Balloons
        BY <2>1 DEF TypeInv, TypeOK, Request
      <3>2. CASE AddBalloon(w)
        BY <3>1, <3>2 DEF AddBalloon
      <3>3. CASE RemoveBalloon(w)
        BY <3>1, <3>3 DEF RemoveBalloon
      <3> QED
        BY <1>10, <3>2, <3>3
    <2>4. CASE listed' = listed
      BY <2>2, <2>3, <2>4, LedgerStutters
    <2>5. CASE \E s \in SUBSET Balloons : listed' = [listed EXCEPT ![b] = s]
      <3>1. LedgerStates' = LedgerStates /\ LedgerStates[b] = "open"
        BY <2>1, <2>2, StatusStates DEF LedgerStates
      <3>2. Ledger!Change(b)
        BY <2>3, <2>5, <3>1 DEF Ledger!Change, LedgerStates
      <3> QED
        BY <2>1, <3>2
    <2> QED
      BY <2>3, <2>4, <2>5
  <1>11. ASSUME NEW w \in Workers, CloseReports(w)
         PROVE  \E b \in Batches : Ledger!Report(b)
    <2> DEFINE b == req[w].batch
    <2>1. /\ b \in Batches /\ rows[b].status \in OpenStatuses /\ listed' = listed
          /\ req[w].tags = listed[b]
      BY <1>11, RequestType DEF CloseReports, At, UpToDate
    <2>2. PICK outcome \in [req[w].tags -> PostOutcomes] :
            /\ accepted' = [accepted EXCEPT ![b] =
                              @ \cup {n \in req[w].tags : outcome[n] # "refused"}]
            /\ rows' = [rows EXCEPT ![b].errors =
                          {n \in req[w].tags : outcome[n] # "ok"}]
      BY <1>11 DEF CloseReports
    <2>3. \A c \in Batches : rows'[c].status = rows[c].status
      BY <2>1, <2>2, ErrorsOnly
    <2>4. LedgerStates' = LedgerStates /\ LedgerStates[b] = "open"
      BY <2>1, <2>3, StatusStates DEF LedgerStates
    <2>5. \E s \in SUBSET listed[b] : accepted' = [accepted EXCEPT ![b] = @ \cup s]
      BY <2>1, <2>2
    <2>6. Ledger!Report(b)
      BY <2>1, <2>4, <2>5 DEF Ledger!Report, LedgerStates
    <2> QED
      BY <2>1, <2>6
  <1>12. ASSUME NEW w \in Workers, CloseFails(w) PROVE UNCHANGED Ledger!ledgerVars
    <2> DEFINE b == req[w].batch
    <2>1. /\ b \in Batches /\ rows[b] \in Row /\ rows[b].status \in OpenStatuses
          /\ listed' = listed /\ accepted' = accepted
      BY <1>12, RequestType DEF CloseFails, At, UpToDate, TypeInv, TypeOK
    <2> DEFINE row == [rows[b] EXCEPT !.status = "miriada_error", !.failed = TRUE]
    <2>2. row.status = "miriada_error"
      BY <2>1 DEF Row
    <2>3. rows' = [rows EXCEPT ![b] = row]
      BY <1>12 DEF CloseFails
    <2> HIDE DEF row
    <2>4. \A c \in Batches \ {b} : rows'[c] = rows[c]
      BY <2>1, <2>3 DEF TypeInv, TypeOK
    <2>5. rows'[b].status \in OpenStatuses
      BY <2>1, <2>2, <2>3 DEF TypeInv, TypeOK, OpenStatuses
    <2> QED
      BY <2>1, <2>4, <2>5, StatusStates, LedgerStutters
  <1>13. ASSUME NEW w \in Workers, CloseEnds(w)
         PROVE  UNCHANGED Ledger!ledgerVars \/ \E b \in Batches : Ledger!Finish(b)
    <2> DEFINE b == req[w].batch
    <2>1. /\ b \in Batches /\ rows[b] \in Row /\ rows[b].status \in OpenStatuses
          /\ listed' = listed /\ accepted' = accepted /\ listed[b] \subseteq accepted[b]
      BY <1>13, RequestType DEF CloseEnds, At, UpToDate, TypeInv, TypeOK
    <2>2. PICK success \in BOOLEAN :
            rows' = [rows EXCEPT ![b] =
              [rows[b] EXCEPT !.errors = {}, !.failed = ~ success,
                 !.status = IF success THEN "completed" ELSE "miriada_error"]]
      BY <1>13 DEF CloseEnds
    <2> DEFINE row == [rows[b] EXCEPT !.errors = {}, !.failed = ~ success,
                         !.status = IF success THEN "completed" ELSE "miriada_error"]
    <2>3. row.status = IF success THEN "completed" ELSE "miriada_error"
      BY <2>1 DEF Row
    <2>4. rows' = [rows EXCEPT ![b] = row]
      BY <2>2
    <2> HIDE DEF row
    <2>5. rows'[b].status = row.status /\ \A c \in Batches \ {b} : rows'[c] = rows[c]
      BY <2>1, <2>4 DEF TypeInv, TypeOK
    <2>6. CASE ~ success
      <3>1. rows'[b].status \in OpenStatuses
        BY <2>3, <2>5, <2>6 DEF OpenStatuses
      <3> QED
        BY <2>1, <2>5, <3>1, StatusStates, LedgerStutters
    <2>7. CASE success
      <3>1. LedgerState(rows'[b].status) = "done" /\ LedgerState(rows[b].status) = "open"
        BY <2>1, <2>3, <2>5, <2>7, StatusStates
      <3>2. LedgerStates' = [LedgerStates EXCEPT ![b] = "done"]
        BY <2>1, <2>5, <3>1, LedgerMoves
      <3>3. Ledger!Finish(b)
        BY <2>1, <3>1, <3>2 DEF Ledger!Finish, LedgerStates
      <3> QED
        BY <2>1, <3>3
    <2> QED
      BY <2>6, <2>7
  <1> QED
    BY <1>1, <1>2, <1>3, <1>4, <1>5, <1>7, <1>8, <1>9, <1>10, <1>11, <1>12, <1>13
       DEF Next, Serve, Finished, Ledger!Next

\* A register that serves its requests one after the other, and whose forms
\* set no status, is the ledger of BalloonLedger.
THEOREM KeepsLedgerHolds == Serial /\ EditStatuses = {} => (Spec => KeepsLedger)
  <1> SUFFICES ASSUME Serial, EditStatuses = {} PROVE Spec => KeepsLedger
    OBVIOUS
  <1>1. Init => Ledger!Init
    <2> SUFFICES ASSUME Init PROVE Ledger!Init
      OBVIOUS
    <2>1. \A b \in Batches : LedgerState(rows[b].status) = "absent"
      BY StatusStates DEF Init, Blank
    <2> QED
      BY <2>1 DEF Init, Ledger!Init
  <1>2. SerialInv /\ [Next]_vars => [Ledger!Next]_(Ledger!ledgerVars)
    <2>1. CASE UNCHANGED vars
      BY <2>1, LedgerStutters DEF vars
    <2> QED
      BY <2>1, LedgerStep
  <1>3. SerialInv /\ [Next]_vars => SerialInv'
    BY SerialStep
  <1> QED
    BY <1>1, <1>2, <1>3, SerialInit, PTL DEF Spec, KeepsLedger, Ledger!Spec
=============================================================================
