---------------------------- MODULE BalloonBatches ----------------------------
(***************************************************************************)
(* The batches of one RFID reader of the frame (3, 4 or 6) on one day, and *)
(* the requests that work on them at the same time: the operators' mobile  *)
(* API and web forms (filling_station/api/balloon_batches.py, views.py),   *)
(* the process of the RFID reader (services/rfid.py), and the services     *)
(* they call (services/batches.py, class BalloonsBatch of models.py).      *)
(*                                                                         *)
(* A request loads its row without a lock, decides on that copy, and       *)
(* writes later, either single columns (save(update_fields=...)) or the    *)
(* whole copy (save()).  Every statement of the database is one step.      *)
(* Only resume runs more than one statement in a transaction; its row      *)
(* locks are modelled.  (A deadlock of three resumes, which the database    *)
(* breaks by an error, is one of the steps Die.)                           *)
(***************************************************************************)
EXTENDS Naturals, FiniteSets

CONSTANTS
  Balloons,       \* NFC tags
  Workers,        \* threads and processes that serve a request at a time
  MaxBatches,     \* bound: rows
  MaxRequests,    \* bound: requests that are begun
  MaxSensor,      \* bound: amount_of_sensor
  Ttn,            \* amount_of_ttn, 0: not given
  Cages,          \* batches whose truck is a "Kletevoz": their TTN is not closed
  EditStatuses,   \* statuses that an edit of the row may set
  Faults          \* kinds of failures that may happen

Batches == 1 .. MaxBatches

FaultKinds == {"refused", "lost", "unprepared", "crash"}

OpenStatuses == {"active", "paused", "miriada_error"}
Statuses == OpenStatuses \cup {"absent", "completed"}

ASSUME BoundsAreNat ==
  MaxBatches \in Nat \ {0} /\ MaxRequests \in Nat /\ MaxSensor \in Nat
ASSUME TtnIsNat == Ttn \in Nat
ASSUME SetsAreKnown ==
  /\ IsFiniteSet(Balloons)
  /\ Cages \subseteq Batches
  /\ EditStatuses \subseteq Statuses \ {"absent"}
  /\ Faults \subseteq FaultKinds

VARIABLES
  rows,      \* table BalloonsBatch
  listed,    \* its balloon_list
  accepted,  \* balloon statuses that Miriada took for the batch
  closed,    \* has Miriada closed the TTN of the batch?
  req,       \* the request each worker serves
  begun      \* requests begun so far

vars == <<rows, listed, accepted, closed, req, begun>>

Row == [status : Statuses, sensor : 0 .. MaxSensor,
        failed : BOOLEAN,             \* miriada_close_failed
        errors : SUBSET Balloons]     \* miriada_status_errors

Kinds == {"pause", "resume", "scan", "sensor", "add", "remove", "edit", "close"}

\* How far a request is.
Places == {"idle", "loaded", "inserted", "locked", "saved", "counted",
           "collected", "failed", "reported"}

\* `row` is the copy the request works on, `tags` the balloon_list that a
\* closing request has read, `locked` the rows its transaction has updated.
Request == [kind : Kinds \cup {"create", "none"},
            at : Places, batch : Batches, row : Row, balloons : SUBSET Balloons,
            tags : SUBSET Balloons, locked : SUBSET Batches]

\* Type invariant.
TypeOK ==
  /\ rows \in [Batches -> Row]
  /\ listed \in [Batches -> SUBSET Balloons]
  /\ accepted \in [Batches -> SUBSET Balloons]
  /\ closed \in [Batches -> BOOLEAN]
  /\ req \in [Workers -> Request]
  /\ begun \in 0 .. MaxRequests

Blank == [status |-> "absent", sensor |-> 0, failed |-> FALSE, errors |-> {}]

Idle == [kind |-> "none", at |-> "idle", batch |-> 1, row |-> Blank,
         balloons |-> {}, tags |-> {}, locked |-> {}]

Init ==
  /\ rows = [b \in Batches |-> Blank]
  /\ listed = [b \in Batches |-> {}]
  /\ accepted = [b \in Batches |-> {}]
  /\ closed = [b \in Batches |-> FALSE]
  /\ req = [w \in Workers |-> Idle]
  /\ begun = 0

-----------------------------------------------------------------------------
(* Helpers.                                                                *)

At(w, kind, place) == req[w].kind = kind /\ req[w].at = place

Answer(w) == req' = [req EXCEPT ![w] = Idle]

Go(w, place) == req' = [req EXCEPT ![w].at = place]

\* No transaction of another worker holds a lock on the rows of S.
Free(w, S) == \A v \in Workers \ {w} : req[v].locked \cap S = {}

ActiveRows == {b \in Batches : rows[b].status = "active"}

\* BalloonsBatch.save keeps miriada_close_failed in step with the status.
Saved(row) ==
  [row EXCEPT !.failed = CASE row.status = "miriada_error" -> TRUE
                           [] row.status = "completed"     -> FALSE
                           [] OTHER                        -> @]

\* save(): every column of the copy is written.
SaveAll(w, row) ==
  /\ Free(w, {req[w].batch})
  /\ rows' = [rows EXCEPT ![req[w].batch] = Saved(row)]

\* Mutant: update() writes a value that is none of the choices.
SetStatusMisspelt(S, status) ==
  rows' = [b \in Batches |->
             IF b \in S THEN [rows[b] EXCEPT !.status = "pause"] ELSE rows[b]]

\* save(update_fields=['status']), and QuerySet.update(status=...)
SetStatus(S, status) ==
  rows' = [b \in Batches |->
             IF b \in S THEN [rows[b] EXCEPT !.status = status] ELSE rows[b]]

-----------------------------------------------------------------------------
(* A request begins: get_object_or_404, or the reader's active batch, and  *)
(* the status of the copy is looked at.  A request that is refused here    *)
(* changes nothing and is left out.                                        *)

\* Mutant: a completed batch can be edited as well.
AcceptsCompleted(kind) ==
  CASE kind \in {"pause", "scan", "sensor"}    -> {"active"}
    [] kind = "resume"                         -> {"paused"}
    [] kind = "close"                          -> OpenStatuses
    [] kind \in {"add", "remove", "edit"}      -> Statuses \ {"absent"}

\* accepts_rfid, accepts_manual_edits, and the checks of pause, resume,
\* partial_update and retry_close.
Accepts(kind) ==
  CASE kind \in {"pause", "scan", "sensor"}    -> {"active"}
    [] kind = "resume"                         -> {"paused"}
    [] kind \in {"add", "remove", "close"}     -> OpenStatuses
    [] kind = "edit"                           -> Statuses \ {"absent"}

\* get_active_batch_for_reader: ordering = ['-started_at'], first().
ReadersBatch(b) == b \in ActiveRows /\ \A c \in ActiveRows : c <= b

Begin(w, kind, b, S) ==
  /\ req[w].at = "idle" /\ begun < MaxRequests
  /\ rows[b].status \in Accepts(kind)
  /\ kind \in {"scan", "sensor"} => ReadersBatch(b)
  /\ kind = "sensor" => rows[b].sensor < MaxSensor
  /\ req' = [req EXCEPT ![w] =
       [kind |-> kind, at |-> "loaded", batch |-> b, row |-> rows[b],
        balloons |-> S, tags |-> {}, locked |-> {}]]
  /\ begun' = begun + 1
  /\ UNCHANGED <<rows, listed, accepted, closed>>

BeginStatus(w) ==
  \E b \in Batches, kind \in {"pause", "resume"} : Begin(w, kind, b, {})

\* partial_update: a close asked for a batch in error is an edit of its row.
BeginUpdate(w) ==
  \E b \in Batches :
    \/ rows[b].status # "miriada_error" /\ Begin(w, "close", b, {})
    \/ Begin(w, "edit", b, {})

\* retry_close
BeginRetry(w) == \E b \in Batches : Begin(w, "close", b, {})

\* The operator's add-balloon and remove-balloon.
BeginContent(w) ==
  \E b \in Batches, kind \in {"add", "remove"}, n \in Balloons :
    Begin(w, kind, b, {n})

\* The reader: a balloon with a tag, or the optical sensor.
BeginScan(w) ==
  \E b \in Batches :
    \/ Begin(w, "sensor", b, {})
    \/ \E n \in Balloons : Begin(w, "scan", b, {n})

BeginSome(w) ==
  \/ BeginStatus(w) \/ BeginUpdate(w) \/ BeginRetry(w)
  \/ BeginContent(w) \/ BeginScan(w)

-----------------------------------------------------------------------------
(* create: INSERT, then the UPDATE of the other rows, each committed.      *)

Create(w) ==
  /\ req[w].at = "idle" /\ begun < MaxRequests
  /\ \E b \in Batches, status \in {"active", "paused"} :
       /\ rows[b].status = "absent"
       /\ \A c \in 1 .. (b - 1) : rows[c].status # "absent"
       /\ rows' = [rows EXCEPT ![b].status = status]
       /\ req' = IF status = "active"
                   THEN [req EXCEPT ![w] = [Idle EXCEPT !.kind = "create",
                                              !.at = "inserted", !.batch = b]]
                   ELSE req
  /\ begun' = begun + 1
  /\ UNCHANGED <<listed, accepted, closed>>

\* pause_other_active_batches_on_reader
Others(w) == ActiveRows \ {req[w].batch}

CreatePausesOthers(w) ==
  /\ At(w, "create", "inserted")
  /\ Free(w, Others(w))
  /\ SetStatus(Others(w), "paused")
  /\ Answer(w)
  /\ UNCHANGED <<listed, accepted, closed, begun>>

-----------------------------------------------------------------------------
(* pause and resume.                                                       *)

Pause(w) ==
  /\ At(w, "pause", "loaded")
  /\ Free(w, {req[w].batch})
  /\ SetStatus({req[w].batch}, "paused")
  /\ Answer(w)
  /\ UNCHANGED <<listed, accepted, closed, begun>>

\* Mutant: the other batches of the reader are forgotten.
ResumeLocksNone(w) ==
  /\ At(w, "resume", "loaded")
  /\ Go(w, "locked")
  /\ UNCHANGED <<rows, listed, accepted, closed, begun>>

\* The first statement of the transaction: the rows it updates are locked
\* and nobody sees the update before the transaction ends.
ResumeLocksOthers(w) ==
  /\ At(w, "resume", "loaded")
  /\ Free(w, Others(w))
  /\ req' = [req EXCEPT ![w].at = "locked", ![w].locked = Others(w)]
  /\ UNCHANGED <<rows, listed, accepted, closed, begun>>

ResumeCommits(w) ==
  /\ At(w, "resume", "locked")
  /\ Free(w, {req[w].batch})
  /\ rows' = [b \in Batches |->
       IF b = req[w].batch THEN [rows[b] EXCEPT !.status = "active"]
       ELSE IF b \in req[w].locked THEN [rows[b] EXCEPT !.status = "paused"]
       ELSE rows[b]]
  /\ Answer(w)
  /\ UNCHANGED <<listed, accepted, closed, begun>>

-----------------------------------------------------------------------------
(* The content of a batch.                                                 *)

\* add_balloon with an NFC tag, scanned by the reader or sent by an operator.
AddBalloon(w) ==
  /\ At(w, "scan", "loaded") \/ At(w, "add", "loaded")
  /\ listed' = [listed EXCEPT ![req[w].batch] = @ \cup req[w].balloons]
  /\ Answer(w)
  /\ UNCHANGED <<rows, accepted, closed, begun>>

\* add_balloon without a tag, for the optical sensor: save() of the copy.
CountSensor(w) ==
  /\ At(w, "sensor", "loaded")
  /\ SaveAll(w, [req[w].row EXCEPT !.sensor = @ + 1])
  /\ Answer(w)
  /\ UNCHANGED <<listed, accepted, closed, begun>>

\* Mutant: the error of a removed balloon is kept.
RemoveKeepsError(w) ==
  /\ At(w, "remove", "loaded")
  /\ listed' = [listed EXCEPT ![req[w].batch] = @ \ req[w].balloons]
  /\ Answer(w)
  /\ UNCHANGED <<rows, accepted, closed, begun>>

\* remove_balloon, with the error kept for it in the copy.
RemoveBalloon(w) ==
  /\ At(w, "remove", "loaded")
  /\ LET b == req[w].batch
         known == req[w].row.errors
     IN IF req[w].balloons \subseteq listed[b]
          THEN /\ listed' = [listed EXCEPT ![b] = @ \ req[w].balloons]
               /\ IF req[w].balloons \cap known # {}
                    THEN /\ Free(w, {b})
                         /\ rows' = [rows EXCEPT ![b].errors =
                                       known \ req[w].balloons]
                    ELSE UNCHANGED rows
          ELSE UNCHANGED <<rows, listed>>
  /\ Answer(w)
  /\ UNCHANGED <<accepted, closed, begun>>

\* partial_update that does not close, and the web form: save() of the copy,
\* with or without another status.
Edit(w) ==
  /\ At(w, "edit", "loaded")
  /\ \E status \in EditStatuses \cup {req[w].row.status} :
       SaveAll(w, [req[w].row EXCEPT !.status = status])
  /\ Answer(w)
  /\ UNCHANGED <<listed, accepted, closed, begun>>

-----------------------------------------------------------------------------
(* save_and_close_balloons_batch.                                          *)

\* The request carries fields: save() of the copy, refresh_from_db.
CloseSaves(w) ==
  /\ At(w, "close", "loaded")
  /\ SaveAll(w, req[w].row)
  /\ req' = [req EXCEPT ![w].at = "saved", ![w].row = rows'[req[w].batch]]
  /\ UNCHANGED <<listed, accepted, closed, begun>>

RfidBalloonCount(b) == Cardinality(listed[b])

CountMismatch(b) == Ttn # 0 /\ RfidBalloonCount(b) # Ttn

\* Mutant: the comparison with the TTN is forgotten.
CloseCountsNothing(w) ==
  /\ At(w, "close", "loaded") \/ At(w, "close", "saved")
  /\ Go(w, "counted")
  /\ UNCHANGED <<rows, listed, accepted, closed, begun>>

\* rfid_balloon_count is compared with amount_of_ttn.
CloseCounts(w) ==
  /\ At(w, "close", "loaded") \/ At(w, "close", "saved")
  /\ IF CountMismatch(req[w].batch)
       THEN Answer(w)
       ELSE Go(w, "counted")
  /\ UNCHANGED <<rows, listed, accepted, closed, begun>>

\* No truck, no type of it, or an unknown kind of balloons: then the payload of
\* the first tag is an error, and nothing is sent.
Unprepared(b) == "unprepared" \in Faults /\ listed[b] # {}

\* send_batch_balloon_statuses_to_miriada reads the tags in a query of its own
\* and prepares their payloads.
CloseCollects(w) ==
  /\ At(w, "close", "counted")
  /\ \/ req' = [req EXCEPT ![w].at = "collected",
                           ![w].tags = listed[req[w].batch]]
     \/ Unprepared(req[w].batch) /\ Go(w, "failed")
  /\ UNCHANGED <<rows, listed, accepted, closed, begun>>

\* post_status_to_miriada: confirmed, refused, or taken with its answer lost.
\* Only a timeout is tried again; the last two end as errors.
PostOutcomes == {"ok"} \cup (Faults \cap {"refused", "lost"})

\* All tags are posted, and the errors are saved.
CloseReports(w) ==
  /\ At(w, "close", "collected")
  /\ Free(w, {req[w].batch})
  /\ \E outcome \in [req[w].tags -> PostOutcomes] :
       LET b == req[w].batch
           taken == {n \in req[w].tags : outcome[n] # "refused"}
           errors == {n \in req[w].tags : outcome[n] # "ok"}
       IN /\ accepted' = [accepted EXCEPT ![b] = @ \cup taken]
          /\ rows' = [rows EXCEPT ![b].errors = errors]
          /\ Go(w, IF errors = {} THEN "reported" ELSE "failed")
  /\ UNCHANGED <<listed, closed, begun>>

\* Mutant: miriada_close_failed is missing in update_fields.
CloseFailsUnflagged(w) ==
  /\ At(w, "close", "failed")
  /\ Free(w, {req[w].batch})
  /\ SetStatus({req[w].batch}, "miriada_error")
  /\ Answer(w)
  /\ UNCHANGED <<listed, accepted, closed, begun>>

\* _mark_batch_close_failed
CloseFails(w) ==
  /\ At(w, "close", "failed")
  /\ Free(w, {req[w].batch})
  /\ rows' = [rows EXCEPT ![req[w].batch].status = "miriada_error",
                          ![req[w].batch].failed = TRUE]
  /\ Answer(w)
  /\ UNCHANGED <<listed, accepted, closed, begun>>

\* close_ttn_in_miriada: confirmed, refused, or done with its answer lost.
CloseOutcomes(b) ==
  IF b \in Cages THEN {"not_sent"}
  ELSE {"ok"} \cup (Faults \cap {"refused", "lost"})

\* Mutant: the answer of closettn is not looked at.
CloseEndsAnyway(w) ==
  /\ At(w, "close", "reported")
  /\ LET b == req[w].batch
     IN \E outcome \in CloseOutcomes(b) :
          /\ closed' = [closed EXCEPT ![b] = @ \/ outcome \in {"ok", "lost"}]
          /\ rows' = [rows EXCEPT ![b].errors = {}, ![b].failed = FALSE,
                                  ![b].status = "completed"]
  /\ Answer(w)
  /\ UNCHANGED <<listed, accepted, begun>>

\* The TTN is closed, and the outcome is saved.
CloseEnds(w) ==
  /\ At(w, "close", "reported")
  /\ LET b == req[w].batch
     IN /\ Free(w, {b})
        /\ \E outcome \in CloseOutcomes(b) :
             LET success == outcome \in {"ok", "not_sent"}
             IN /\ closed' = [closed EXCEPT ![b] = @ \/ outcome \in {"ok", "lost"}]
                /\ rows' = [rows EXCEPT ![b].errors = {}, ![b].failed = ~ success,
                     ![b].status = IF success THEN "completed" ELSE "miriada_error"]
  /\ Answer(w)
  /\ UNCHANGED <<listed, accepted, begun>>

-----------------------------------------------------------------------------
\* The process dies or the statement fails: the transaction is rolled back,
\* what was committed before stays.
Die(w) ==
  /\ "crash" \in Faults
  /\ req[w].at # "idle"
  /\ Answer(w)
  /\ UNCHANGED <<rows, listed, accepted, closed, begun>>

\* All requests are answered: the only state without a step to take.
Finished ==
  /\ begun = MaxRequests
  /\ \A w \in Workers : req[w].at = "idle"
  /\ UNCHANGED vars

Serve(w) ==
  \/ CreatePausesOthers(w)
  \/ Pause(w) \/ ResumeLocksOthers(w) \/ ResumeCommits(w)
  \/ AddBalloon(w) \/ CountSensor(w) \/ RemoveBalloon(w) \/ Edit(w)
  \/ CloseSaves(w) \/ CloseCounts(w) \/ CloseCollects(w) \/ CloseReports(w)
  \/ CloseFails(w) \/ CloseEnds(w)

Next ==
  \/ \E w \in Workers : BeginSome(w) \/ Create(w) \/ Serve(w) \/ Die(w)
  \/ Finished

Spec == Init /\ [][Next]_vars

-----------------------------------------------------------------------------
(* Properties.                                                             *)

\* While no request is between two of its steps, at most one batch of the
\* reader is active: create and resume put the others on pause.
OneActive ==
  (\A w \in Workers : req[w].at = "idle") => Cardinality(ActiveRows) <= 1

\* The errors kept for a batch are about balloons that are still in it, and a
\* completed batch has none.
ErrorsAreListed ==
  \A b \in Batches :
    /\ rows[b].errors \subseteq listed[b]
    /\ rows[b].status = "completed" => rows[b].errors = {}

\* When the TTN of a batch has been closed, Miriada has taken the statuses of
\* as many balloons as the TTN names.
TtnIsBacked ==
  \A b \in Batches : closed[b] => Cardinality(accepted[b]) >= Ttn

\* However requests overtake each other and overwrite each other's columns, a
\* completed batch is one whose TTN was closed (or must not be closed).
CompletedWasClosed ==
  \A b \in Batches :
    rows[b].status = "completed" => closed[b] \/ b \in Cages

\* miriada_close_failed, which lists and the retry button go by, never
\* disagrees with the status, although steps write either without the other.
FlagAgrees ==
  \A b \in Batches :
    /\ rows[b].status = "miriada_error" => rows[b].failed
    /\ rows[b].status = "completed" => ~ rows[b].failed

LedgerState(status) ==
  CASE status = "absent"          -> "absent"
    [] status = "completed"       -> "done"
    [] status \in OpenStatuses    -> "open"

Ledger == INSTANCE BalloonLedger
  WITH state <- [b \in Batches |-> LedgerState(rows[b].status)],
       content <- listed, reported <- accepted

\* A register whose requests are served one after the other is a ledger: a
\* batch is completed with every balloon reported, and stays as it is then.
KeepsLedger == Ledger!Spec

=============================================================================
