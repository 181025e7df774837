------------------------------ MODULE TtnFiles ------------------------------
(***************************************************************************)
(* Consignment notes (TTN) and the file for 1C (ttn/services.py, forms,    *)
(* views, tasks, generate_1c_file.py).                                     *)
(*                                                                         *)
(* A form saves a note with the amounts of its batch or tanks at that time *)
(* and has a task queued when its transaction commits.  The task collects  *)
(* the notes with that number and the balloon notes of the day, writes the *)
(* file of the day, which all tasks of the day share, and mails what the   *)
(* file holds then.                                                        *)
(*                                                                         *)
(* The amounts behind a note are a version, which grows by each weighing;  *)
(* what a file says of a note is the version that it shows.  Each balloon  *)
(* note has a batch of its own here.                                       *)
(***************************************************************************)
EXTENDS Mishaps, Sequences

CONSTANTS
  Notes,         \* the notes, of all three kinds
  Kind,          \* function: note to "railway", "auto" or "balloon"
  Numbers,       \* numbers typed into the forms
  Workers,
  MaxForms,      \* bound: forms saved or notes deleted
  MaxVersion     \* bound: weighings of a batch

ASSUME NoteKinds == Kind \in [Notes -> {"railway", "auto", "balloon"}]
ASSUME TtnBounds == MaxForms \in Nat /\ MaxVersion \in Nat

VARIABLES
  amounts,       \* batches and tank histories: version of the amounts, 0: none
  notes,         \* tables of notes: id, number and version of the totals
  form,          \* the transaction of a form
  tasks,         \* queue: numbers
  work,          \* what a worker is doing
  file,          \* the file of the day
  mails,
  forms          \* bound

ttnVars == <<amounts, notes, form, tasks, work, file, mails, forms>>

\* Rows have ids from 1 on.
NoNote == [id |-> 0, number |-> "none", totals |-> 0]
Empty == {}
Free == [pc |-> "free", number |-> "none", lists |-> Empty]
NoForm == [note |-> "none", row |-> NoNote]

TtnInit ==
  /\ amounts \in [Notes -> {0, 1}]
  /\ notes = [d \in Notes |-> NoNote]
  /\ form = NoForm /\ tasks = <<>> /\ work = [w \in Workers |-> Free]
  /\ file = Empty /\ mails = {} /\ forms = 0

Saved == {d \in Notes : notes[d] # NoNote}

\* Somebody weighs, or corrects the weights of a tank's history.
Weigh(d) ==
  /\ amounts[d] < MaxVersion /\ amounts' = [amounts EXCEPT ![d] = @ + 1]
  /\ Smooth /\ UNCHANGED <<notes, form, tasks, work, file, mails, forms>>

-----------------------------------------------------------------------------
(* The form of a note: the row is written in a transaction.  Without a     *)
(* weighed batch, or tanks, nothing is attached to it and the totals are 0.*)
(* A number may be another note's by mistake.                              *)

\* Mutant: the task is queued at once, and may run before the commit.
EnqueuedAtOnce(stage, n) == IF stage = "write" THEN Append(tasks, n) ELSE tasks

\* The task is queued when the transaction has committed.
Enqueued(stage, n) == IF stage = "commit" THEN Append(tasks, n) ELSE tasks

\* What is behind a note now.
Totals(d) == amounts[d]

\* A row that is new gets an id that none had before it.
Id(d) == IF d \in Saved THEN notes[d].id ELSE forms'

SaveForm(d) ==
  /\ form = NoForm /\ forms < MaxForms /\ forms' = forms + 1
  /\ \E n \in Numbers :
       /\ form' = [note |-> d,
                   row |-> [id |-> Id(d), number |-> n, totals |-> Totals(d)]]
       /\ IF \E e \in Saved \ {d} : notes[e].number = n /\ Kind[e] = Kind[d]
          THEN Slip("duplicate") ELSE Smooth
       /\ tasks' = Enqueued("write", n)
  /\ UNCHANGED <<amounts, notes, work, file, mails>>

Write(d, row) == notes' = [notes EXCEPT ![d] = row]

\* The row is there, and the task is queued, unless the broker is gone.
Commit ==
  /\ form # NoForm /\ form' = NoForm
  /\ Write(form.note, form.row)
  /\ \/ tasks' = Enqueued("commit", form.row.number) /\ Smooth
     \/ tasks' = tasks /\ Slip("broker")
  /\ UNCHANGED <<amounts, work, file, mails, forms>>

Delete(d) ==
  /\ d \in Saved /\ form = NoForm /\ forms < MaxForms /\ forms' = forms + 1
  /\ notes' = [notes EXCEPT ![d] = NoNote]
  /\ Smooth /\ UNCHANGED <<amounts, form, tasks, work, file, mails>>

-----------------------------------------------------------------------------
(* The task.                                                               *)

Step(w, job) == work' = [work EXCEPT ![w] = job]

\* Tasks run side by side only by mischance: two forms within seconds.
Take(w) ==
  /\ tasks # <<>> /\ work[w] = Free
  /\ Step(w, [pc |-> "numbered", number |-> Head(tasks), lists |-> Empty])
  /\ tasks' = Tail(tasks)
  /\ IF \E u \in Workers : work[u] # Free THEN Slip("overlap") ELSE Smooth
  /\ UNCHANGED <<amounts, notes, form, file, mails, forms>>

\* Of several notes of a kind that have the number, the newest one.
LatestByNumber(kind, n) ==
  LET same == {d \in Saved : Kind[d] = kind /\ notes[d].number = n}
  IN  {d \in same : \A e \in same : notes[e].id <= notes[d].id}

\* A note that nothing is attached to is left out.
Shows(ds) == {<<d, amounts[d]>> : d \in {e \in ds : notes[e].totals > 0}}

\* Railway and auto notes of the number.
CollectNumbered(w) ==
  /\ work[w].pc = "numbered"
  /\ LET n == work[w].number
         found == LatestByNumber("railway", n) \cup LatestByNumber("auto", n)
     IN Step(w, [pc |-> "balloons", number |-> n, lists |-> Shows(found)])
  /\ Smooth /\ UNCHANGED <<amounts, notes, form, tasks, file, mails, forms>>

\* The balloon notes of the day, whatever their number.
CollectBalloons(w) ==
  /\ work[w].pc = "balloons"
  /\ LET today == {d \in Saved : Kind[d] = "balloon"}
     IN Step(w, [work[w] EXCEPT !.pc = "open", !.lists = @ \cup Shows(today)])
  /\ Smooth /\ UNCHANGED <<amounts, notes, form, tasks, file, mails, forms>>

\* Opening the file empties it; without a path there is none, and no mail.
Open(w) ==
  /\ work[w].pc = "open"
  /\ \/ file' = Empty /\ Step(w, [work[w] EXCEPT !.pc = "close"]) /\ Smooth
     \/ file' = file /\ Step(w, Free) /\ Slip("path")
  /\ UNCHANGED <<amounts, notes, form, tasks, mails, forms>>

Close(w) ==
  /\ work[w].pc = "close"
  /\ file' = work[w].lists /\ Step(w, [work[w] EXCEPT !.pc = "mail"])
  /\ Smooth /\ UNCHANGED <<amounts, notes, form, tasks, mails, forms>>

\* The mail has the file as it is by now.
Mail(w) ==
  /\ work[w].pc = "mail" /\ Step(w, Free)
  /\ \/ mails' = mails \cup {[number |-> work[w].number, lists |-> file]} /\ Smooth
     \/ mails' = mails /\ Slip("smtp")
  /\ UNCHANGED <<amounts, notes, form, tasks, file, forms>>

\* A worker dies; its task was acknowledged when it was taken.
Die(w) ==
  /\ work[w] # Free /\ Step(w, Free) /\ Slip("killed")
  /\ UNCHANGED <<amounts, notes, form, tasks, file, mails, forms>>

Task(w) ==
  \/ Take(w) \/ CollectNumbered(w) \/ CollectBalloons(w)
  \/ Open(w) \/ Close(w) \/ Mail(w)

TtnNext ==
  \/ \E d \in Notes : Weigh(d) \/ SaveForm(d) \/ Delete(d)
  \/ Commit
  \/ \E w \in Workers : Task(w) \/ Die(w)

TtnSpec == MishapInit /\ TtnInit /\ [][TtnNext]_<<mishapVars, ttnVars>>

-----------------------------------------------------------------------------
\* When there is nothing left to do, every note that is saved with a
\* batch or tanks has been mailed under its number, with amounts that are not
\* older than its totals (services.py: the task is queued on commit;
\* generate_1c_file.py).
SavedIsMailed ==
  (/\ mishaps \cap {"duplicate", "broker", "overlap", "path", "smtp", "killed"} = {}
   /\ form = NoForm /\ tasks = <<>> /\ work = [w \in Workers |-> Free])
  => \A d \in {e \in Saved : notes[e].totals > 0} : \E m \in mails :
       m.number = notes[d].number /\ \E p \in m.lists : p[1] = d /\ p[2] >= notes[d].totals
=============================================================================
