--------------------------- MODULE Station_proofs ---------------------------
(***************************************************************************)
(* Theorems about four parts of the station that share no state: TtnFiles, *)
(* for every number of notes, forms and workers, FrameStream, for every    *)
(* size of a frame and every timeout, Checkpoint, for every number of      *)
(* vehicles and minutes, and VehicleChoice, for all tables of vehicles.    *)
(***************************************************************************)
EXTENDS TtnFiles, FrameStream, Checkpoint, VehicleChoice, SequenceTheorems,
        FiniteSetTheorems, WellFoundedInduction, TLAPS

Among(x, s) == \E i \in DOMAIN s : s[i] = x

LEMMA Appended ==
  ASSUME NEW S, NEW s \in Seq(S), NEW e \in S
  PROVE  /\ Append(s, e) \in Seq(S)
         /\ \A x : Among(x, Append(s, e)) <=> Among(x, s) \/ x = e
  <1>1. /\ Append(s, e) \in Seq(S)
        /\ Len(s) \in Nat /\ Len(Append(s, e)) = Len(s) + 1
        /\ DOMAIN s = 1 .. Len(s) /\ DOMAIN Append(s, e) = 1 .. Len(s) + 1
        /\ \A i \in 1 .. Len(s) : Append(s, e)[i] = s[i]
        /\ Append(s, e)[Len(s) + 1] = e
    BY AppendProperties
  <1> QED
    BY <1>1 DEF Among

LEMMA Shortened ==
  ASSUME NEW S, NEW s \in Seq(S), s # <<>>
  PROVE  /\ Tail(s) \in Seq(S) /\ Head(s) \in S
         /\ \A x : Among(x, s) => x = Head(s) \/ Among(x, Tail(s))
  <1>1. /\ Len(s) \in Nat \ {0} /\ DOMAIN s = 1 .. Len(s)
        /\ Head(s) = s[1] /\ Head(s) \in S
        /\ Tail(s) \in Seq(S) /\ DOMAIN Tail(s) = 1 .. Len(s) - 1
        /\ \A i \in 1 .. Len(s) - 1 : Tail(s)[i] = s[i + 1]
    BY HeadTailProperties
  <1>2. \A i \in DOMAIN s : i = 1 \/ (i - 1 \in DOMAIN Tail(s) /\ Tail(s)[i - 1] = s[i])
    BY <1>1
  <1> QED
    BY <1>1, <1>2 DEF Among

-----------------------------------------------------------------------------
(***************************************************************************)
(* The file for 1C.                                                        *)
(***************************************************************************)
AnyNumber == Numbers \cup {"none"}

NoteRow == [id : Nat, number : AnyNumber, totals : Nat]

Works ==
  [pc : {"free", "numbered", "balloons", "open", "close", "mail"},
   number : AnyNumber, lists : SUBSET (Notes \X Nat)]

TtnTypes ==
  /\ amounts \in [Notes -> Nat] /\ notes \in [Notes -> NoteRow]
  /\ form \in [note : Notes \cup {"none"}, row : NoteRow]
  /\ form # NoForm => form.note \in Notes /\ form.row.totals <= amounts[form.note]
  /\ tasks \in Seq(AnyNumber) /\ work \in [Workers -> Works] /\ forms \in Nat
  /\ \A d \in Notes : notes[d].totals <= amounts[d]
  /\ \A w \in Workers : work[w].pc = "free" => work[w] = Free

\* Nothing has gone wrong that the property does not withstand.
Undisturbed ==
  mishaps \cap {"duplicate", "broker", "overlap", "path", "smtp", "killed"} = {}

Same(d, e, number) == notes[e].number = number /\ Kind[e] = Kind[d]

\* No two notes of a kind have a number in common, nor will they.
NumbersDiffer ==
  /\ \A d \in Saved : \A e \in Saved \ {d} : ~Same(d, e, notes[d].number)
  /\ form # NoForm =>
       \A e \in Saved \ {form.note} : ~Same(form.note, e, form.row.number)

\* One worker at most does something, and the file is what it has written.
OneWorks ==
  /\ \A v, w \in Workers : work[v] = Free \/ work[w] = Free \/ v = w
  /\ \A w \in Workers : work[w].pc = "mail" => file = work[w].lists

Listed(d, lists) == \E p \in lists : p[1] = d /\ p[2] >= notes[d].totals

Mailed(d) == \E m \in mails : m.number = notes[d].number /\ Listed(d, m.lists)

\* A task has the number of the note, and the note or will come to it.
Served(w, d) ==
  /\ work[w].number = notes[d].number
  /\ \/ work[w].pc = "numbered"
     \/ work[w].pc = "balloons" /\ Kind[d] = "balloon"
     \/ /\ work[w].pc \in {"balloons", "open", "close", "mail"}
        /\ Listed(d, work[w].lists)

Reaches(d) ==
  Mailed(d) \/ Among(notes[d].number, tasks) \/ \E w \in Workers : Served(w, d)

NotesReach == \A d \in Saved : notes[d].totals > 0 => Reaches(d)

TtnInv == TtnTypes /\ (Undisturbed => NumbersDiffer /\ OneWorks /\ NotesReach)

-----------------------------------------------------------------------------
LEMMA TtnStart == MishapInit /\ TtnInit => TtnInv
  <1> SUFFICES ASSUME MishapInit, TtnInit PROVE TtnInv
    OBVIOUS
  <1>1. /\ amounts \in [Notes -> Nat] /\ notes = [d \in Notes |-> NoNote]
        /\ form = NoForm /\ tasks = <<>> /\ work = [w \in Workers |-> Free] /\ forms = 0
    BY DEF TtnInit
  <1>2. NoNote \in NoteRow /\ NoNote.totals = 0
    BY DEF NoNote, NoteRow, AnyNumber
  <1>3. NoForm \in [note : Notes \cup {"none"}, row : NoteRow]
    BY <1>2 DEF NoForm
  <1>4. Free \in Works /\ Free.pc = "free"
    BY DEF Free, Works, AnyNumber, Empty
  <1>5. TtnTypes
    BY <1>1, <1>2, <1>3, <1>4 DEF TtnTypes
  <1>6. Saved = {}
    BY <1>1 DEF Saved
  <1> QED
    BY <1>1, <1>4, <1>5, <1>6 DEF TtnInv, NumbersDiffer, OneWorks, NotesReach

LEMMA UndisturbedBefore ==
  [TtnNext]_<<mishapVars, ttnVars>> /\ Undisturbed' => Undisturbed
  <1>1. ASSUME NEW kind, Slip(kind), Undisturbed' PROVE Undisturbed
    BY <1>1 DEF Slip, Undisturbed
  <1>2. Smooth /\ Undisturbed' => Undisturbed
    BY DEF Smooth, mishapVars, Undisturbed
  <1>3. UNCHANGED <<mishapVars, ttnVars>> /\ Undisturbed' => Undisturbed
    BY DEF mishapVars, Undisturbed
  <1>4. ASSUME NEW d \in Notes, Weigh(d) \/ SaveForm(d) \/ Delete(d), Undisturbed'
        PROVE  Undisturbed
    BY <1>1, <1>2, <1>4 DEF Weigh, SaveForm, Delete
  <1>5. ASSUME Commit, Undisturbed' PROVE Undisturbed
    BY <1>1, <1>2, <1>5 DEF Commit
  <1>6. ASSUME NEW w \in Workers, Task(w) \/ Die(w), Undisturbed' PROVE Undisturbed
    BY <1>1, <1>2, <1>6
       DEF Task, Take, CollectNumbered, CollectBalloons, Open, Close, Mail, Die
  <1> QED
    BY <1>3, <1>4, <1>5, <1>6 DEF TtnNext

-----------------------------------------------------------------------------
(* Weighings and forms.                                                    *)

\* A step that does no more than make amounts grow.
LEMMA WeighReaches ==
  ASSUME TtnInv, UNCHANGED <<notes, form, tasks, work, file, mails, forms>>,
         amounts' \in [Notes -> Nat], \A d \in Notes : amounts[d] <= amounts'[d],
         Undisturbed' => Undisturbed
  PROVE  TtnInv'
  <1>1. \A d \in Notes : amounts[d] \in Nat /\ amounts'[d] \in Nat /\ notes[d].totals \in Nat
    BY DEF TtnInv, TtnTypes, NoteRow
  <1>2. form.row.totals \in Nat
    BY DEF TtnInv, TtnTypes, NoteRow
  <1>3. \A d \in Notes : notes'[d].totals <= amounts'[d]
    BY <1>1 DEF TtnInv, TtnTypes
  <1>4. form # NoForm => form.note \in Notes /\ form.row.totals <= amounts'[form.note]
    BY <1>1, <1>2 DEF TtnInv, TtnTypes
  <1>5. TtnTypes'
    BY <1>3, <1>4 DEF TtnInv, TtnTypes
  <1>6. Saved' = Saved
    BY DEF Saved
  <1>7. Undisturbed' => NumbersDiffer' /\ OneWorks'
    BY <1>6 DEF TtnInv, NumbersDiffer, Same, OneWorks
  <1>8. \A d : Reaches(d)' <=> Reaches(d)
    BY DEF Reaches, Mailed, Served, Listed, Among
  <1>9. Undisturbed' => NotesReach'
    BY <1>6, <1>8 DEF TtnInv, NotesReach
  <1> QED
    BY <1>5, <1>7, <1>9 DEF TtnInv

LEMMA SaveFormReaches ==
  ASSUME TtnInv, NEW d \in Notes, SaveForm(d), Undisturbed' => Undisturbed
  PROVE  TtnInv'
  <1>1. PICK n \in Numbers :
          /\ form' = [note |-> d, row |-> [id |-> Id(d), number |-> n, totals |-> Totals(d)]]
          /\ (\E e \in Saved \ {d} : notes[e].number = n /\ Kind[e] = Kind[d])
               => Slip("duplicate")
          /\ tasks' = Enqueued("write", n)
    BY DEF SaveForm
  <1>2. forms' = forms + 1 /\ UNCHANGED <<amounts, notes, work, file, mails>>
    BY DEF SaveForm
  <1>3. tasks' = tasks
    BY <1>1 DEF Enqueued
  <1>4. amounts[d] \in Nat /\ notes[d] \in NoteRow /\ forms \in Nat
    BY DEF TtnInv, TtnTypes
  <1>5. forms' \in Nat /\ Id(d) \in Nat
    BY <1>2, <1>4 DEF Id, NoteRow
  <1>6. /\ form'.note = d /\ form'.row.number = n /\ form'.row.totals = amounts[d]
        /\ form'.row \in NoteRow
    BY <1>1, <1>4, <1>5 DEF Totals, NoteRow, AnyNumber
  <1>7. form' \in [note : Notes \cup {"none"}, row : NoteRow]
    BY <1>1, <1>6
  <1>8. TtnTypes'
    BY <1>2, <1>3, <1>4, <1>5, <1>6, <1>7 DEF TtnInv, TtnTypes
  <1>9. Saved' = Saved
    BY <1>2 DEF Saved
  <1>10. ASSUME Undisturbed' PROVE NumbersDiffer' /\ OneWorks'
    <2>1. ~Slip("duplicate")
      BY <1>10 DEF Slip, Undisturbed
    <2>2. \A e \in Saved \ {d} : ~(notes[e].number = n /\ Kind[e] = Kind[d])
      BY <1>1, <2>1
    <2>3. NumbersDiffer'
      BY <1>2, <1>6, <1>9, <1>10, <2>2 DEF TtnInv, NumbersDiffer, Same
    <2>4. OneWorks'
      BY <1>2, <1>10 DEF TtnInv, OneWorks
    <2> QED
      BY <2>3, <2>4
  <1>11. \A e : Reaches(e)' <=> Reaches(e)
    BY <1>2, <1>3 DEF Reaches, Mailed, Served, Listed, Among
  <1>12. Undisturbed' => NotesReach'
    BY <1>2, <1>9, <1>11 DEF TtnInv, NotesReach
  <1> QED
    BY <1>8, <1>10, <1>12 DEF TtnInv

\* One row changes; what is said of the others does not.
LEMMA OthersReach ==
  ASSUME NEW d, NEW e, e # d, notes'[e] = notes[e], Reaches(e),
         UNCHANGED <<work, mails>>, \A x : Among(x, tasks) => Among(x, tasks')
  PROVE  Reaches(e)'
  BY DEF Reaches, Mailed, Served, Listed

LEMMA CommitReaches ==
  ASSUME TtnInv, Commit, Undisturbed' => Undisturbed
  PROVE  TtnInv'
  <1> DEFINE d == form.note
             row == form.row
  <1>1. /\ form # NoForm /\ form' = NoForm /\ notes' = [notes EXCEPT ![d] = row]
        /\ (tasks' = Append(tasks, row.number) \/ (tasks' = tasks /\ Slip("broker")))
        /\ UNCHANGED <<amounts, work, file, mails, forms>>
    BY DEF Commit, Write, Enqueued
  <1>2. /\ TtnTypes /\ d \in Notes /\ row \in NoteRow /\ row.totals <= amounts[d]
        /\ tasks \in Seq(AnyNumber) /\ row.number \in AnyNumber
    BY <1>1 DEF TtnInv, TtnTypes, NoteRow
  <1>3. PICK c \in Notes : c = d
    BY <1>2
  <1>4. PICK r \in NoteRow : r = row
    BY <1>2
  <1> HIDE DEF d, row
  <1>5. notes' \in [Notes -> NoteRow]
        /\ \A e \in Notes : notes'[e] = IF e = c THEN r ELSE notes[e]
    BY <1>1, <1>2, <1>3, <1>4 DEF TtnTypes
  <1>6. /\ Append(tasks, r.number) \in Seq(AnyNumber)
        /\ \A x : Among(x, Append(tasks, r.number)) <=> Among(x, tasks) \/ x = r.number
    BY <1>2, <1>4, Appended
  <1>7. tasks' \in Seq(AnyNumber) /\ \A x : Among(x, tasks) => Among(x, tasks')
    BY <1>1, <1>2, <1>4, <1>6
  <1>8. TtnTypes'
    <2>1. NoForm \in [note : Notes \cup {"none"}, row : NoteRow]
      BY DEF NoForm, NoNote, NoteRow, AnyNumber
    <2>2. \A e \in Notes : notes'[e].totals <= amounts'[e]
      BY <1>1, <1>2, <1>3, <1>4, <1>5 DEF TtnTypes
    <2>3. form' \in [note : Notes \cup {"none"}, row : NoteRow] /\ form' = NoForm
      BY <1>1, <2>1
    <2> QED
      BY <1>1, <1>2, <1>5, <1>7, <2>2, <2>3 DEF TtnTypes
  <1>9. \A e \in Notes \ {c} : e \in Saved' <=> e \in Saved
    BY <1>5 DEF Saved
  <1>10. ASSUME Undisturbed' PROVE NumbersDiffer' /\ OneWorks' /\ NotesReach'
    <2>1. NumbersDiffer /\ OneWorks /\ NotesReach
      BY <1>10 DEF TtnInv
    <2>2. \A e \in Saved \ {c} : ~(notes[e].number = r.number /\ Kind[e] = Kind[c])
      BY <1>1, <1>3, <1>4, <2>1 DEF NumbersDiffer, Same, d, row
    <2>3. NumbersDiffer'
      <3>1. ASSUME NEW e \in Saved', NEW f \in Saved' \ {e},
                   notes'[f].number = notes'[e].number, Kind[f] = Kind[e]
            PROVE  FALSE
        <4>1. e \in Notes /\ f \in Notes /\ e # f
          BY DEF Saved
        <4>2. CASE e = c
          BY <1>5, <1>9, <2>2, <3>1, <4>1, <4>2
        <4>3. CASE f = c
          BY <1>5, <1>9, <2>2, <3>1, <4>1, <4>3
        <4>4. CASE e # c /\ f # c
          BY <1>5, <1>9, <2>1, <3>1, <4>1, <4>4 DEF NumbersDiffer, Same
        <4> QED
          BY <4>2, <4>3, <4>4
      <3> QED
        BY <1>1, <3>1 DEF NumbersDiffer, Same
    <2>4. OneWorks'
      BY <1>1, <2>1 DEF OneWorks
    <2>5. ASSUME NEW e \in Saved', notes'[e].totals > 0 PROVE Reaches(e)'
      <3>1. e \in Notes
        BY DEF Saved
      <3>2. CASE e = c
        <4>1. tasks' = Append(tasks, r.number)
          BY <1>1, <1>4, <1>10 DEF Slip, Undisturbed
        <4>2. Among(notes'[e].number, tasks')
          BY <1>5, <1>6, <3>1, <3>2, <4>1
        <4> QED
          BY <4>2 DEF Reaches
      <3>3. CASE e # c
        <4>1. notes'[e] = notes[e] /\ e \in Saved
          BY <1>5, <1>9, <3>1, <3>3
        <4>2. Reaches(e)
          BY <2>1, <2>5, <4>1 DEF NotesReach
        <4> QED
          BY <1>1, <1>7, <3>3, <4>1, <4>2, OthersReach
      <3> QED
        BY <3>2, <3>3
    <2> QED
      BY <2>3, <2>4, <2>5 DEF NotesReach
  <1> QED
    BY <1>8, <1>10 DEF TtnInv

LEMMA DeleteReaches ==
  ASSUME TtnInv, NEW d \in Notes, Delete(d), Undisturbed' => Undisturbed
  PROVE  TtnInv'
  <1>1. /\ form = NoForm /\ notes' = [notes EXCEPT ![d] = NoNote] /\ forms' = forms + 1
        /\ UNCHANGED <<amounts, form, tasks, work, file, mails>>
    BY DEF Delete
  <1>2. TtnTypes /\ NoNote \in NoteRow /\ NoNote.totals = 0
    BY DEF TtnInv, NoNote, NoteRow, AnyNumber
  <1>3. notes' \in [Notes -> NoteRow]
        /\ \A e \in Notes : notes'[e] = IF e = d THEN NoNote ELSE notes[e]
    BY <1>1, <1>2 DEF TtnTypes
  <1>4. \A e \in Notes : notes'[e].totals <= amounts'[e]
    BY <1>1, <1>2, <1>3 DEF TtnTypes
  <1>5. TtnTypes'
    BY <1>1, <1>2, <1>3, <1>4 DEF TtnTypes
  <1>6. \A e \in Saved' : e # d /\ e \in Saved /\ notes'[e] = notes[e]
    BY <1>3 DEF Saved
  <1>7. ASSUME Undisturbed' PROVE NumbersDiffer' /\ OneWorks' /\ NotesReach'
    <2>1. NumbersDiffer /\ OneWorks /\ NotesReach
      BY <1>7 DEF TtnInv
    <2>2. NumbersDiffer' /\ OneWorks'
      BY <1>1, <1>6, <2>1 DEF NumbersDiffer, Same, OneWorks
    <2>3. ASSUME NEW e \in Saved', notes'[e].totals > 0 PROVE Reaches(e)'
      BY <1>1, <1>6, <2>1, <2>3, OthersReach DEF NotesReach
    <2> QED
      BY <2>2, <2>3 DEF NotesReach
  <1> QED
    BY <1>5, <1>7 DEF TtnInv

-----------------------------------------------------------------------------
(* The task.                                                               *)

\* A worker takes a step: the tables stay, the types hold.
LEMMA WorkTypes ==
  ASSUME TtnTypes, NEW w \in Workers, NEW job \in Works, Step(w, job),
         job.pc = "free" => job = Free,
         UNCHANGED <<amounts, notes, form, forms>>, tasks' \in Seq(AnyNumber)
  PROVE  /\ TtnTypes' /\ Saved' = Saved
         /\ \A u \in Workers : work'[u] = IF u = w THEN job ELSE work[u]
  <1>1. work' = [work EXCEPT ![w] = job]
    BY DEF Step
  <1>2. work' \in [Workers -> Works]
        /\ \A u \in Workers : work'[u] = IF u = w THEN job ELSE work[u]
    BY <1>1 DEF TtnTypes
  <1>3. TtnTypes'
    BY <1>2 DEF TtnTypes
  <1> QED
    BY <1>2, <1>3 DEF Saved

\* The worker that is at work is the only one, and remains so.
LEMMA StillOne ==
  ASSUME TtnInv, Undisturbed, NEW w \in Workers, work[w] # Free, NEW job,
         UNCHANGED <<notes, form>>,
         \A u \in Workers : work'[u] = IF u = w THEN job ELSE work[u],
         job.pc = "mail" => file' = job.lists, Free.pc = "free"
  PROVE  /\ NumbersDiffer' /\ OneWorks'
         /\ \A u \in Workers \ {w} : work[u] = Free
  <1>1. NumbersDiffer /\ OneWorks
    BY DEF TtnInv
  <1>2. \A u \in Workers \ {w} : work[u] = Free
    BY <1>1 DEF OneWorks
  <1>3. NumbersDiffer'
    BY <1>1 DEF NumbersDiffer, Same, Saved
  <1>4. OneWorks'
    BY <1>2 DEF OneWorks
  <1> QED
    BY <1>2, <1>3, <1>4

\* What a worker has to do with a note is all that changes for it.
LEMMA WorkReaches ==
  ASSUME TtnInv, Undisturbed, NEW w \in Workers, UNCHANGED <<notes, tasks>>,
         mails \subseteq mails', \A u \in Workers \ {w} : work'[u] = work[u],
         \A d \in Saved : notes[d].totals > 0 /\ Served(w, d) => Mailed(d)' \/ Served(w, d)'
  PROVE  NotesReach'
  <1>1. Saved' = Saved
    BY DEF Saved
  <1> SUFFICES ASSUME NEW d \in Saved, notes[d].totals > 0 PROVE Reaches(d)'
    BY <1>1 DEF NotesReach
  <1>2. Reaches(d)
    BY DEF TtnInv, NotesReach
  <1>3. CASE Mailed(d)
    BY <1>3 DEF Reaches, Mailed, Listed
  <1>4. CASE Among(notes[d].number, tasks)
    BY <1>4 DEF Reaches, Among
  <1>5. CASE Served(w, d)
    BY <1>5 DEF Reaches
  <1>6. ASSUME NEW u \in Workers \ {w}, Served(u, d) PROVE Reaches(d)'
    <2>1. Served(u, d)'
      BY <1>6 DEF Served, Listed
    <2> QED
      BY <2>1 DEF Reaches
  <1> QED
    BY <1>2, <1>3, <1>4, <1>5, <1>6 DEF Reaches

LEMMA FreeWorks == Free \in Works /\ Free.pc = "free"
  BY DEF Free, Works, AnyNumber, Empty

LEMMA TakeReaches ==
  ASSUME TtnInv, NEW w \in Workers, Take(w), Undisturbed' => Undisturbed
  PROVE  TtnInv'
  <1> DEFINE job == [pc |-> "numbered", number |-> Head(tasks), lists |-> Empty]
  <1>1. /\ tasks # <<>> /\ work[w] = Free /\ Step(w, job) /\ tasks' = Tail(tasks)
        /\ UNCHANGED <<amounts, notes, form, file, mails, forms>>
    BY DEF Take
  <1>2. /\ TtnTypes /\ tasks' \in Seq(AnyNumber) /\ Head(tasks) \in AnyNumber
        /\ \A x : Among(x, tasks) => x = Head(tasks) \/ Among(x, tasks')
    BY <1>1, Shortened DEF TtnInv, TtnTypes
  <1>3. job \in Works /\ job.pc = "numbered" /\ job.number = Head(tasks)
    BY <1>2 DEF Works, Empty
  <1> HIDE DEF job
  <1>4. /\ TtnTypes' /\ Saved' = Saved
        /\ \A u \in Workers : work'[u] = IF u = w THEN job ELSE work[u]
    BY <1>1, <1>2, <1>3, WorkTypes
  <1>5. ASSUME Undisturbed' PROVE NumbersDiffer' /\ OneWorks' /\ NotesReach'
    <2>1. NumbersDiffer /\ OneWorks /\ NotesReach
      BY <1>5 DEF TtnInv
    <2>2. \A u \in Workers : work[u] = Free
      BY <1>5 DEF Take, Slip, Undisturbed
    <2>3. NumbersDiffer'
      BY <1>1, <1>4, <2>1 DEF NumbersDiffer, Same
    <2>4. OneWorks'
      BY <1>3, <1>4, <2>2, FreeWorks DEF OneWorks
    <2>5. ASSUME NEW d \in Saved, notes[d].totals > 0 PROVE Reaches(d)'
      <3>1. Reaches(d)
        BY <2>1, <2>5 DEF NotesReach
      <3>2. CASE Mailed(d)
        BY <1>1, <3>2 DEF Reaches, Mailed, Listed
      <3>3. CASE Among(notes[d].number, tasks)
        <4>1. CASE Among(notes[d].number, tasks')
          BY <1>1, <4>1 DEF Reaches
        <4>2. CASE notes[d].number = Head(tasks)
          <5>1. Served(w, d)'
            BY <1>1, <1>3, <1>4, <4>2 DEF Served
          <5> QED
            BY <5>1 DEF Reaches
        <4> QED
          BY <1>2, <3>3, <4>1, <4>2
      <3>4. \A u \in Workers : ~Served(u, d)
        BY <2>2, FreeWorks DEF Served
      <3> QED
        BY <3>1, <3>2, <3>3, <3>4 DEF Reaches
    <2> QED
      BY <1>1, <1>4, <2>3, <2>4, <2>5 DEF NotesReach
  <1> QED
    BY <1>4, <1>5 DEF TtnInv

LEMMA ShowsType == TtnTypes => \A ds : ds \subseteq Notes => Shows(ds) \in SUBSET (Notes \X Nat)
  BY DEF Shows, TtnTypes

\* What is shown of a note is no older than its row.
LEMMA ShowsIt ==
  ASSUME TtnTypes, NEW ds, ds \subseteq Notes, NEW d \in ds, notes[d].totals > 0
  PROVE  \E p \in Shows(ds) : p[1] = d /\ p[2] >= notes[d].totals
  <1>1. <<d, amounts[d]>> \in Shows(ds)
    BY DEF Shows
  <1>2. amounts[d] >= notes[d].totals
    BY DEF TtnTypes, NoteRow
  <1> QED
    BY <1>1, <1>2

\* The only note of its kind that has a number is the newest.
LEMMA TheOnlyOne ==
  ASSUME TtnTypes, NumbersDiffer, NEW d \in Saved
  PROVE  LatestByNumber(Kind[d], notes[d].number) = {d}
  <1> DEFINE same == {e \in Saved : Kind[e] = Kind[d] /\ notes[e].number = notes[d].number}
  <1>1. same = {d}
    BY DEF NumbersDiffer, Same
  <1>2. notes[d].id \in Nat
    BY DEF TtnTypes, NoteRow, Saved
  <1>3. LatestByNumber(Kind[d], notes[d].number)
          = {e \in same : \A f \in same : notes[f].id <= notes[e].id}
    BY DEF LatestByNumber
  <1> HIDE DEF same
  <1> QED
    BY <1>1, <1>2, <1>3

LEMMA NumberedReaches ==
  ASSUME TtnInv, NEW w \in Workers, CollectNumbered(w), Undisturbed' => Undisturbed
  PROVE  TtnInv'
  <1> DEFINE n == work[w].number
             found == LatestByNumber("railway", n) \cup LatestByNumber("auto", n)
             job == [pc |-> "balloons", number |-> n, lists |-> Shows(found)]
  <1>1. /\ work[w].pc = "numbered" /\ Step(w, job)
        /\ UNCHANGED <<amounts, notes, form, tasks, file, mails, forms>>
    BY DEF CollectNumbered
  <1>2. TtnTypes /\ n \in AnyNumber /\ found \subseteq Notes /\ work[w] # Free
    BY <1>1, FreeWorks DEF TtnInv, TtnTypes, Works, LatestByNumber, Saved
  <1>3. Shows(found) \in SUBSET (Notes \X Nat)
    BY <1>2, ShowsType
  <1>4. /\ job \in Works /\ job.pc = "balloons" /\ job.number = n
        /\ job.lists = Shows(found)
    BY <1>2, <1>3 DEF Works
  <1> HIDE DEF job, found
  <1>5. tasks' \in Seq(AnyNumber)
    BY <1>1, <1>2 DEF TtnTypes
  <1>6. /\ TtnTypes' /\ Saved' = Saved
        /\ \A u \in Workers : work'[u] = IF u = w THEN job ELSE work[u]
    BY <1>1, <1>2, <1>4, <1>5, WorkTypes
  <1>7. ASSUME Undisturbed' PROVE NumbersDiffer' /\ OneWorks' /\ NotesReach'
    <2>1. NumbersDiffer' /\ OneWorks'
      BY <1>1, <1>2, <1>4, <1>6, <1>7, StillOne, FreeWorks
    <2>2. ASSUME NEW d \in Saved, notes[d].totals > 0, Served(w, d)
          PROVE  Served(w, d)'
      <3>1. notes[d].number = n /\ d \in Notes
        BY <2>2 DEF Served, Saved
      <3>2. work'[w].pc = "balloons" /\ work'[w].number = n /\ work'[w].lists = Shows(found)
        BY <1>4, <1>6
      <3>3. CASE Kind[d] = "balloon"
        BY <1>1, <3>1, <3>2, <3>3 DEF Served
      <3>4. CASE Kind[d] \in {"railway", "auto"}
        <4>1. d \in found
          BY <1>2, <1>7, <3>1, <3>4, TheOnlyOne DEF TtnInv, found
        <4>2. \E p \in Shows(found) : p[1] = d /\ p[2] >= notes[d].totals
          BY <1>2, <2>2, <4>1, ShowsIt
        <4> QED
          BY <1>1, <3>1, <3>2, <4>2 DEF Served, Listed
      <3> QED
        BY <3>1, <3>3, <3>4, NoteKinds
    <2>3. NotesReach'
      BY <1>1, <1>6, <1>7, <2>2, WorkReaches
    <2> QED
      BY <2>1, <2>3
  <1> QED
    BY <1>6, <1>7 DEF TtnInv

LEMMA BalloonsReach ==
  ASSUME TtnInv, NEW w \in Workers, CollectBalloons(w), Undisturbed' => Undisturbed
  PROVE  TtnInv'
  <1> DEFINE today == {d \in Saved : Kind[d] = "balloon"}
             job == [work[w] EXCEPT !.pc = "open", !.lists = @ \cup Shows(today)]
  <1>1. /\ work[w].pc = "balloons" /\ Step(w, job)
        /\ UNCHANGED <<amounts, notes, form, tasks, file, mails, forms>>
    BY DEF CollectBalloons
  <1>2. TtnTypes /\ work[w] \in Works /\ today \subseteq Notes /\ work[w] # Free
    BY <1>1, FreeWorks DEF TtnInv, TtnTypes, Saved
  <1>3. Shows(today) \in SUBSET (Notes \X Nat)
    BY <1>2, ShowsType
  <1>4. PICK more \in SUBSET (Notes \X Nat) : more = Shows(today)
    BY <1>3
  <1>5. job = [work[w] EXCEPT !.pc = "open", !.lists = @ \cup more]
    BY <1>4
  <1>6. /\ job \in Works /\ job.pc = "open" /\ job.number = work[w].number
        /\ job.lists = work[w].lists \cup more
    <2>1. PICK old \in Works : old = work[w]
      BY <1>2
    <2>2. job = [old EXCEPT !.pc = "open", !.lists = @ \cup more]
      BY <1>5, <2>1
    <2> HIDE DEF job, today
    <2>3. /\ DOMAIN job = DOMAIN old /\ job.pc = "open" /\ job.number = old.number
          /\ job.lists = old.lists \cup more
      BY <2>2 DEF Works
    <2>4. job \in Works
      BY <2>2 DEF Works
    <2> QED
      BY <2>1, <2>3, <2>4
  <1> HIDE DEF job, today
  <1>7. tasks' \in Seq(AnyNumber)
    BY <1>1, <1>2 DEF TtnTypes
  <1>8. /\ TtnTypes' /\ Saved' = Saved
        /\ \A u \in Workers : work'[u] = IF u = w THEN job ELSE work[u]
    BY <1>1, <1>2, <1>6, <1>7, WorkTypes
  <1>9. ASSUME Undisturbed' PROVE NumbersDiffer' /\ OneWorks' /\ NotesReach'
    <2>1. NumbersDiffer' /\ OneWorks'
      BY <1>1, <1>2, <1>6, <1>8, <1>9, StillOne, FreeWorks
    <2>2. ASSUME NEW d \in Saved, notes[d].totals > 0, Served(w, d)
          PROVE  Served(w, d)'
      <3>1. /\ work'[w].pc = "open" /\ work'[w].number = work[w].number
            /\ work'[w].lists = work[w].lists \cup more
        BY <1>6, <1>8
      <3>2. Listed(d, work[w].lists \cup more)
        <4>1. CASE Listed(d, work[w].lists)
          BY <4>1 DEF Listed
        <4>2. CASE Kind[d] = "balloon"
          <5>1. d \in today
            BY <4>2 DEF today
          <5>2. \E p \in more : p[1] = d /\ p[2] >= notes[d].totals
            BY <1>2, <1>4, <2>2, <5>1, ShowsIt
          <5> QED
            BY <5>2 DEF Listed
        <4> QED
          BY <1>1, <2>2, <4>1, <4>2 DEF Served
      <3>3. Served(w, d) => work[w].number = notes[d].number
        BY DEF Served
      <3> QED
        BY <1>1, <2>2, <3>1, <3>2, <3>3 DEF Served, Listed
    <2>3. NotesReach'
      BY <1>1, <1>8, <1>9, <2>2, WorkReaches
    <2> QED
      BY <2>1, <2>3
  <1> QED
    BY <1>8, <1>9 DEF TtnInv

LEMMA FileReaches ==
  ASSUME TtnInv, NEW w \in Workers, Open(w) \/ Close(w), Undisturbed' => Undisturbed
  PROVE  TtnInv'
  <1>1. TtnTypes /\ work[w] \in Works /\ work[w] # Free
    BY FreeWorks DEF TtnInv, TtnTypes, Open, Close
  <1>2. UNCHANGED <<amounts, notes, form, tasks, mails, forms>>
        /\ tasks' \in Seq(AnyNumber)
    BY <1>1 DEF Open, Close, TtnTypes
  <1>3. PICK job \in Works :
          /\ Step(w, job) /\ (job.pc = "free" => job = Free)
          /\ \/ Slip("path")
             \/ /\ work[w].pc \in {"open", "close"} /\ job.pc \in {"close", "mail"}
                /\ job.number = work[w].number /\ job.lists = work[w].lists
                /\ (job.pc = "mail" => file' = job.lists)
    <2>1. CASE Open(w)
      <3> DEFINE j == [work[w] EXCEPT !.pc = "close"]
      <3>1. j \in Works /\ j.pc = "close" /\ j.number = work[w].number
            /\ j.lists = work[w].lists
        BY <1>1 DEF Works
      <3>2. (Step(w, j) /\ work[w].pc = "open") \/ (Step(w, Free) /\ Slip("path"))
        BY <2>1 DEF Open
      <3> HIDE DEF j
      <3> QED
        BY <3>1, <3>2, FreeWorks
    <2>2. CASE Close(w)
      <3> DEFINE j == [work[w] EXCEPT !.pc = "mail"]
      <3>1. j \in Works /\ j.pc = "mail" /\ j.number = work[w].number
            /\ j.lists = work[w].lists
        BY <1>1 DEF Works
      <3>2. Step(w, j) /\ work[w].pc = "close" /\ file' = work[w].lists
        BY <2>2 DEF Close
      <3> HIDE DEF j
      <3> QED
        BY <3>1, <3>2
    <2> QED
      BY <2>1, <2>2
  <1>4. /\ TtnTypes' /\ Saved' = Saved
        /\ \A u \in Workers : work'[u] = IF u = w THEN job ELSE work[u]
    BY <1>1, <1>2, <1>3, WorkTypes
  <1>5. ASSUME Undisturbed' PROVE NumbersDiffer' /\ OneWorks' /\ NotesReach'
    <2>1. ~Slip("path")
      BY <1>5 DEF Slip, Undisturbed
    <2>2. /\ work[w].pc \in {"open", "close"} /\ job.pc \in {"close", "mail"}
          /\ job.number = work[w].number /\ job.lists = work[w].lists
          /\ (job.pc = "mail" => file' = job.lists)
      BY <1>3, <2>1
    <2>3. NumbersDiffer' /\ OneWorks'
      BY <1>1, <1>2, <1>4, <1>5, <2>2, StillOne, FreeWorks
    <2>4. ASSUME NEW d \in Saved, notes[d].totals > 0, Served(w, d)
          PROVE  Served(w, d)'
      <3>1. /\ work'[w].pc \in {"close", "mail"} /\ work'[w].number = work[w].number
            /\ work'[w].lists = work[w].lists
        BY <1>4, <2>2
      <3> QED
        BY <1>2, <2>2, <2>4, <3>1 DEF Served, Listed
    <2>5. NotesReach'
      BY <1>2, <1>4, <1>5, <2>4, WorkReaches
    <2> QED
      BY <2>3, <2>5
  <1> QED
    BY <1>4, <1>5 DEF TtnInv

LEMMA MailReaches ==
  ASSUME TtnInv, NEW w \in Workers, Mail(w), Undisturbed' => Undisturbed
  PROVE  TtnInv'
  <1> DEFINE mail == [number |-> work[w].number, lists |-> file]
  <1>1. /\ work[w].pc = "mail" /\ Step(w, Free)
        /\ UNCHANGED <<amounts, notes, form, tasks, file, forms>>
        /\ (mails' = mails \cup {mail} \/ (mails' = mails /\ Slip("smtp")))
    BY DEF Mail
  <1>2. TtnTypes /\ work[w] # Free /\ tasks' \in Seq(AnyNumber)
    BY <1>1, FreeWorks DEF TtnInv, TtnTypes
  <1>3. /\ TtnTypes' /\ Saved' = Saved
        /\ \A u \in Workers : work'[u] = IF u = w THEN Free ELSE work[u]
    BY <1>1, <1>2, WorkTypes, FreeWorks
  <1>4. ASSUME Undisturbed' PROVE NumbersDiffer' /\ OneWorks' /\ NotesReach'
    <2>1. mails' = mails \cup {mail}
      BY <1>1, <1>4 DEF Slip, Undisturbed
    <2>2. file = work[w].lists
      BY <1>1, <1>4 DEF TtnInv, OneWorks
    <2>3. NumbersDiffer' /\ OneWorks'
      BY <1>1, <1>2, <1>3, <1>4, StillOne, FreeWorks
    <2>4. ASSUME NEW d \in Saved, notes[d].totals > 0, Served(w, d)
          PROVE  Mailed(d)'
      <3>1. work[w].number = notes[d].number /\ Listed(d, work[w].lists)
        BY <1>1, <2>4 DEF Served
      <3>2. mail \in mails' /\ mail.number = notes[d].number /\ mail.lists = work[w].lists
        BY <2>1, <2>2, <3>1
      <3> HIDE DEF mail
      <3>3. \E m \in mails' : m.number = notes'[d].number
              /\ \E p \in m.lists : p[1] = d /\ p[2] >= notes'[d].totals
        BY <1>1, <3>1, <3>2 DEF Listed
      <3> QED
        BY <3>3 DEF Mailed, Listed
    <2>5. NotesReach'
      <3>1. mails \subseteq mails' /\ UNCHANGED <<notes, tasks>>
            /\ \A u \in Workers \ {w} : work'[u] = work[u]
        BY <1>1, <1>3, <2>1
      <3> QED
        BY <1>4, <2>4, <3>1, WorkReaches
    <2> QED
      BY <2>3, <2>5
  <1> QED
    BY <1>3, <1>4 DEF TtnInv

LEMMA DieReaches ==
  ASSUME TtnInv, NEW w \in Workers, Die(w)
  PROVE  TtnInv'
  <1>1. /\ Step(w, Free) /\ Slip("killed")
        /\ UNCHANGED <<amounts, notes, form, tasks, forms>>
    BY DEF Die
  <1>2. TtnTypes /\ tasks' \in Seq(AnyNumber)
    BY <1>1 DEF TtnInv, TtnTypes
  <1>3. TtnTypes'
    BY <1>1, <1>2, WorkTypes, FreeWorks
  <1>4. ~Undisturbed'
    BY <1>1 DEF Slip, Undisturbed
  <1> QED
    BY <1>3, <1>4 DEF TtnInv

\* When nothing is left to do, every note that is saved with a batch or tanks
\* has been mailed under its number, with amounts no older than its totals: for
\* every number of notes, forms, weighings and workers.
THEOREM SavedIsMailedHolds == TtnSpec => []SavedIsMailed
  <1>1. TtnInv /\ [TtnNext]_<<mishapVars, ttnVars>> => TtnInv'
    <2> SUFFICES ASSUME TtnInv, [TtnNext]_<<mishapVars, ttnVars>>
                 PROVE  TtnInv'
      OBVIOUS
    <2>1. Undisturbed' => Undisturbed
      BY UndisturbedBefore
    <2>2. \A d \in Notes : amounts[d] \in Nat
      BY DEF TtnInv, TtnTypes
    <2>3. ASSUME NEW d \in Notes, Weigh(d) PROVE TtnInv'
      <3>1. amounts' = [amounts EXCEPT ![d] = @ + 1]
            /\ UNCHANGED <<notes, form, tasks, work, file, mails, forms>>
        BY <2>3 DEF Weigh
      <3>2. amounts \in [Notes -> Nat]
        BY DEF TtnInv, TtnTypes
      <3>3. amounts' \in [Notes -> Nat] /\ \A e \in Notes : amounts[e] <= amounts'[e]
        BY <2>2, <3>1, <3>2
      <3> QED
        BY <2>1, <3>1, <3>3, WeighReaches
    <2>4. ASSUME NEW d \in Notes, SaveForm(d) \/ Delete(d) PROVE TtnInv'
      BY <2>1, <2>4, SaveFormReaches, DeleteReaches
    <2>5. CASE Commit
      BY <2>1, <2>5, CommitReaches
    <2>6. ASSUME NEW w \in Workers, Task(w) PROVE TtnInv'
      BY <2>1, <2>6, TakeReaches, NumberedReaches, BalloonsReach, FileReaches, MailReaches
         DEF Task
    <2>7. ASSUME NEW w \in Workers, Die(w) PROVE TtnInv'
      BY <2>7, DieReaches
    <2>8. CASE UNCHANGED <<mishapVars, ttnVars>>
      <3>1. UNCHANGED <<notes, form, tasks, work, file, mails, forms>> /\ amounts' = amounts
        BY <2>8 DEF ttnVars
      <3>2. amounts' \in [Notes -> Nat] /\ \A e \in Notes : amounts[e] <= amounts'[e]
        BY <2>2, <3>1 DEF TtnInv, TtnTypes
      <3> QED
        BY <2>1, <3>1, <3>2, WeighReaches
    <2> QED
      BY <2>3, <2>4, <2>5, <2>6, <2>7, <2>8 DEF TtnNext
  <1>2. TtnInv => SavedIsMailed
    <2> SUFFICES ASSUME TtnInv, Undisturbed, tasks = <<>>, work = [w \in Workers |-> Free],
                        NEW d \in Saved, notes[d].totals > 0
                 PROVE  Mailed(d)
      BY DEF SavedIsMailed, Undisturbed, Mailed, Listed
    <2>1. Reaches(d)
      BY DEF TtnInv, NotesReach
    <2>2. ~Among(notes[d].number, tasks)
      BY DEF Among
    <2>3. \A w \in Workers : ~Served(w, d)
      BY FreeWorks DEF Served
    <2> QED
      BY <2>1, <2>2, <2>3 DEF Reaches
  <1> QED
    BY <1>1, <1>2, TtnStart, PTL DEF TtnSpec

-----------------------------------------------------------------------------
(***************************************************************************)
(* The bytes between the posts and the listener.                           *)
(***************************************************************************)
Byte == [frame : Nat, part : Nat]

\* What has come and has not been cut yet: the buffer, and then the socket.
Waiting == Len(buffer) + Len(coming)
At(i) == IF i <= Len(buffer) THEN buffer[i] ELSE coming[i - Len(buffer)]

\* The places where the listener will cut.
Cut(k) == \E m \in Nat : k = m * Size

Stands(f, k) ==
  k + Size <= Waiting /\ \A i \in 1 .. Size : At(k + i) = [frame |-> f, part |-> i]

\* A whole frame stands between two cuts.
WillBeHeard(f) == \E k \in Nat : Cut(k) /\ Stands(f, k)

StreamTypes ==
  /\ coming \in Seq(Byte) /\ buffer \in Seq(Byte) /\ Len(buffer) < Size
  /\ age \in 0 .. Stale /\ silent \in 0 .. Stale /\ sent \in Nat
  /\ open \in BOOLEAN /\ harmed \in BOOLEAN /\ awaited \subseteq Nat

Connected == "lost" \notin mishaps

\* The partial frame is at least as old as the silence; without it nothing
\* could be said of the frames after a long silence.
Aligned ==
  /\ ~open => buffer = <<>> /\ coming = <<>>
  /\ coming # <<>> => silent = 0
  /\ buffer # <<>> => age >= silent
  /\ ~harmed => Cut(Waiting)
  /\ \A f \in awaited : f \in heard \/ WillBeHeard(f)

StreamInv == StreamTypes /\ (Connected => Aligned)

-----------------------------------------------------------------------------
LEMMA Cuts ==
  /\ Cut(0)
  /\ \A k \in Nat : Cut(k) => Cut(k + Size)
  /\ \A k \in Nat : Cut(k) /\ k # 0 => k >= Size /\ Cut(k - Size)
  <1>1. Size \in Nat /\ Size > 0
    BY StreamBounds
  <1>2. Cut(0)
    BY <1>1 DEF Cut
  <1>3. ASSUME NEW k \in Nat, Cut(k) PROVE Cut(k + Size)
    <2>1. PICK m \in Nat : k = m * Size
      BY <1>3 DEF Cut
    <2>2. m + 1 \in Nat /\ k + Size = (m + 1) * Size
      BY <1>1, <2>1
    <2> QED
      BY <2>2 DEF Cut
  <1>4. ASSUME NEW k \in Nat, Cut(k), k # 0 PROVE k >= Size /\ Cut(k - Size)
    <2>1. PICK m \in Nat : k = m * Size
      BY <1>4 DEF Cut
    <2>2. m # 0
      BY <1>1, <1>4, <2>1
    <2>3. m - 1 \in Nat /\ k - Size = (m - 1) * Size
      BY <1>1, <2>1, <2>2
    <2>4. \A n \in Nat : n * Size >= 0
      BY <1>1
    <2>5. k - Size >= 0
      BY <2>3, <2>4
    <2> QED
      BY <1>1, <2>3, <2>5 DEF Cut
  <1> QED
    BY <1>2, <1>3, <1>4

LEMMA FrameType ==
  ASSUME NEW f \in Nat
  PROVE  /\ Bytes(f) \in Seq(Byte) /\ Len(Bytes(f)) = Size
         /\ \A i \in 1 .. Size : Bytes(f)[i] = [frame |-> f, part |-> i]
         /\ \A i \in 1 .. Size : Without(Bytes(f), i) \in Seq(Byte)
         /\ <<[frame |-> 0, part |-> 0]>> \o Bytes(f) \in Seq(Byte)
  <1>1. Size \in Nat
    BY StreamBounds
  <1>2. \A i \in 1 .. Size : [frame |-> f, part |-> i] \in Byte
    BY <1>1 DEF Byte
  <1>3. Bytes(f) \in Seq(Byte) /\ Len(Bytes(f)) = Size
        /\ \A i \in 1 .. Size : Bytes(f)[i] = [frame |-> f, part |-> i]
    BY <1>1, <1>2 DEF Bytes
  <1> DEFINE s == Bytes(f)
  <1> HIDE DEF s
  <1>4. s \in Seq(Byte) /\ Len(s) = Size
    BY <1>3 DEF s
  <1>5. ASSUME NEW i \in 1 .. Size PROVE Without(s, i) \in Seq(Byte)
    <2>1. i - 1 \in Int /\ i + 1 \in Int /\ \A j \in 1 .. Size : s[j] \in Byte
      BY <1>1, <1>4
    <2>2. (\A j \in 1 .. i - 1 : s[j] \in Byte) /\ (\A j \in i + 1 .. Size : s[j] \in Byte)
      BY <1>1, <2>1
    <2>3. SubSeq(s, 1, i - 1) \in Seq(Byte) /\ SubSeq(s, i + 1, Size) \in Seq(Byte)
      BY <1>1, <2>1, <2>2, SubSeqProperties
    <2> QED
      BY <1>4, <2>3, ConcatProperties DEF Without
  <1>6. <<[frame |-> 0, part |-> 0]>> \o s \in Seq(Byte)
    <2>1. [frame |-> 0, part |-> 0] \in Byte
      BY DEF Byte
    <2>2. <<[frame |-> 0, part |-> 0]>> \in Seq(Byte)
      BY <2>1
    <2> QED
      BY <1>4, <2>2, ConcatProperties
  <1> QED
    BY <1>3, <1>5, <1>6 DEF s

LEMMA StreamStart == MishapInit /\ StreamInit => StreamInv
  <1> SUFFICES ASSUME StreamInit PROVE StreamInv
    OBVIOUS
  <1>1. /\ coming = <<>> /\ buffer = <<>> /\ age = 0 /\ open = TRUE
        /\ sent = 0 /\ silent = 0 /\ harmed = FALSE /\ awaited = {} /\ heard = {}
    BY DEF StreamInit
  <1>2. coming \in Seq(Byte) /\ buffer \in Seq(Byte) /\ Len(buffer) = 0 /\ Len(coming) = 0
    BY <1>1
  <1>3. StreamTypes
    <2>1. 0 \in 0 .. Stale /\ 0 < Size
      BY StreamBounds
    <2> QED
      BY <1>1, <1>2, <2>1 DEF StreamTypes
  <1>4. Cut(Waiting)
    BY <1>2, Cuts DEF Waiting
  <1> QED
    BY <1>1, <1>3, <1>4 DEF StreamInv, Aligned

-----------------------------------------------------------------------------
(* Bytes that come.                                                        *)

\* What has come stays where it is when more comes.
LEMMA MoreComes ==
  ASSUME StreamTypes, NEW more \in Seq(Byte), coming' = coming \o more, buffer' = buffer
  PROVE  /\ coming' \in Seq(Byte) /\ Waiting \in Nat /\ Waiting' = Waiting + Len(more)
         /\ \A i \in 1 .. Waiting : At(i)' = At(i)
         /\ \A i \in 1 .. Len(more) : \A k : k = Waiting + i => At(k)' = more[i]
         /\ \A f : WillBeHeard(f) => WillBeHeard(f)'
  <1>1. /\ coming \in Seq(Byte) /\ buffer \in Seq(Byte)
        /\ Len(coming) \in Nat /\ Len(buffer) \in Nat /\ Len(more) \in Nat
    BY DEF StreamTypes
  <1>2. /\ coming' \in Seq(Byte) /\ Len(coming') = Len(coming) + Len(more)
        /\ \A i \in 1 .. Len(coming) + Len(more) :
             coming'[i] = IF i <= Len(coming) THEN coming[i] ELSE more[i - Len(coming)]
    BY <1>1, ConcatProperties
  <1>3. Waiting \in Nat /\ Waiting' = Waiting + Len(more)
    BY <1>1, <1>2 DEF Waiting
  <1> DEFINE at(i) == IF i <= Len(buffer) THEN buffer[i] ELSE coming'[i - Len(buffer)]
  <1>4. \A i \in 1 .. Waiting : at(i) = At(i)
    BY <1>1, <1>2 DEF At, Waiting
  <1>5. \A i \in 1 .. Len(more) : at(Waiting + i) = more[i]
    <2>1. ASSUME NEW i \in 1 .. Len(more) PROVE at(Waiting + i) = more[i]
      <3>1. /\ Len(coming) + i \in 1 .. Len(coming) + Len(more)
            /\ ~(Len(coming) + i <= Len(coming)) /\ Len(coming) + i - Len(coming) = i
        BY <1>1
      <3>2. coming'[Len(coming) + i] = more[i]
        BY <1>2, <3>1
      <3>3. PICK k \in Nat : k = Waiting + i
        BY <1>3
      <3>4. PICK j \in Int : j = k - Len(buffer)
        BY <1>1, <3>3
      <3>5. j = Len(coming) + i /\ ~(k <= Len(buffer))
        BY <1>1, <3>3, <3>4 DEF Waiting
      <3>6. at(k) = coming'[j]
        BY <3>4, <3>5
      <3> QED
        BY <3>2, <3>3, <3>5, <3>6
    <2> QED
      BY <2>1
  <1>6. \A i : At(i)' = at(i)
    BY DEF At
  <1>7. ASSUME NEW f, WillBeHeard(f) PROVE WillBeHeard(f)'
    <2>1. PICK k \in Nat : Cut(k) /\ Stands(f, k)
      BY <1>7 DEF WillBeHeard
    <2>2. Size \in Nat
      BY StreamBounds
    <2>3. k + Size <= Waiting'
      BY <1>1, <1>3, <2>1, <2>2 DEF Stands
    <2>4. \A i \in 1 .. Size : At(k + i)' = [frame |-> f, part |-> i]
      <3>1. \A i \in 1 .. Size : k + i \in 1 .. Waiting
        BY <1>3, <2>1, <2>2 DEF Stands
      <3>2. \A i \in 1 .. Size : At(k + i) = [frame |-> f, part |-> i]
        BY <2>1 DEF Stands
      <3> QED
        BY <1>4, <1>6, <3>1, <3>2
    <2>5. Stands(f, k)'
      BY <2>3, <2>4 DEF Stands
    <2> QED
      BY <2>1, <2>5 DEF WillBeHeard, Cut
  <1>8. \A i \in 1 .. Len(more) : \A k : k = Waiting + i => At(k)' = more[i]
    BY <1>5, <1>6
  <1> HIDE DEF at
  <1> QED
    BY <1>2, <1>3, <1>4, <1>6, <1>7, <1>8

LEMMA SendFrameKeeps ==
  ASSUME StreamInv, SendFrame
  PROVE  StreamInv'
  <1> DEFINE frame == Bytes(sent')
  <1>1. /\ sent' = sent + 1 /\ silent' = 0 /\ UNCHANGED <<buffer, age, open, heard>>
        /\ StreamTypes
    BY DEF SendFrame, StreamInv
  <1>2. sent' \in Nat /\ 0 \in 0 .. Stale /\ Size \in Nat /\ Size > 0
    BY <1>1, StreamBounds DEF StreamTypes
  <1>3. /\ frame \in Seq(Byte) /\ Len(frame) = Size
        /\ \A i \in 1 .. Size : frame[i] = [frame |-> sent', part |-> i]
        /\ \A i \in 1 .. Size : Without(frame, i) \in Seq(Byte)
        /\ <<[frame |-> 0, part |-> 0]>> \o frame \in Seq(Byte)
    BY <1>2, FrameType
  <1>4. \/ ~open /\ UNCHANGED <<mishapVars, coming, harmed, awaited>>
        \/ /\ open /\ mishaps' = mishaps /\ coming' = coming \o frame /\ harmed' = harmed
           /\ awaited' = IF harmed THEN awaited ELSE awaited \cup {sent'}
        \/ /\ open /\ mishaps' = mishaps \cup {"byte"} /\ harmed' = TRUE
           /\ awaited' = awaited
           /\ \E more \in Seq(Byte) : coming' = coming \o more
    <2>1. \/ ~open /\ Smooth /\ UNCHANGED <<coming, harmed, awaited>>
          \/ /\ open /\ Smooth /\ coming' = coming \o frame /\ harmed' = harmed
             /\ awaited' = IF harmed THEN awaited ELSE awaited \cup {sent'}
          \/ /\ open /\ Slip("byte") /\ harmed' = TRUE /\ awaited' = awaited
             /\ \/ \E i \in 1 .. Size : coming' = coming \o Without(frame, i)
                \/ coming' = coming \o <<[frame |-> 0, part |-> 0]>> \o frame
      BY DEF SendFrame
    <2>2. ASSUME coming' = coming \o <<[frame |-> 0, part |-> 0]>> \o frame
          PROVE  \E more \in Seq(Byte) : coming' = coming \o more
      <3> DEFINE stray == <<[frame |-> 0, part |-> 0]>>
      <3>1. [frame |-> 0, part |-> 0] \in Byte
        BY DEF Byte
      <3>2. stray \in Seq(Byte) /\ coming \in Seq(Byte)
        BY <1>1, <3>1 DEF StreamTypes
      <3> HIDE DEF stray
      <3>3. (coming \o stray) \o frame = coming \o (stray \o frame)
        BY <1>3, <3>2, ConcatAssociative
      <3>4. stray \o frame \in Seq(Byte)
        BY <1>3 DEF stray
      <3> QED
        BY <2>2, <3>3, <3>4 DEF stray
    <2> HIDE DEF frame
    <2> QED
      BY <1>3, <2>1, <2>2 DEF Smooth, mishapVars, Slip
  <1> HIDE DEF frame
  <1>5. CASE ~open /\ UNCHANGED <<mishapVars, coming, harmed, awaited>>
    <2>1. StreamTypes'
      BY <1>1, <1>2, <1>5 DEF StreamTypes
    <2>2. Connected' => Connected
      BY <1>5 DEF Connected, mishapVars
    <2>3. \A f : WillBeHeard(f)' <=> WillBeHeard(f)
      BY <1>1, <1>5 DEF WillBeHeard, Stands, Waiting, At, Cut
    <2>4. Connected' => Aligned'
      BY <1>1, <1>5, <2>2, <2>3 DEF StreamInv, Aligned, Waiting, Cut
    <2> QED
      BY <2>1, <2>4 DEF StreamInv
  <1>6. ASSUME NEW more \in Seq(Byte), coming' = coming \o more, open, Connected' => Connected,
               harmed' \in BOOLEAN, awaited' \subseteq Nat,
               ~harmed' => ~harmed /\ Len(more) = Size,
               \A f \in awaited' : \/ f \in awaited
                                   \/ Cut(Waiting) /\ more = Bytes(f) /\ f \in Nat
        PROVE  StreamInv'
    <2>1. /\ coming' \in Seq(Byte) /\ Waiting \in Nat /\ Waiting' = Waiting + Len(more)
          /\ \A i \in 1 .. Len(more) : \A k : k = Waiting + i => At(k)' = more[i]
          /\ \A f : WillBeHeard(f) => WillBeHeard(f)'
      BY <1>1, <1>6, MoreComes
    <2>2. StreamTypes'
      BY <1>1, <1>2, <1>6, <2>1 DEF StreamTypes
    <2>3. ASSUME NEW f \in awaited', f \notin awaited PROVE WillBeHeard(f)'
      <3>1. Cut(Waiting) /\ more = Bytes(f) /\ f \in Nat
        BY <1>6, <2>3
      <3>2. Len(more) = Size /\ \A i \in 1 .. Size : more[i] = [frame |-> f, part |-> i]
        BY <3>1, FrameType
      <3>3. PICK k \in Nat : k = Waiting
        BY <2>1
      <3>4. Waiting' = k + Size
        BY <2>1, <3>2, <3>3
      <3>5. \A i \in 1 .. Size : At(k + i)' = [frame |-> f, part |-> i]
        BY <2>1, <3>2, <3>3
      <3>6. Stands(f, k)'
        BY <1>2, <3>4, <3>5 DEF Stands
      <3>7. Cut(k)'
        BY <3>1, <3>3 DEF Cut
      <3> QED
        BY <3>6, <3>7 DEF WillBeHeard
    <2>4. ~harmed' /\ Connected' => Cut(Waiting)'
      <3>1. ~harmed' /\ Connected' => Cut(Waiting) /\ Len(more) = Size
        BY <1>6 DEF StreamInv, Aligned
      <3>2. ~harmed' /\ Connected' => Cut(Waiting + Size)
        BY <2>1, <3>1, Cuts
      <3> QED
        BY <2>1, <3>1, <3>2 DEF Cut
    <2>5. age >= 0
      BY <1>1, StreamBounds DEF StreamTypes
    <2>6. Connected' => Aligned'
      <3> SUFFICES ASSUME Connected' PROVE Aligned'
        OBVIOUS
      <3>1. Aligned
        BY <1>6 DEF StreamInv
      <3>2. \A f \in awaited' : f \in heard' \/ WillBeHeard(f)'
        BY <1>1, <2>1, <2>3, <3>1 DEF Aligned
      <3> QED
        BY <1>1, <1>6, <2>4, <2>5, <3>2 DEF Aligned
    <2> QED
      BY <2>2, <2>6 DEF StreamInv
  <1>7. CASE /\ open /\ mishaps' = mishaps /\ coming' = coming \o frame /\ harmed' = harmed
             /\ awaited' = IF harmed THEN awaited ELSE awaited \cup {sent'}
    <2>1. Connected' => Connected
      BY <1>7 DEF Connected
    <2>2. frame = Bytes(sent')
      BY DEF frame
    <2>3. harmed' \in BOOLEAN /\ awaited' \subseteq Nat
      BY <1>1, <1>2, <1>7 DEF StreamTypes
    <2>4. CASE Connected'
      <3>1. ~harmed => Cut(Waiting)
        BY <2>1, <2>4 DEF StreamInv, Aligned
      <3>2. \A f \in awaited' : f \in awaited \/ (Cut(Waiting) /\ frame = Bytes(f) /\ f \in Nat)
        BY <1>2, <1>7, <2>2, <3>1
      <3> QED
        BY <1>3, <1>6, <1>7, <2>1, <2>3, <3>2
    <2>5. CASE ~Connected'
      <3>1. coming' \in Seq(Byte)
        BY <1>1, <1>3, <1>7, MoreComes
      <3>2. StreamTypes'
        BY <1>1, <1>2, <2>3, <3>1 DEF StreamTypes
      <3> QED
        BY <2>5, <3>2 DEF StreamInv
    <2> QED
      BY <2>4, <2>5
  <1>8. CASE /\ open /\ mishaps' = mishaps \cup {"byte"} /\ harmed' = TRUE
             /\ awaited' = awaited
             /\ \E more \in Seq(Byte) : coming' = coming \o more
    <2>1. PICK more \in Seq(Byte) : coming' = coming \o more
      BY <1>8
    <2>2. Connected' => Connected
      BY <1>8 DEF Connected
    <2>3. awaited' \subseteq Nat
      BY <1>1, <1>8 DEF StreamTypes
    <2> QED
      BY <1>6, <1>8, <2>1, <2>2, <2>3
  <1> QED
    BY <1>4, <1>5, <1>7, <1>8

-----------------------------------------------------------------------------
(* Bytes that are read.                                                    *)

LEMMA ReadChunkKeeps ==
  ASSUME StreamInv, ReadChunk
  PROVE  StreamInv'
  <1>1. /\ open /\ coming # <<>> /\ StreamTypes
        /\ UNCHANGED <<mishaps, open, sent, silent, harmed, awaited>>
    BY DEF ReadChunk, Smooth, mishapVars, StreamInv
  <1>2. /\ coming \in Seq(Byte) /\ buffer \in Seq(Byte)
        /\ Len(coming) \in Nat /\ Len(buffer) \in Nat /\ Len(buffer) < Size
        /\ Size \in Nat /\ Size > 0 /\ 0 \in 0 .. Stale
    BY <1>1, StreamBounds DEF StreamTypes
  <1>3. PICK n \in 1 .. Len(coming) :
          LET more == buffer \o SubSeq(coming, 1, n)
          IN  /\ Len(more) =< Size
              /\ coming' = SubSeq(coming, n + 1, Len(coming))
              /\ IF Len(more) < Size
                   THEN /\ buffer' = more /\ heard' = heard
                        /\ age' = IF buffer = <<>> THEN 0 ELSE age
                   ELSE /\ buffer' = <<>> /\ age' = 0
                        /\ heard' = IF Valid(more) THEN heard \cup {more[1].frame}
                                    ELSE heard
    BY DEF ReadChunk
  <1> DEFINE chunk == SubSeq(coming, 1, n)
             more == buffer \o chunk
  <1>4. /\ n \in Nat /\ n >= 1 /\ n <= Len(coming)
        /\ \A i \in 1 .. Len(coming) : coming[i] \in Byte
    BY <1>2
  <1>5. chunk \in Seq(Byte) /\ Len(chunk) = n /\ \A i \in 1 .. n : chunk[i] = coming[i]
    <2>1. \A i \in 1 .. n : coming[i] \in Byte
      BY <1>2, <1>4
    <2>2. /\ SubSeq(coming, 1, n) \in Seq(Byte)
          /\ Len(SubSeq(coming, 1, n)) = IF 1 <= n THEN n - 1 + 1 ELSE 0
          /\ \A i \in 1 .. n - 1 + 1 : SubSeq(coming, 1, n)[i] = coming[1 + i - 1]
      BY <1>4, <2>1, SubSeqProperties
    <2> QED
      BY <1>4, <2>2
  <1>6. /\ coming' \in Seq(Byte) /\ Len(coming') = Len(coming) - n
        /\ \A i \in 1 .. Len(coming) - n : coming'[i] = coming[i + n]
    <2>1. \A i \in n + 1 .. Len(coming) : coming[i] \in Byte
      BY <1>2, <1>4
    <2>2. /\ SubSeq(coming, n + 1, Len(coming)) \in Seq(Byte)
          /\ Len(SubSeq(coming, n + 1, Len(coming)))
               = IF n + 1 <= Len(coming) THEN Len(coming) - (n + 1) + 1 ELSE 0
          /\ \A i \in 1 .. Len(coming) - (n + 1) + 1 :
               SubSeq(coming, n + 1, Len(coming))[i] = coming[n + 1 + i - 1]
      BY <1>2, <1>4, <2>1, SubSeqProperties
    <2>3. PICK rest \in Seq(Byte) : rest = SubSeq(coming, n + 1, Len(coming))
      BY <2>2
    <2>4. Len(rest) = Len(coming) - n
      BY <1>2, <1>4, <2>2, <2>3
    <2>5. \A i \in 1 .. Len(coming) - n : rest[i] = coming[n + 1 + i - 1]
      BY <1>2, <1>4, <2>2, <2>3
    <2>6. \A i \in 1 .. Len(coming) - n : n + 1 + i - 1 = i + n
      BY <1>2, <1>4
    <2> QED
      BY <1>3, <2>3, <2>4, <2>5, <2>6
  <1> HIDE DEF chunk
  <1>7. /\ more \in Seq(Byte) /\ Len(more) = Len(buffer) + n
        /\ \A i \in 1 .. Len(buffer) + n :
             more[i] = IF i <= Len(buffer) THEN buffer[i] ELSE chunk[i - Len(buffer)]
    BY <1>2, <1>4, <1>5, ConcatProperties
  <1>8. \A i \in 1 .. Len(more) : more[i] = At(i)
    <2> SUFFICES ASSUME NEW i \in 1 .. Len(more) PROVE more[i] = At(i)
      OBVIOUS
    <2>1. i \in 1 .. Len(buffer) + n
      BY <1>7
    <2>2. CASE i <= Len(buffer)
      BY <1>7, <2>1, <2>2 DEF At
    <2>3. CASE ~(i <= Len(buffer))
      <3>1. PICK j \in 1 .. n : j = i - Len(buffer)
        BY <1>2, <1>4, <2>1, <2>3
      <3>2. more[i] = chunk[j] /\ chunk[j] = coming[j] /\ At(i) = coming[j]
        BY <1>5, <1>7, <2>1, <2>3, <3>1 DEF At
      <3> QED
        BY <3>2
    <2> QED
      BY <2>2, <2>3
  <1>9. Len(more) <= Size /\ Waiting = Len(buffer) + Len(coming) /\ Waiting \in Nat
    BY <1>2, <1>3 DEF Waiting, chunk
  <1>12. PICK b \in Nat, c \in Nat : b = Len(buffer) /\ c = Len(coming)
    BY <1>2
  <1>13. /\ n <= c /\ Len(more) = b + n /\ Len(coming') = c - n /\ Waiting = b + c
         /\ b + n <= Size /\ b + n \in Nat /\ c - n \in Nat
    BY <1>4, <1>6, <1>7, <1>9, <1>12
  <1>10. CASE Len(more) < Size
    <2>1. buffer' = more /\ heard' = heard /\ age' = IF buffer = <<>> THEN 0 ELSE age
      BY <1>3, <1>10 DEF chunk
    <2> HIDE DEF more
    <2>2. Waiting' = Waiting
      <3>1. Waiting' = (b + n) + (c - n)
        BY <1>13, <2>1 DEF Waiting
      <3> QED
        BY <1>4, <1>13, <3>1
    <2>3. age' \in 0 .. Stale
      BY <1>1, <1>2, <2>1 DEF StreamTypes
    <2>4. StreamTypes'
      BY <1>1, <1>6, <1>7, <1>10, <2>1, <2>3 DEF StreamTypes
    <2>5. ASSUME NEW i \in 1 .. Waiting PROVE At(i)' = At(i)
      <3>1. At(i)' = IF i <= Len(more) THEN more[i] ELSE coming'[i - Len(more)]
        BY <2>1 DEF At
      <3>2. CASE i <= Len(more)
        <4>1. i \in 1 .. Len(more)
          BY <1>2, <1>4, <1>7, <3>2
        <4> QED
          BY <1>8, <3>1, <3>2, <4>1
      <3>3. CASE ~(i <= Len(more))
        <4>1. PICK j \in 1 .. Len(coming) - n : j = i - Len(more)
          <5>1. i \in 1 .. b + c /\ ~(i <= b + n)
            BY <1>13, <3>3
          <5>2. i - (b + n) \in 1 .. c - n
            BY <1>4, <1>13, <5>1
          <5> QED
            BY <1>12, <1>13, <5>2
        <4>2. PICK k \in 1 .. Len(coming) : k = j + n
          <5>1. j \in 1 .. c - n
            BY <1>12, <4>1
          <5>2. j + n \in 1 .. c
            BY <1>4, <1>13, <5>1
          <5> QED
            BY <1>12, <5>2
        <4>3. k = i - Len(buffer) /\ ~(i <= Len(buffer))
          <5>1. i \in 1 .. b + c /\ ~(i <= b + n) /\ j = i - (b + n) /\ k = j + n
            BY <1>13, <3>3, <4>1, <4>2
          <5>2. k = i - b /\ ~(i <= b)
            BY <1>4, <5>1
          <5> QED
            BY <1>12, <5>2
        <4>4. At(i)' = coming[k]
          BY <1>6, <3>1, <3>3, <4>1, <4>2
        <4>5. At(i) = coming[k]
          BY <4>3 DEF At
        <4> QED
          BY <4>4, <4>5
      <3> QED
        BY <3>2, <3>3
    <2>6. ASSUME NEW f, WillBeHeard(f) PROVE WillBeHeard(f)'
      <3>1. PICK k \in Nat : Cut(k) /\ Stands(f, k)
        BY <2>6 DEF WillBeHeard
      <3>2. \A i \in 1 .. Size : k + i \in 1 .. Waiting
        BY <1>2, <1>9, <3>1 DEF Stands
      <3>3. \A i \in 1 .. Size : At(k + i)' = At(k + i)
        BY <2>5, <3>2
      <3>4. Stands(f, k)'
        BY <2>2, <3>1, <3>3 DEF Stands
      <3> QED
        BY <3>1, <3>4 DEF WillBeHeard, Cut
    <2>7. ASSUME Connected' PROVE Aligned'
      <3>1. Aligned
        BY <1>1, <2>7 DEF StreamInv, Connected
      <3>2. silent = 0 /\ age' >= silent'
        BY <1>1, <2>3, <3>1 DEF Aligned
      <3>3. ~harmed' => Cut(Waiting)'
        BY <1>1, <2>2, <3>1 DEF Aligned, Cut
      <3>4. \A f \in awaited' : f \in heard' \/ WillBeHeard(f)'
        BY <1>1, <2>1, <2>6, <3>1 DEF Aligned
      <3> QED
        BY <1>1, <3>2, <3>3, <3>4 DEF Aligned
    <2> QED
      BY <2>4, <2>7 DEF StreamInv
  <1>11. CASE ~(Len(more) < Size)
    <2>1. /\ buffer' = <<>> /\ age' = 0
          /\ heard' = IF Valid(more) THEN heard \cup {more[1].frame} ELSE heard
      BY <1>3, <1>11 DEF chunk
    <2>2. Len(more) = Size
      BY <1>2, <1>4, <1>7, <1>9, <1>11
    <2> HIDE DEF more
    <2>3. Len(buffer') = 0 /\ buffer' \in Seq(Byte)
      BY <2>1
    <2>4. Waiting' = Waiting - Size
      <3>1. Waiting' = 0 + (c - n) /\ Size = b + n
        BY <1>13, <2>2, <2>3 DEF Waiting
      <3> QED
        BY <1>4, <1>13, <3>1
    <2>5. StreamTypes'
      BY <1>1, <1>2, <1>6, <2>1, <2>3 DEF StreamTypes
    <2>6. ASSUME NEW i \in 1 .. Waiting - Size, NEW k, k = i + Size PROVE At(i)' = At(k)
      <3>1. i \in 1 .. Len(coming) - n
        BY <1>2, <1>4, <1>7, <1>9, <2>2
      <3>2. At(i)' = coming'[i]
        <4>1. ~(i <= Len(buffer'))
          BY <2>3
        <4>2. i - Len(buffer') = i
          BY <2>3
        <4> QED
          BY <4>1, <4>2 DEF At
      <3>3. PICK j \in 1 .. Len(coming) : j = i + n
        BY <1>2, <1>4, <3>1
      <3>4. k - Len(buffer) = j /\ ~(k <= Len(buffer))
        <4>1. j = i + n /\ k = i + (b + n)
          BY <1>13, <2>2, <2>6, <3>3
        <4>2. i \in 1 .. c - n
          BY <1>12, <3>1
        <4>3. k - b = j /\ ~(k <= b)
          BY <1>4, <4>1, <4>2
        <4> QED
          BY <1>12, <4>3
      <3>5. At(k) = coming[j]
        BY <3>4 DEF At
      <3> QED
        BY <1>6, <3>1, <3>2, <3>3, <3>5
    <2>7. ASSUME NEW f, WillBeHeard(f) PROVE f \in heard' \/ WillBeHeard(f)'
      <3>1. PICK k \in Nat : Cut(k) /\ Stands(f, k)
        BY <2>7 DEF WillBeHeard
      <3>2. CASE k = 0
        <4>1. \A i \in 1 .. Size : more[i] = [frame |-> f, part |-> i]
          <5>1. \A i \in 1 .. Size : At(k + i) = [frame |-> f, part |-> i] /\ k + i = i
            BY <1>2, <3>1, <3>2 DEF Stands
          <5> QED
            BY <1>8, <2>2, <5>1
        <4>2. more[1].frame = f
          <5>1. more[1] = [frame |-> f, part |-> 1]
            BY <1>2, <4>1
          <5> QED
            BY <5>1
        <4>3. more = Bytes(f)
          <5>1. DOMAIN more = 1 .. Size /\ more = [i \in DOMAIN more |-> more[i]]
            BY <1>7, <2>2
          <5>2. Bytes(f) = [i \in 1 .. Size |-> [frame |-> f, part |-> i]]
            BY DEF Bytes
          <5> QED
            BY <4>1, <5>1, <5>2
        <4> QED
          BY <2>1, <4>2, <4>3 DEF Valid
      <3>3. CASE k # 0
        <4>1. k >= Size /\ Cut(k - Size)
          BY <3>1, <3>3, Cuts
        <4>2. PICK m \in Nat : m = k - Size
          BY <1>2, <4>1
        <4>3. m + Size <= Waiting'
          BY <1>2, <1>9, <2>4, <3>1, <4>1, <4>2 DEF Stands
        <4>4. ASSUME NEW i \in 1 .. Size PROVE At(m + i)' = [frame |-> f, part |-> i]
          <5>1. m + i \in 1 .. Waiting - Size /\ k + i = (m + i) + Size
            BY <1>2, <1>9, <2>4, <4>1, <4>2, <4>3
          <5>2. At(m + i)' = At(k + i)
            BY <2>6, <5>1
          <5> QED
            BY <3>1, <5>2 DEF Stands
        <4>5. Stands(f, m)'
          BY <4>3, <4>4 DEF Stands
        <4>6. Cut(m)'
          BY <4>1, <4>2 DEF Cut
        <4> QED
          BY <4>5, <4>6 DEF WillBeHeard
      <3> QED
        BY <3>2, <3>3
    <2>8. ASSUME Connected' PROVE Aligned'
      <3>1. Aligned /\ heard \subseteq heard'
        BY <1>1, <2>1, <2>8 DEF StreamInv, Connected
      <3>2. silent = 0
        BY <1>1, <3>1 DEF Aligned
      <3>3. ~harmed' => Cut(Waiting)'
        <4>1. ~harmed => Cut(Waiting)
          BY <3>1 DEF Aligned
        <4>2. Waiting # 0
          BY <1>2, <1>4, <1>9
        <4>3. ~harmed => Cut(Waiting - Size)
          BY <1>9, <4>1, <4>2, Cuts
        <4> QED
          BY <1>1, <2>4, <4>3 DEF Cut
      <3>4. \A f \in awaited' : f \in heard' \/ WillBeHeard(f)'
        BY <1>1, <2>7, <3>1 DEF Aligned
      <3> QED
        BY <1>1, <2>1, <3>2, <3>3, <3>4 DEF Aligned
    <2> QED
      BY <2>5, <2>8 DEF StreamInv
  <1> QED
    BY <1>10, <1>11

-----------------------------------------------------------------------------
(* Silence, and connections.                                               *)

\* With nothing in the socket there is no whole frame: all have been heard.
LEMMA NothingWaits ==
  ASSUME StreamTypes, coming = <<>>
  PROVE  /\ \A f : ~WillBeHeard(f)
         /\ Cut(Waiting) => buffer = <<>>
  <1>1. Len(buffer) \in Nat /\ Len(coming) = 0 /\ Size \in Nat /\ Size > 0
    BY StreamBounds DEF StreamTypes
  <1>2. PICK b \in Nat : b = Len(buffer) /\ b < Size
    BY <1>1 DEF StreamTypes
  <1>3. Waiting = b
    BY <1>1, <1>2 DEF Waiting
  <1>4. \A k \in Nat : ~(k + Size <= b)
    BY <1>1, <1>2
  <1>5. \A f : ~WillBeHeard(f)
    BY <1>3, <1>4 DEF WillBeHeard, Stands
  <1>6. Cut(b) => b = 0
    BY <1>1, <1>2, Cuts
  <1>7. Cut(Waiting) => buffer = <<>>
    BY <1>2, <1>3, <1>6, EmptySeq DEF StreamTypes
  <1> QED
    BY <1>5, <1>7

LEMMA SecondKeeps ==
  ASSUME StreamInv, Second
  PROVE  StreamInv'
  <1>1. /\ coming = <<>> /\ StreamTypes
        /\ silent' = IF silent < Stale THEN silent + 1 ELSE silent
        /\ harmed' = (harmed /\ silent' < Stale)
        /\ UNCHANGED <<mishaps, coming, sent, awaited, heard>>
    BY DEF Second, Smooth, mishapVars, StreamInv
  <1>2. /\ Stale \in Nat /\ age \in 0 .. Stale /\ silent \in 0 .. Stale
        /\ Size \in Nat /\ Size > 0 /\ <<>> \in Seq(Byte) /\ Len(<<>>) = 0
    BY <1>1, StreamBounds DEF StreamTypes
  <1> DEFINE older == IF age < Stale THEN age + 1 ELSE age
  <1>3. /\ silent' \in 0 .. Stale /\ older \in 0 .. Stale /\ 0 \in 0 .. Stale
        /\ (age >= silent => older >= silent') /\ harmed' \in BOOLEAN
    BY <1>1, <1>2
  <1>4. \/ /\ open /\ buffer # <<>> /\ older >= Stale
           /\ buffer' = <<>> /\ age' = 0 /\ open' = FALSE
        \/ /\ open /\ ~(buffer # <<>> /\ older >= Stale)
           /\ age' = (IF buffer = <<>> THEN 0 ELSE older) /\ UNCHANGED <<buffer, open>>
        \/ ~open /\ UNCHANGED <<buffer, age, open>>
    BY DEF Second, HandleReadTimeout
  <1> HIDE DEF older
  <1>5. StreamTypes'
    BY <1>1, <1>2, <1>3, <1>4 DEF StreamTypes
  <1>6. coming' = <<>> /\ \A f : ~WillBeHeard(f)
    BY <1>1, NothingWaits
  <1>7. ASSUME Connected' PROVE Aligned'
    <2>1. Aligned
      BY <1>1, <1>7 DEF StreamInv, Connected
    <2>2. ~open' => buffer' = <<>> /\ coming' = <<>>
      BY <1>1, <1>4, <2>1 DEF Aligned
    <2>3. buffer' # <<>> => age' = older /\ older >= silent' /\ ~(older >= Stale)
      BY <1>3, <1>4, <2>1 DEF Aligned
    <2>4. ~harmed' => buffer' = <<>>
      <3>1. CASE harmed
        <4>1. ~harmed' => ~(silent' < Stale)
          BY <1>1, <3>1
        <4> QED
          BY <1>2, <1>3, <2>3, <4>1
      <3>2. CASE ~harmed
        <4>1. buffer = <<>>
          BY <1>1, <2>1, <3>2, NothingWaits DEF Aligned
        <4> QED
          BY <1>4, <4>1
      <3> QED
        BY <3>1, <3>2
    <2>5. ~harmed' => Cut(Waiting)'
      <3>1. ~harmed' => Waiting' = 0
        BY <1>2, <1>6, <2>4 DEF Waiting
      <3> QED
        BY <3>1, Cuts DEF Cut
    <2>6. \A f \in awaited' : f \in heard'
      BY <1>1, <1>6, <2>1 DEF Aligned
    <2> QED
      BY <1>6, <2>2, <2>3, <2>5, <2>6 DEF Aligned
  <1> QED
    BY <1>5, <1>7 DEF StreamInv

LEMMA ConnectionKeeps ==
  ASSUME StreamInv, Reconnect \/ ConnectionLost
  PROVE  StreamInv'
  <1>1. StreamTypes /\ <<>> \in Seq(Byte) /\ Len(<<>>) = 0 /\ 0 \in 0 .. Stale /\ 0 < Size
    BY StreamBounds DEF StreamInv
  <1>2. CASE Reconnect
    <2>1. /\ ~open /\ open' = TRUE /\ buffer' = <<>> /\ age' = 0 /\ coming' = <<>>
          /\ harmed' = FALSE /\ UNCHANGED <<mishaps, sent, silent, awaited, heard>>
      BY <1>2 DEF Reconnect, Smooth, mishapVars
    <2>2. StreamTypes'
      BY <1>1, <2>1 DEF StreamTypes
    <2>3. ASSUME Connected' PROVE Aligned'
      <3>1. Aligned
        BY <2>1, <2>3 DEF StreamInv, Connected
      <3>2. \A f : ~WillBeHeard(f)
        BY <1>1, <2>1, <3>1, NothingWaits DEF Aligned
      <3>3. Waiting' = 0
        BY <1>1, <2>1 DEF Waiting
      <3>4. Cut(Waiting)'
        BY <3>3, Cuts DEF Cut
      <3> QED
        BY <2>1, <3>1, <3>2, <3>4 DEF Aligned
    <2> QED
      BY <2>2, <2>3 DEF StreamInv
  <1>3. CASE ConnectionLost
    <2>1. /\ Slip("lost") /\ open' = FALSE /\ coming' = <<>>
          /\ UNCHANGED <<buffer, age, sent, silent, harmed, awaited, heard>>
      BY <1>3 DEF ConnectionLost
    <2>2. StreamTypes'
      BY <1>1, <2>1 DEF StreamTypes
    <2>3. ~Connected'
      BY <2>1 DEF Connected, Slip
    <2> QED
      BY <2>2, <2>3 DEF StreamInv
  <1> QED
    BY <1>2, <1>3

\* Every whole frame is heard that was sent before a byte got lost or strayed,
\* after the line was silent for as long as a partial frame is kept, or over a
\* new connection: for every length of a frame, every timeout, and every way
\* in which the bytes are cut into chunks.
THEOREM FramesAreHeardHolds == StreamSpec => []FramesAreHeard
  <1>1. StreamInv /\ [StreamNext]_<<mishapVars, streamVars>> => StreamInv'
    <2> SUFFICES ASSUME StreamInv, [StreamNext]_<<mishapVars, streamVars>>
                 PROVE  StreamInv'
      OBVIOUS
    <2>1. CASE SendFrame
      BY <2>1, SendFrameKeeps
    <2>2. CASE ReadChunk
      BY <2>2, ReadChunkKeeps
    <2>3. CASE Second
      BY <2>3, SecondKeeps
    <2>4. CASE Reconnect \/ ConnectionLost
      BY <2>4, ConnectionKeeps
    <2>5. CASE UNCHANGED <<mishapVars, streamVars>>
      BY <2>5
         DEF mishapVars, streamVars, StreamInv, StreamTypes, Connected, Aligned,
             WillBeHeard, Stands, Cut, Waiting, At
    <2> QED
      BY <2>1, <2>2, <2>3, <2>4, <2>5 DEF StreamNext
  <1>2. StreamInv => FramesAreHeard
    BY NothingWaits DEF StreamInv, Connected, Aligned, FramesAreHeard
  <1> QED
    BY <1>1, <1>2, StreamStart, PTL DEF StreamSpec

-----------------------------------------------------------------------------
(***************************************************************************)
(* The gate: PresenceFollows.                                              *)
(***************************************************************************)
Keys == Vehicles \X Directions

Sightings == [v : Vehicles, in : Directions \cup {Unread}, at : Nat]

GateTypes ==
  /\ minute \in Nat /\ due \in BOOLEAN /\ (due => list = <<>>)
  /\ seen \in Seq(Sightings) /\ list \in Seq(Sightings)
  /\ held \in Directions \cup {Unread} /\ (held # Unread => list # <<>> /\ Head(list).in # Unread)
  /\ taken \in [Keys -> Int] /\ crossed \in [Keys -> Int]
  /\ present \in [Vehicles -> Directions] /\ shown \in [Vehicles -> Directions]
  /\ slips \in Nat

\* Nothing has gone wrong that PresenceFollows does not withstand.
Calm ==
  mishaps \cap {"return", "edge", "misread", "edit", "evening"} = {} /\ slips =< 1

Fresh(s) == taken[Key(s)] = Never

\* A key is set after the passage, by the second poll, and not kept for ever.
KeysOK ==
  \A k \in Keys :
    /\ crossed[k] >= Never /\ crossed[k] =< minute
    /\ taken[k] # Never =>
         /\ crossed[k] < taken[k] /\ taken[k] =< crossed[k] + 2
         /\ taken[k] =< minute /\ minute - taken[k] =< Timeout

\* What is listed is the last passage of its vehicle in its direction.
SeenOK ==
  \A s \in Sightings : Among(s, seen) =>
    /\ s.in \in Directions /\ crossed[Key(s)] = s.at
    /\ s.at =< minute /\ (due => s.at < minute) /\ minute - s.at =< Window

\* The polls that might have taken a sighting.
Polls(s) == minute - s.at - (IF due THEN 1 ELSE 0)

\* A sighting is taken by the first poll, or by the second one after a mishap,
\* and it tells where its vehicle is.
FreshOK ==
  \A s \in Sightings : Among(s, seen) /\ Fresh(s) =>
    /\ shown[s.v] = s.in
    /\ Polls(s) =< slips \/ (Among(s, list) /\ Polls(s) =< slips + 1)

ListOK ==
  /\ \A s \in Sightings : Among(s, list) => Among(s, seen) /\ s.at < minute
  /\ held # Unread => Fresh(Head(list)) /\ held = present[Head(list).v]

\* A vehicle is where it was seen, or a sighting that tells it is still to be
\* taken.
Settled ==
  \A v \in Vehicles :
    \/ present[v] = shown[v]
    \/ \E s \in Sightings : Among(s, seen) /\ s.v = v /\ Fresh(s)

GateInv == GateTypes /\ (Calm => KeysOK /\ SeenOK /\ FreshOK /\ ListOK /\ Settled)

LEMMA Lives ==
  /\ Timeout \in Nat /\ Window \in Nat /\ Window >= 2 /\ Window =< Timeout
  /\ Life = Timeout + 2 /\ Never = -Life - 1 /\ Life \in Nat /\ Never \in Int
  <1>1. Timeout \in Nat /\ Window \in Nat /\ Window >= 2 /\ Window =< Timeout
    BY CheckpointBounds
  <1> QED
    BY <1>1 DEF Life, Never

USE Lives

LEMMA GateStart == MishapInit /\ CheckpointInit => GateInv
  <1> SUFFICES ASSUME MishapInit, CheckpointInit PROVE GateInv
    OBVIOUS
  <1> USE DEF MishapInit, CheckpointInit
  <1>1. <<>> \in Seq(Sightings) /\ \A s : ~Among(s, seen)
    BY DEF Among
  <1>2. GateTypes
    BY <1>1 DEF GateTypes, Keys
  <1>3. KeysOK
    BY DEF KeysOK, Keys
  <1> QED
    BY <1>1, <1>2, <1>3 DEF GateInv, SeenOK, FreshOK, ListOK, Settled, Unread

\* Cameras 27 and 28 tell every passage, in the direction that they see it.
LEMMA GateCameras ==
  ASSUME NEW camera \in {27, 28}, NEW direction \in {1, 2}
  PROVE  CheckOnStation(camera, direction) \in Directions
  <1>1. CheckOnStation(27, 1) = "in" /\ CheckOnStation(28, 2) = "in"
    BY DEF CheckOnStation
  <1>2. CheckOnStation(27, 2) = "out" /\ CheckOnStation(28, 1) = "out"
    BY DEF CheckOnStation
  <1> QED
    BY <1>1, <1>2 DEF Directions

LEMMA CalmBefore ==
  ASSUME GateTypes, Calm', Smooth \/ (\E kind : Slip(kind))
  PROVE  Calm
  BY DEF GateTypes, Calm, Smooth, Slip, mishapVars

LEMMA SightingKey ==
  ASSUME NEW s \in Sightings, s.in \in Directions
  PROVE  Key(s) = <<s.v, s.in>> /\ Key(s) \in Keys
  BY DEF Sightings, Key, Keys

LEMMA PassKeeps ==
  ASSUME GateInv, NEW v \in Vehicles, Pass(v)
  PROVE  GateInv'
  <1> PICK camera \in {27, 28}, direction \in {1, 2} :
        LET in == CheckOnStation(camera, direction)
            again == \E d \in Directions :
                       minute - crossed[<<v, d>>] =< (IF d = in THEN Life ELSE 1)
        IN /\ in # inside[v] /\ inside' = [inside EXCEPT ![v] = in]
           /\ crossed' = [crossed EXCEPT ![<<v, in>>] = minute]
           /\ \/ /\ seen' = Append(seen, [v |-> v, in |-> in, at |-> minute])
                 /\ shown' = [shown EXCEPT ![v] = in]
                 /\ IF again THEN ~due /\ Slip("return")
                    ELSE IF due THEN Slip("edge") ELSE Smooth
              \/ /\ seen' = Append(seen, [v |-> v, in |-> Unread, at |-> minute])
                 /\ shown' = shown
                 /\ ~due /\ Slip("misread")
    BY DEF Pass
  <1> DEFINE in == CheckOnStation(camera, direction)
             new == [v |-> v, in |-> in, at |-> minute]
             lost == [v |-> v, in |-> Unread, at |-> minute]
             again == \E d \in Directions :
                        minute - crossed[<<v, d>>] =< (IF d = in THEN Life ELSE 1)
  <1>1. in \in Directions
    BY GateCameras
  <1>2. /\ crossed' = [crossed EXCEPT ![<<v, in>>] = minute]
        /\ \/ /\ seen' = Append(seen, new)
              /\ shown' = [shown EXCEPT ![v] = in]
              /\ IF again THEN ~due /\ Slip("return")
                 ELSE IF due THEN Slip("edge") ELSE Smooth
           \/ /\ seen' = Append(seen, lost)
              /\ shown' = shown
              /\ ~due /\ Slip("misread")
    OBVIOUS
  <1>3. /\ list = <<>>
        /\ UNCHANGED <<minute, due, list, held, taken, present, closed>>
    BY DEF Pass
  <1> HIDE DEF in
  <1>4. GateTypes
    BY DEF GateInv
  <1>5. new \in Sightings /\ lost \in Sightings /\ <<v, in>> \in Keys
    BY <1>1, <1>4 DEF Sightings, Keys, GateTypes
  <1> HIDE DEF new, lost, again
  <1>6. GateTypes'
    <2>1. seen' \in Seq(Sightings)
      <3>1. /\ seen' = Append(seen, new) \/ seen' = Append(seen, lost)
            /\ seen \in Seq(Sightings)
        BY <1>2, <1>4 DEF GateTypes
      <3> QED
        BY <3>1, <1>5, Appended
    <2>2. shown' \in [Vehicles -> Directions] /\ crossed' \in [Keys -> Int]
      <3>1. /\ shown' = [shown EXCEPT ![v] = in] \/ shown' = shown
            /\ crossed' = [crossed EXCEPT ![<<v, in>>] = minute]
        BY <1>2
      <3>2. /\ shown \in [Vehicles -> Directions] /\ crossed \in [Keys -> Int]
            /\ minute \in Int
        BY <1>4 DEF GateTypes
      <3>3. [shown EXCEPT ![v] = in] \in [Vehicles -> Directions]
        BY <3>2, <1>1
      <3>4. [crossed EXCEPT ![<<v, in>>] = minute] \in [Keys -> Int]
        BY <3>2
      <3> QED
        BY <3>1, <3>2, <3>3, <3>4
    <2>3. slips' \in Nat
      BY <1>2, <1>4 DEF GateTypes, Slip, Smooth, mishapVars
    <2> QED
      BY <2>1, <2>2, <2>3, <1>3, <1>4 DEF GateTypes
  <1>7. ASSUME Calm' PROVE (KeysOK /\ SeenOK /\ FreshOK /\ ListOK /\ Settled)'
    <2>1. /\ seen' = Append(seen, new) /\ shown' = [shown EXCEPT ![v] = in]
          /\ ~again /\ ~due /\ Smooth
      BY <1>2, <1>7 DEF Calm, Slip
    <2>2. Calm
      BY <2>1, <1>4, <1>7, CalmBefore
    <2>3. KeysOK /\ SeenOK /\ FreshOK /\ ListOK /\ Settled
      BY <2>2 DEF GateInv
    <2>4. /\ \A d \in Directions : <<v, d>> \in Keys /\ minute - crossed[<<v, d>>] > 1
          /\ minute - crossed[<<v, in>>] > Life
      <3>1. \A d \in Directions :
              /\ <<v, d>> \in Keys /\ crossed[<<v, d>>] \in Int /\ minute \in Int
              /\ ~(minute - crossed[<<v, d>>] =< (IF d = in THEN Life ELSE 1))
        <4>1. \A d \in Directions :
                ~(minute - crossed[<<v, d>>] =< (IF d = in THEN Life ELSE 1))
          BY <2>1, Zenon DEF again
        <4>2. \A d \in Directions :
                <<v, d>> \in Keys /\ crossed[<<v, d>>] \in Int /\ minute \in Int
          BY <1>4 DEF Keys, GateTypes
        <4> QED
          BY <4>1, <4>2
      <3>2. ~(minute - crossed[<<v, in>>] =< Life)
        BY <3>1, <1>1
      <3>3. \A d \in Directions : d # in => ~(minute - crossed[<<v, d>>] =< 1)
        BY <3>1
      <3>4. minute - crossed[<<v, in>>] > Life
        BY <3>1, <3>2, <1>1
      <3>5. \A d \in Directions : minute - crossed[<<v, d>>] > 1
        BY <3>1, <3>3, <3>4
      <3> QED
        BY <3>1, <3>4, <3>5
    <2>5. taken[<<v, in>>] = Never
      BY <2>3, <2>4, <1>4, <1>5 DEF KeysOK, GateTypes
    <2>6. \A x : Among(x, seen') <=> Among(x, seen) \/ x = new
      BY <2>1, <1>4, <1>5, Appended DEF GateTypes
    <2>7. Key(new) = <<v, in>> /\ new.v = v /\ new.in = in /\ new.at = minute
      BY DEF Key, new
    <2>8. ASSUME NEW s \in Sightings, Among(s, seen)
          PROVE  /\ Key(s) # <<v, in>> /\ Key(s) \in Keys
                 /\ s.v = v => ~Fresh(s)
      <3>1. /\ s.in \in Directions /\ crossed[Key(s)] = s.at /\ s.at =< minute
            /\ minute - s.at =< Window /\ Key(s) = <<s.v, s.in>> /\ Key(s) \in Keys
            /\ s.at \in Nat
        BY <2>3, <2>8, SightingKey DEF SeenOK, Sightings
      <3>2. Key(s) # <<v, in>>
        <4>1. minute - s.at =< Life /\ minute - crossed[<<v, in>>] > Life
          BY <3>1, <2>4, <1>4 DEF GateTypes
        <4>2. minute \in Nat
          BY <1>4 DEF GateTypes
        <4>3. ASSUME Key(s) = <<v, in>> PROVE FALSE
          <5>1. crossed[<<v, in>>] = s.at
            BY <3>1, <4>3
          <5> QED
            BY <5>1, <4>1, <4>2, <3>1
        <4> QED
          BY <4>3
      <3>3. s.v = v => minute - s.at > 1
        BY <3>1, <2>4
      <3>4. Fresh(s) => minute - s.at =< 1
        <4>1. ~Among(s, list)
          BY <1>3 DEF Among
        <4> QED
          BY <4>1, <2>1, <2>2, <2>3, <2>8, <3>1, <1>4
             DEF FreshOK, Polls, Calm, GateTypes
      <3> QED
        BY <3>1, <3>2, <3>3, <3>4, <1>4 DEF GateTypes
    <2>9. KeysOK'
      <3>1. \A k \in Keys : /\ taken[k] \in Int /\ crossed[k] \in Int
                            /\ crossed'[k] = IF k = <<v, in>> THEN minute ELSE crossed[k]
        BY <1>2, <1>4 DEF GateTypes
      <3>2. minute \in Nat /\ minute' = minute /\ taken' = taken
        BY <1>3, <1>4 DEF GateTypes
      <3> SUFFICES ASSUME NEW k \in Keys
                   PROVE  /\ crossed'[k] >= Never /\ crossed'[k] =< minute'
                          /\ taken'[k] # Never =>
                               /\ crossed'[k] < taken'[k] /\ taken'[k] =< crossed'[k] + 2
                               /\ taken'[k] =< minute' /\ minute' - taken'[k] =< Timeout
        BY DEF KeysOK
      <3>3. CASE k = <<v, in>>
        BY <3>1, <3>2, <3>3, <2>5
      <3>4. CASE k # <<v, in>>
        BY <3>1, <3>2, <3>4, <2>3 DEF KeysOK
      <3> QED
        BY <3>3, <3>4
    <2>10. SeenOK'
      <3> SUFFICES ASSUME NEW s \in Sightings, Among(s, seen')
                   PROVE  /\ s.in \in Directions /\ crossed'[Key(s)] = s.at
                          /\ s.at =< minute' /\ minute' - s.at =< Window
        BY <2>1, <1>3 DEF SeenOK, Key
      <3>1. CASE Among(s, seen)
        BY <3>1, <2>3, <2>8, <1>2, <1>3, <1>4 DEF SeenOK, GateTypes
      <3>2. CASE s = new
        BY <3>2, <2>7, <1>1, <1>2, <1>3, <1>4, <1>5 DEF GateTypes
      <3> QED
        BY <3>1, <3>2, <2>6
    <2>11. FreshOK'
      <3> SUFFICES ASSUME NEW s \in Sightings, Among(s, seen'), Fresh(s)'
                   PROVE  shown'[s.v] = s.in /\ minute' - s.at - (IF due' THEN 1 ELSE 0) =< slips'
        BY DEF FreshOK, Polls
      <3>1. Fresh(s)
        BY <1>3 DEF Fresh, Key
      <3>2. CASE Among(s, seen)
        <4>1. s.v # v /\ shown[s.v] = s.in /\ Polls(s) =< slips /\ s.v \in Vehicles
          BY <3>1, <3>2, <2>3, <2>8, <1>3 DEF FreshOK, Among, Sightings
        <4> QED
          BY <4>1, <2>1, <1>3, <1>4 DEF Polls, Smooth, mishapVars, GateTypes
      <3>3. CASE s = new
        BY <3>3, <2>1, <2>7, <1>3, <1>4 DEF Smooth, mishapVars, GateTypes
      <3> QED
        BY <3>2, <3>3, <2>6
    <2>12. ListOK'
      <3>1. held' = Unread /\ \A s : ~Among(s, list')
        BY <1>3, <1>4 DEF GateTypes, Among
      <3> QED
        BY <3>1 DEF ListOK
    <2>13. Settled'
      <3> SUFFICES ASSUME NEW u \in Vehicles
                   PROVE  \/ present'[u] = shown'[u]
                          \/ \E s \in Sightings :
                               Among(s, seen') /\ s.v = u /\ taken'[Key(s)] = Never
        BY DEF Settled, Fresh, Key
      <3>1. CASE u = v
        <4>1. taken'[Key(new)] = Never
          BY <2>5, <2>7, <1>3
        <4> QED
          BY <4>1, <3>1, <2>6, <2>7, <1>5
      <3>2. CASE u # v
        <4>1. present'[u] = present[u] /\ shown'[u] = shown[u] /\ taken' = taken
          BY <3>2, <2>1, <1>3, <1>4 DEF GateTypes
        <4> QED
          BY <4>1, <2>3, <2>6 DEF Settled, Fresh
      <3> QED
        BY <3>1, <3>2
    <2> QED
      BY <2>9, <2>10, <2>11, <2>12, <2>13
  <1> QED
    BY <1>6, <1>7 DEF GateInv

LEMMA EditKeeps ==
  ASSUME GateInv, NEW v \in Vehicles, EditVehicle(v)
  PROVE  GateInv'
  <1>1. GateTypes'
    <2>1. GateTypes /\ slips' \in Nat
      BY DEF GateInv, GateTypes, EditVehicle, Slip
    <2>2. PICK in \in Directions : present' = [present EXCEPT ![v] = in]
      BY DEF EditVehicle
    <2> QED
      BY <2>1, <2>2 DEF GateTypes, EditVehicle
  <1>2. ~Calm'
    BY DEF EditVehicle, Slip, Calm
  <1> QED
    BY <1>1, <1>2 DEF GateInv

LEMMA Reversed ==
  ASSUME NEW S, NEW s \in Seq(S)
  PROVE  Reverse(s) \in Seq(S) /\ \A x : Among(x, Reverse(s)) <=> Among(x, s)
  <1>1. Len(s) \in Nat /\ DOMAIN s = 1 .. Len(s) /\ \A i \in 1 .. Len(s) : s[i] \in S
    BY ElementOfSeq, LenProperties
  <1>2. \A i \in 1 .. Len(s) : Len(s) - i + 1 \in 1 .. Len(s)
    BY <1>1
  <1>3. /\ Reverse(s) = [i \in 1 .. Len(s) |-> s[Len(s) - i + 1]]
        /\ DOMAIN Reverse(s) = 1 .. Len(s)
    BY DEF Reverse
  <1>4. Reverse(s) \in Seq(S)
    BY <1>1, <1>2, <1>3, IsASeq
  <1>5. ASSUME NEW i \in 1 .. Len(s)
        PROVE  /\ Reverse(s)[i] = s[Len(s) - i + 1]
               /\ Reverse(s)[Len(s) - i + 1] = s[i]
    <2>1. Reverse(s)[i] = s[Len(s) - i + 1]
      BY <1>3
    <2>2. Reverse(s)[Len(s) - i + 1] = s[Len(s) - (Len(s) - i + 1) + 1]
      BY <1>2, <1>3
    <2>3. Len(s) - (Len(s) - i + 1) + 1 = i
      BY <1>1
    <2> QED
      BY <2>1, <2>2, <2>3
  <1> QED
    BY <1>1, <1>2, <1>3, <1>4, <1>5 DEF Among

LEMMA PollKeeps ==
  ASSUME GateInv, Poll
  PROVE  GateInv'
  <1>1. GateTypes /\ due = TRUE /\ due' = FALSE /\ list = <<>> /\ held = Unread
    BY DEF GateInv, GateTypes, Poll
  <1>2. UNCHANGED <<minute, seen, held, taken, present, shown, crossed>>
    BY DEF Poll
  <1>3. /\ \/ Smooth /\ list' = seen
           \/ Slip("skipped") /\ list' = <<>>
           \/ Slip("unordered") /\ list' = Reverse(seen)
        /\ seen \in Seq(Sightings) /\ slips \in Nat
    BY <1>1 DEF Poll, GateTypes
  <1>4. /\ slips' \in Nat
        /\ \/ slips' = slips /\ \A x : Among(x, list') <=> Among(x, seen)
           \/ slips' = slips + 1 /\ list' = <<>>
           \/ slips' = slips + 1 /\ \A x : Among(x, list') <=> Among(x, seen)
    BY <1>3, Reversed DEF Smooth, Slip, mishapVars
  <1>5. list' \in Seq(Sightings)
    <2>1. <<>> \in Seq(Sightings) /\ Reverse(seen) \in Seq(Sightings)
      BY <1>3, Reversed
    <2> QED
      BY <2>1, <1>3
  <1>6. GateTypes'
    BY <1>1, <1>2, <1>4, <1>5 DEF GateTypes
  <1>7. ASSUME Calm' PROVE (KeysOK /\ SeenOK /\ FreshOK /\ ListOK /\ Settled)'
    <2>1. Calm
      BY <1>1, <1>3, <1>7, CalmBefore
    <2>2. KeysOK /\ SeenOK /\ FreshOK /\ ListOK /\ Settled
      BY <2>1 DEF GateInv
    <2>3. KeysOK' /\ SeenOK' /\ Settled'
      BY <2>2, <1>1, <1>2 DEF KeysOK, SeenOK, Settled, Fresh, Key
    <2>4. held' = Unread
      BY <1>1, <1>2
    <2>5. ListOK'
      <3>1. \A s : ~Among(s, <<>>)
        BY DEF Among
      <3>2. \A s : Among(s, list') => Among(s, seen')
        BY <3>1, <1>2, <1>4
      <3>3. \A s \in Sightings : Among(s, seen) => s.at < minute
        BY <2>2, <1>1 DEF SeenOK
      <3> QED
        BY <3>2, <3>3, <2>4, <1>2 DEF ListOK
    <2>6. FreshOK'
      <3> SUFFICES ASSUME NEW s \in Sightings, Among(s, seen'), Fresh(s)'
                   PROVE  /\ shown'[s.v] = s.in
                          /\ \/ minute' - s.at - 0 =< slips'
                             \/ Among(s, list') /\ minute' - s.at - 0 =< slips' + 1
        BY <1>1 DEF FreshOK, Polls
      <3>1. Among(s, seen) /\ Fresh(s) /\ ~Among(s, list)
        BY <1>1, <1>2 DEF Fresh, Key, Among
      <3>2. shown[s.v] = s.in /\ minute - s.at - 1 =< slips
        BY <3>1, <2>2, <1>1 DEF FreshOK, Polls
      <3>3. minute \in Nat /\ s.at \in Nat
        BY <1>1 DEF GateTypes, Sightings
      <3> QED
        BY <3>1, <3>2, <3>3, <1>2, <1>3, <1>4
    <2> QED
      BY <2>3, <2>5, <2>6
  <1> QED
    BY <1>6, <1>7 DEF GateInv

\* Whether the key of a listed sighting is there is never in doubt: it is not
\* kept for less time than Intellect lists the sighting.
LEMMA KeyTells ==
  ASSUME GateInv, Calm, NEW s \in Sightings, Among(s, seen)
  PROVE  /\ s.in # Unread /\ s.in \in Directions /\ Key(s) \in Keys
         /\ Fresh(s) => ~Cached(s)
         /\ ~Fresh(s) => ~Expired(s)
  <1>1. GateTypes /\ KeysOK /\ SeenOK
    BY DEF GateInv
  <1>2. /\ s.in \in Directions /\ crossed[Key(s)] = s.at /\ minute - s.at =< Window
        /\ s.at \in Nat /\ minute \in Nat
    BY <1>1 DEF SeenOK, Sightings, GateTypes
  <1>3. Key(s) \in Keys /\ taken[Key(s)] \in Int
    BY <1>1, <1>2, SightingKey DEF GateTypes
  <1>4. taken[Key(s)] # Never => s.at < taken[Key(s)]
    BY <1>1, <1>2, <1>3 DEF KeysOK
  <1>5. s.in # Unread
    BY <1>2 DEF Directions, Unread
  <1> QED
    BY <1>2, <1>3, <1>4, <1>5 DEF Fresh, Cached, Expired

LEMMA HeadAndTail ==
  ASSUME NEW S, NEW s \in Seq(S), s # <<>>
  PROVE  /\ Tail(s) \in Seq(S) /\ Head(s) \in S
         /\ \A x : Among(x, s) <=> x = Head(s) \/ Among(x, Tail(s))
  <1>1. /\ Len(s) \in Nat \ {0} /\ DOMAIN s = 1 .. Len(s) /\ Head(s) = s[1]
        /\ Tail(s) \in Seq(S) /\ DOMAIN Tail(s) = 1 .. Len(s) - 1
        /\ \A i \in 1 .. Len(s) - 1 : Tail(s)[i] = s[i + 1]
    BY HeadTailProperties
  <1>2. Among(Head(s), s)
    BY <1>1 DEF Among
  <1>3. ASSUME NEW x, Among(x, Tail(s)) PROVE Among(x, s)
    <2>1. PICK i \in 1 .. Len(s) - 1 : s[i + 1] = x
      BY <1>1, <1>3 DEF Among
    <2>2. i + 1 \in 1 .. Len(s)
      BY <1>1
    <2> QED
      BY <2>1, <2>2, <1>1 DEF Among
  <1> QED
    BY <1>2, <1>3, Shortened

LEMMA SkipKeeps ==
  ASSUME GateInv, SkipSighting
  PROVE  GateInv'
  <1>1. GateTypes /\ list # <<>> /\ held = Unread /\ list' = Tail(list)
    BY DEF GateInv, SkipSighting
  <1>2. UNCHANGED <<minute, due, seen, held, taken, present, shown, crossed, slips, mishaps>>
    BY DEF SkipSighting, Smooth, mishapVars
  <1>3. /\ Tail(list) \in Seq(Sightings) /\ Head(list) \in Sightings
        /\ \A x : Among(x, list) <=> x = Head(list) \/ Among(x, list')
    BY <1>1, HeadAndTail DEF GateTypes
  <1>4. GateTypes'
    BY <1>1, <1>2, <1>3 DEF GateTypes
  <1>5. ASSUME Calm' PROVE (KeysOK /\ SeenOK /\ FreshOK /\ ListOK /\ Settled)'
    <2>1. Calm /\ KeysOK /\ SeenOK /\ FreshOK /\ ListOK /\ Settled
      BY <1>2, <1>5 DEF GateInv, Calm
    <2>2. KeysOK' /\ SeenOK' /\ Settled'
      BY <2>1, <1>2 DEF KeysOK, SeenOK, Settled, Fresh, Key
    <2>3. ListOK'
      BY <2>1, <1>1, <1>2, <1>3 DEF ListOK
    <2>4. Among(Head(list), seen)
      BY <2>1, <1>3 DEF ListOK
    <2>5. ~Fresh(Head(list))
      BY <2>1, <2>4, <1>3, KeyTells DEF SkipSighting
    <2>6. \A s \in Sightings : Fresh(s) => (Among(s, list) <=> Among(s, list'))
      BY <2>5, <1>3
    <2>7. FreshOK'
      BY <2>1, <2>6, <1>2 DEF FreshOK, Polls, Fresh, Key
    <2> QED
      BY <2>2, <2>3, <2>7
  <1> QED
    BY <1>4, <1>5 DEF GateInv

LEMMA FindKeeps ==
  ASSUME GateInv, FindVehicle
  PROVE  GateInv'
  <1>1. /\ GateTypes /\ list # <<>> /\ held = Unread
        /\ held' = present[Head(list).v]
    BY DEF GateInv, FindVehicle
  <1>2. UNCHANGED <<minute, due, seen, list, taken, present, shown, crossed, slips, mishaps>>
    BY DEF FindVehicle, Smooth, mishapVars
  <1>3. /\ Head(list) \in Sightings
        /\ \A x : Among(x, list) <=> x = Head(list) \/ Among(x, Tail(list))
    BY <1>1, HeadAndTail DEF GateTypes
  <1>4. GateTypes'
    <2>1. present[Head(list).v] \in Directions /\ Head(list).in # Unread
      BY <1>1, <1>3 DEF GateTypes, Sightings, FindVehicle
    <2> QED
      BY <2>1, <1>1, <1>2 DEF GateTypes
  <1>5. ASSUME Calm' PROVE (KeysOK /\ SeenOK /\ FreshOK /\ ListOK /\ Settled)'
    <2>1. Calm /\ KeysOK /\ SeenOK /\ FreshOK /\ ListOK /\ Settled
      BY <1>2, <1>5 DEF GateInv, Calm
    <2>2. KeysOK' /\ SeenOK' /\ Settled' /\ FreshOK'
      BY <2>1, <1>2 DEF KeysOK, SeenOK, Settled, FreshOK, Polls, Fresh, Key
    <2>3. Among(Head(list), seen)
      BY <2>1, <1>3 DEF ListOK
    <2>4. Fresh(Head(list))
      BY <2>1, <2>3, <1>3, KeyTells DEF FindVehicle
    <2>5. ListOK'
      BY <2>1, <2>4, <1>1, <1>2 DEF ListOK, Fresh, Key
    <2> QED
      BY <2>2, <2>5
  <1> QED
    BY <1>4, <1>5 DEF GateInv

LEMMA CloseKeeps ==
  ASSUME GateInv, CloseAllOnStation
  PROVE  GateInv'
  <1>1. /\ GateTypes
        /\ UNCHANGED <<minute, due, seen, list, held, taken, crossed>>
        /\ present' = [v \in Vehicles |-> "out"] /\ shown' = present'
    BY DEF GateInv, CloseAllOnStation
  <1>2. slips' \in Nat
    BY <1>1 DEF GateTypes, CloseAllOnStation, Slip, Smooth, mishapVars
  <1>3. GateTypes'
    BY <1>1, <1>2 DEF GateTypes, Directions
  <1>4. ASSUME Calm' PROVE (KeysOK /\ SeenOK /\ FreshOK /\ ListOK /\ Settled)'
    <2>1. /\ Smooth
          /\ ~\E i \in DOMAIN seen :
                seen[i].in # Unread /\ taken[Key(seen[i])] =< seen[i].at
      BY <1>4 DEF CloseAllOnStation, Slip, Calm
    <2>2. Calm /\ KeysOK /\ SeenOK /\ FreshOK /\ ListOK /\ Settled
      BY <2>1, <1>1, <1>4, CalmBefore DEF GateInv
    <2>3. \A s \in Sightings : Among(s, seen) => ~Fresh(s)
      <3> SUFFICES ASSUME NEW s \in Sightings, Among(s, seen), Fresh(s) PROVE FALSE
        OBVIOUS
      <3>1. s.in # Unread
        BY <2>2, KeyTells
      <3>2. taken[Key(s)] =< s.at
        BY DEF Fresh, Sightings
      <3> QED
        BY <3>1, <3>2, <2>1 DEF Among
    <2>4. KeysOK' /\ SeenOK'
      BY <2>2, <1>1 DEF KeysOK, SeenOK, Key
    <2>5. FreshOK'
      BY <2>3, <1>1 DEF FreshOK, Fresh, Key
    <2>6. held = Unread
      <3>1. ASSUME held # Unread PROVE FALSE
        <4>1. /\ list # <<>> /\ list \in Seq(Sightings) /\ Fresh(Head(list))
          BY <3>1, <2>2, <1>1 DEF ListOK, GateTypes
        <4>2. Head(list) \in Sightings /\ Among(Head(list), list)
          BY <4>1, HeadAndTail
        <4> QED
          BY <4>1, <4>2, <2>2, <2>3 DEF ListOK
      <3> QED
        BY <3>1
    <2>7. ListOK'
      BY <2>2, <2>6, <1>1 DEF ListOK
    <2>8. Settled'
      BY <1>1 DEF Settled
    <2> QED
      BY <2>4, <2>5, <2>7, <2>8
  <1> QED
    BY <1>3, <1>4 DEF GateInv

\* The presence of a vehicle is written when a sighting of it is still to be
\* taken, so it is the last one that was seen.
LEMMA ProcessKeeps ==
  ASSUME GateInv, ProcessEvent
  PROVE  GateInv'
  <1> DEFINE s0 == Head(list)
  <1>1. /\ GateTypes /\ held # Unread /\ held' = Unread /\ list # <<>>
        /\ list' = Tail(list) /\ held \in Directions
        /\ UNCHANGED <<minute, due, seen, shown, crossed>>
    BY DEF GateInv, GateTypes, ProcessEvent
  <1>2. /\ Tail(list) \in Seq(Sightings) /\ s0 \in Sightings
        /\ \A x : Among(x, list) <=> x = s0 \/ Among(x, Tail(list))
    BY <1>1, HeadAndTail DEF GateTypes
  <1>3. /\ present' = IF held = s0.in THEN present ELSE [present EXCEPT ![s0.v] = s0.in]
        /\ \/ taken' = [taken EXCEPT ![Key(s0)] = minute] /\ Smooth
           \/ taken' = taken /\ Slip("cache")
    BY DEF ProcessEvent, ApplyStationStatus
  <1>4. s0.in \in Directions /\ s0.v \in Vehicles /\ Key(s0) \in Keys
    BY <1>1, <1>2, SightingKey DEF GateTypes, Sightings
  <1> HIDE DEF s0
  <1>5. ASSUME Calm' PROVE (KeysOK /\ SeenOK /\ FreshOK /\ ListOK /\ Settled)'
    <2>1. Calm
      BY <1>1, <1>3, <1>5, CalmBefore
    <2>2. KeysOK /\ SeenOK /\ FreshOK /\ ListOK /\ Settled
      BY <2>1 DEF GateInv
    <2>3. Among(s0, seen) /\ Fresh(s0) /\ held = present[s0.v]
      BY <2>2, <1>1, <1>2 DEF ListOK, s0
    <2>4. /\ s0.in \in Directions /\ shown[s0.v] = s0.in /\ s0.v \in Vehicles
          /\ crossed[Key(s0)] = s0.at /\ Key(s0) \in Keys /\ s0.at \in Nat
          /\ 1 =< minute - s0.at /\ minute - s0.at =< 2
      <3>1. minute - s0.at =< slips + 1 \/ minute - s0.at =< slips
        <4>1. due = FALSE
          BY <1>1 DEF GateTypes
        <4>2. Polls(s0) = minute - s0.at - 0
          BY <4>1 DEF Polls
        <4>3. minute - s0.at - 0 =< slips \/ minute - s0.at - 0 =< slips + 1
          BY <4>2, <2>2, <2>3, <1>2 DEF FreshOK
        <4> QED
          BY <4>3, <1>1, <1>2 DEF GateTypes, Sightings
      <3>2. minute - s0.at =< 2
        BY <3>1, <2>1, <1>1, <1>2 DEF Calm, GateTypes, Sightings
      <3>3. s0.at < minute /\ s0.at \in Nat /\ minute \in Nat
        BY <2>2, <1>1, <1>2 DEF ListOK, GateTypes, Sightings
      <3>4. shown[s0.v] = s0.in /\ crossed[Key(s0)] = s0.at
        BY <2>2, <2>3, <1>2 DEF SeenOK, FreshOK
      <3> QED
        BY <3>2, <3>3, <3>4, <1>4
    <2>5. present' = [present EXCEPT ![s0.v] = s0.in]
      <3>1. held = s0.in => present = [present EXCEPT ![s0.v] = s0.in]
        BY <2>3, <1>1 DEF GateTypes
      <3> QED
        BY <3>1, <1>3
    <2>6. \A k \in Keys : /\ k # Key(s0) => taken'[k] = taken[k]
                          /\ taken'[k] = taken[k] \/ taken'[k] = minute
                          /\ taken[k] \in Int
      BY <1>1, <1>3, <1>4 DEF GateTypes
    <2>7. minute # Never /\ minute \in Nat
      BY <1>1 DEF GateTypes
    <2>8. KeysOK'
      <3> SUFFICES ASSUME NEW k \in Keys
                   PROVE  /\ crossed[k] >= Never /\ crossed[k] =< minute
                          /\ taken'[k] # Never =>
                               /\ crossed[k] < taken'[k] /\ taken'[k] =< crossed[k] + 2
                               /\ taken'[k] =< minute /\ minute - taken'[k] =< Timeout
        BY <1>1 DEF KeysOK
      <3>1. CASE taken'[k] = taken[k]
        BY <3>1, <2>2 DEF KeysOK
      <3>2. CASE k = Key(s0) /\ taken'[k] = minute
        BY <3>2, <2>2, <2>4, <2>7 DEF KeysOK
      <3> QED
        BY <3>1, <3>2, <2>6
    <2>9. SeenOK'
      BY <2>2, <1>1 DEF SeenOK, Key
    <2>10. ASSUME NEW s \in Sightings, Among(s, seen)
           PROVE  Key(s) \in Keys /\ Key(s) = <<s.v, s.in>>
      BY <2>2, <2>10, SightingKey DEF SeenOK
    <2>11. FreshOK'
      <3> SUFFICES ASSUME NEW s \in Sightings, Among(s, seen), taken'[Key(s)] = Never
                   PROVE  /\ shown[s.v] = s.in
                          /\ \/ Polls(s) =< slips'
                             \/ Among(s, list') /\ Polls(s) =< slips' + 1
        BY <1>1 DEF FreshOK, Polls, Fresh, Key
      <3>1. Fresh(s)
        BY <2>6, <2>7, <2>10 DEF Fresh
      <3>2. /\ shown[s.v] = s.in
            /\ Polls(s) =< slips \/ (Among(s, list) /\ Polls(s) =< slips + 1)
        BY <3>1, <2>2 DEF FreshOK
      <3>3. CASE taken' = [taken EXCEPT ![Key(s0)] = minute] /\ Smooth
        <4>1. s # s0
          BY <3>3, <2>7, <1>1, <1>4 DEF GateTypes
        <4>2. Among(s, list) => Among(s, list')
          BY <4>1, <1>1, <1>2
        <4> QED
          BY <3>2, <3>3, <4>2 DEF Smooth, mishapVars
      <3>4. CASE Slip("cache")
        <4>1. slips' = slips + 1 /\ slips \in Nat /\ Polls(s) \in Int
          BY <3>4, <1>1 DEF Slip, GateTypes, Polls, Sightings
        <4> QED
          BY <3>2, <4>1
      <3> QED
        BY <3>3, <3>4, <1>3
    <2>12. ListOK'
      BY <2>2, <1>1, <1>2 DEF ListOK
    <2>13. Settled'
      <3> SUFFICES ASSUME NEW v \in Vehicles
                   PROVE  \/ present'[v] = shown[v]
                          \/ \E s \in Sightings :
                               Among(s, seen) /\ s.v = v /\ taken'[Key(s)] = Never
        BY <1>1 DEF Settled, Fresh, Key
      <3>1. CASE v = s0.v
        BY <3>1, <2>4, <2>5, <1>1 DEF GateTypes
      <3>2. CASE v # s0.v
        <4>1. present'[v] = present[v]
          BY <3>2, <2>5, <1>1 DEF GateTypes
        <4>2. ASSUME NEW s \in Sightings, Among(s, seen), s.v = v, Fresh(s)
              PROVE  taken'[Key(s)] = Never
          <5>1. Key(s) # Key(s0)
            BY <3>2, <4>2, <2>3, <2>10, <1>2
          <5> QED
            BY <5>1, <4>2, <2>6, <2>10 DEF Fresh
        <4> QED
          BY <4>1, <4>2, <2>2 DEF Settled
      <3> QED
        BY <3>1, <3>2
    <2> QED
      BY <2>8, <2>9, <2>11, <2>12, <2>13
  <1>6. GateTypes'
    <2>1. present' \in [Vehicles -> Directions]
      BY <1>1, <1>2, <1>3, <1>4 DEF GateTypes, Sightings
    <2>2. taken' \in [Keys -> Int]
      BY <1>1, <1>3, <1>4 DEF GateTypes
    <2>3. slips' \in Nat
      BY <1>1, <1>3 DEF GateTypes, Smooth, Slip, mishapVars
    <2>4. due' = FALSE
      BY <1>1 DEF GateTypes
    <2> QED
      BY <2>1, <2>2, <2>3, <2>4, <1>1, <1>2 DEF GateTypes
  <1> QED
    BY <1>5, <1>6 DEF GateInv

\* A key is gone before its passage is forgotten.
LEMMA KeysAge ==
  ASSUME NEW m \in Nat, NEW p \in Int, NEW t \in Int, NEW m1, NEW p1, NEW t1,
         m1 = m + 1, p >= Never, p =< m,
         t # Never => p < t /\ t =< p + 2 /\ t =< m /\ m - t =< Timeout,
         p1 = IF m1 - p > Life THEN Never ELSE p,
         t1 = IF m1 - t > Timeout THEN Never ELSE t
  PROVE  /\ p1 >= Never /\ p1 =< m1
         /\ t1 # Never => /\ p1 < t1 /\ t1 =< p1 + 2
                          /\ t1 =< m1 /\ m1 - t1 =< Timeout
  OBVIOUS

\* What Intellect drops at the end of a minute was taken long ago.
LEMMA TickKeeps ==
  ASSUME GateInv, Tick
  PROVE  GateInv'
  <1>1. /\ GateTypes /\ due = FALSE /\ due' = TRUE /\ list = <<>> /\ held = Unread
        /\ minute' = minute + 1 /\ minute \in Nat /\ minute' \in Nat
        /\ UNCHANGED <<list, held, present, shown, slips, mishaps>>
    BY DEF GateInv, GateTypes, Tick, Smooth, mishapVars
  <1>2. PICK n \in Nat :
          /\ n =< Len(seen) /\ Len(seen) \in Nat
          /\ \A i \in DOMAIN seen : i > n <=> minute' - seen[i].at =< Window
          /\ seen' = SubSeq(seen, n + 1, Len(seen))
    <2>1. Len(seen) \in Nat
      BY <1>1, LenProperties DEF GateTypes
    <2>2. PICK n \in 0 .. Len(seen) :
            /\ \A i \in DOMAIN seen : i > n <=> minute' - seen[i].at =< Window
            /\ seen' = SubSeq(seen, n + 1, Len(seen))
      BY DEF Tick
    <2>3. n \in Nat /\ n =< Len(seen)
      BY <2>1
    <2> QED
      BY <1>1, <2>1, <2>2, <2>3
  <1>3. /\ taken' = [k \in Keys |->
                      IF minute' - taken[k] > Timeout THEN Never ELSE taken[k]]
        /\ crossed' = [k \in Keys |->
                       IF minute' - crossed[k] > Life THEN Never ELSE crossed[k]]
    BY <1>1 DEF Tick, GateTypes
  <1>4. /\ seen' \in Seq(Sightings)
        /\ \A x \in Sightings :
             Among(x, seen') <=> Among(x, seen) /\ minute' - x.at =< Window
    <2>1. /\ seen \in Seq(Sightings) /\ Len(seen) \in Nat /\ DOMAIN seen = 1 .. Len(seen)
          /\ \A i \in 1 .. Len(seen) : seen[i] \in Sightings
      BY <1>1, ElementOfSeq, LenProperties DEF GateTypes
    <2>2. \A i \in n + 1 .. Len(seen) : seen[i] \in Sightings
      BY <2>1
    <2>3. /\ seen' \in Seq(Sightings)
          /\ Len(seen') = IF n + 1 =< Len(seen) THEN Len(seen) - (n + 1) + 1 ELSE 0
          /\ \A i \in 1 .. Len(seen) - (n + 1) + 1 : seen'[i] = seen[n + 1 + i - 1]
      BY <1>2, <2>1, <2>2, SubSeqProperties
    <2>4. /\ DOMAIN seen' = 1 .. Len(seen) - n
          /\ \A i \in 1 .. Len(seen) - n : seen'[i] = seen[n + i] /\ n + i \in DOMAIN seen
      <3>1. Len(seen') = Len(seen) - n /\ Len(seen) - (n + 1) + 1 = Len(seen) - n
        <4>1. PICK l \in Nat : l = Len(seen)
          BY <2>1
        <4>2. n =< l /\ Len(seen') = IF n + 1 =< l THEN l - (n + 1) + 1 ELSE 0
          BY <4>1, <2>3, <1>2
        <4>3. Len(seen') = l - n /\ l - (n + 1) + 1 = l - n
          BY <4>2
        <4> QED
          BY <4>1, <4>3
      <3>2. \A i \in 1 .. Len(seen) - n : n + 1 + i - 1 = n + i /\ n + i \in DOMAIN seen
        BY <2>1
      <3>3. DOMAIN seen' = 1 .. Len(seen')
        BY <2>3, LenProperties
      <3> QED
        BY <2>3, <3>1, <3>2, <3>3
    <2>5. ASSUME NEW x \in Sightings, Among(x, seen')
          PROVE  Among(x, seen) /\ minute' - x.at =< Window
      <3>1. PICK i \in 1 .. Len(seen) - n : seen[n + i] = x /\ n + i \in DOMAIN seen
        BY <2>4, <2>5 DEF Among
      <3>2. n + i > n
        BY <3>1, <2>1
      <3> QED
        BY <1>2, <3>1, <3>2 DEF Among
    <2>6. ASSUME NEW x \in Sightings, Among(x, seen), minute' - x.at =< Window
          PROVE  Among(x, seen')
      <3>1. PICK i \in DOMAIN seen : seen[i] = x
        BY <2>6 DEF Among
      <3>2. i > n
        BY <1>2, <2>6, <3>1
      <3>3. i - n \in 1 .. Len(seen) - n /\ n + (i - n) = i
        BY <2>1, <3>1, <3>2
      <3> QED
        BY <2>4, <3>1, <3>3 DEF Among
    <2> QED
      BY <2>3, <2>5, <2>6
  <1>5. GateTypes'
    <2>1. taken' \in [Keys -> Int] /\ crossed' \in [Keys -> Int]
      BY <1>1, <1>3 DEF GateTypes
    <2> QED
      BY <1>1, <1>4, <2>1 DEF GateTypes
  <1>6. ASSUME Calm' PROVE (KeysOK /\ SeenOK /\ FreshOK /\ ListOK /\ Settled)'
    <2>1. Calm /\ KeysOK /\ SeenOK /\ FreshOK /\ ListOK /\ Settled
      BY <1>1, <1>6 DEF GateInv, Calm
    <2>2. \A k \in Keys :
            /\ taken[k] \in Int /\ crossed[k] \in Int
            /\ taken'[k] = IF minute' - taken[k] > Timeout THEN Never ELSE taken[k]
            /\ crossed'[k] = IF minute' - crossed[k] > Life THEN Never ELSE crossed[k]
      BY <1>1, <1>3 DEF GateTypes
    <2>3. KeysOK'
      <3> SUFFICES ASSUME NEW k \in Keys
                   PROVE  /\ crossed'[k] >= Never /\ crossed'[k] =< minute'
                          /\ taken'[k] # Never =>
                               /\ crossed'[k] < taken'[k] /\ taken'[k] =< crossed'[k] + 2
                               /\ taken'[k] =< minute'
                               /\ minute' - taken'[k] =< Timeout
        BY <1>1 DEF KeysOK
      <3>1. /\ crossed[k] >= Never /\ crossed[k] =< minute
            /\ taken[k] # Never =>
                 /\ crossed[k] < taken[k] /\ taken[k] =< crossed[k] + 2
                 /\ taken[k] =< minute /\ minute - taken[k] =< Timeout
        BY <2>1 DEF KeysOK
      <3> QED
        BY <3>1, <2>2, <1>1, KeysAge
    <2>4. ASSUME NEW s \in Sightings, Among(s, seen')
          PROVE  /\ Among(s, seen) /\ s.in \in Directions /\ Key(s) \in Keys
                 /\ crossed[Key(s)] = s.at /\ s.at =< minute /\ s.at \in Nat
                 /\ minute' - s.at =< Window
                 /\ taken'[Key(s)] = taken[Key(s)]
      <3>1. Among(s, seen) /\ minute' - s.at =< Window /\ s.at \in Nat
        BY <2>4, <1>1, <1>4 DEF Sightings
      <3>2. s.in \in Directions /\ crossed[Key(s)] = s.at /\ s.at =< minute
        BY <3>1, <2>1 DEF SeenOK
      <3>3. Key(s) \in Keys
        BY <3>2, SightingKey
      <3>4. taken[Key(s)] # Never => s.at < taken[Key(s)]
        BY <2>1, <3>2, <3>3 DEF KeysOK
      <3>5. PICK t \in Int : t = taken[Key(s)]
        BY <2>2, <3>3
      <3>6. taken'[Key(s)] = IF minute' - t > Timeout THEN Never ELSE t
        BY <2>2, <3>3, <3>5
      <3>7. ASSUME t # Never PROVE ~(minute' - t > Timeout)
        <4>1. s.at < t
          BY <3>4, <3>5, <3>7
        <4> QED
          BY <4>1, <3>1, <1>1
      <3>8. taken'[Key(s)] = taken[Key(s)]
        BY <3>5, <3>6, <3>7
      <3> QED
        BY <3>1, <3>2, <3>3, <3>8
    <2>5. SeenOK'
      <3> SUFFICES ASSUME NEW s \in Sightings, Among(s, seen')
                   PROVE  /\ s.in \in Directions /\ crossed'[Key(s)] = s.at
                          /\ s.at =< minute' /\ s.at < minute'
                          /\ minute' - s.at =< Window
        BY <1>1 DEF SeenOK, Key
      <3>1. /\ s.in \in Directions /\ Key(s) \in Keys /\ crossed[Key(s)] = s.at
            /\ s.at =< minute /\ s.at \in Nat /\ minute' - s.at =< Window
        BY <2>4
      <3>2. ~(minute' - s.at > Life) /\ s.at < minute'
        BY <3>1, <1>1
      <3>3. crossed'[Key(s)] = s.at
        BY <3>1, <3>2, <2>2
      <3> QED
        BY <3>1, <3>2, <3>3, <1>1
    <2>6. FreshOK'
      <3> SUFFICES ASSUME NEW s \in Sightings, Among(s, seen'), taken'[Key(s)] = Never
                   PROVE  shown[s.v] = s.in /\ minute' - s.at - 1 =< slips
        <4>1. \A s \in Sightings : /\ Fresh(s)' <=> taken'[Key(s)] = Never
                                   /\ Polls(s)' = minute' - s.at - 1
          BY <1>1 DEF Fresh, Key, Polls
        <4> QED
          BY <4>1, <1>1 DEF FreshOK
      <3>1. Among(s, seen) /\ Fresh(s) /\ s.at \in Nat
        BY <2>4 DEF Fresh
      <3>2. ~Among(s, list)
        BY <1>1 DEF Among
      <3>3. shown[s.v] = s.in /\ minute - s.at - 0 =< slips
        BY <3>1, <3>2, <2>1, <1>1 DEF FreshOK, Polls
      <3> QED
        BY <3>1, <3>3, <1>1 DEF GateTypes
    <2>7. ListOK'
      BY <1>1 DEF ListOK, Among
    <2>8. ASSUME NEW s \in Sightings, Among(s, seen), Fresh(s)
          PROVE  Among(s, seen') /\ taken'[Key(s)] = Never
      <3>1. ~Among(s, list)
        BY <1>1 DEF Among
      <3>2. minute - s.at - 0 =< slips /\ slips =< 1
        BY <3>1, <2>1, <2>8, <1>1 DEF FreshOK, Polls, Calm
      <3>3. minute' - s.at =< Window
        BY <3>2, <1>1 DEF GateTypes, Sightings
      <3>4. Among(s, seen')
        BY <3>3, <2>8, <1>1, <1>4
      <3> QED
        BY <3>4, <2>4, <2>8 DEF Fresh
    <2>9. Settled'
      <3> SUFFICES ASSUME NEW v \in Vehicles
                   PROVE  \/ present[v] = shown[v]
                          \/ \E s \in Sightings :
                               Among(s, seen') /\ s.v = v /\ taken'[Key(s)] = Never
        BY <1>1 DEF Settled, Fresh, Key
      <3> QED
        BY <2>1, <2>8 DEF Settled
    <2> QED
      BY <2>3, <2>5, <2>6, <2>7, <2>9
  <1> QED
    BY <1>5, <1>6 DEF GateInv

\* Once Intellect lists no sighting of it any more, a vehicle is where it was
\* seen last: every sighting is taken, by its first poll or by its second one,
\* before its vehicle passes again, and no sighting is taken twice, for every
\* number of vehicles, minutes and passages, every life of the keys, and every
\* window that is no longer than that.
THEOREM PresenceFollowsHolds == CheckpointSpec => []PresenceFollows
  <1>1. GateInv /\ [CheckpointNext]_<<mishapVars, checkpointVars>> => GateInv'
    <2> SUFFICES ASSUME GateInv, [CheckpointNext]_<<mishapVars, checkpointVars>>
                 PROVE  GateInv'
      OBVIOUS
    <2>1. ASSUME NEW v \in Vehicles, Pass(v) PROVE GateInv'
      BY <2>1, PassKeeps
    <2>2. ASSUME NEW v \in Vehicles, EditVehicle(v) PROVE GateInv'
      BY <2>2, EditKeeps
    <2>3. CASE Tick
      BY <2>3, TickKeeps
    <2>4. CASE Poll
      BY <2>4, PollKeeps
    <2>5. CASE SkipSighting
      BY <2>5, SkipKeeps
    <2>6. CASE FindVehicle
      BY <2>6, FindKeeps
    <2>7. CASE ProcessEvent
      BY <2>7, ProcessKeeps
    <2>8. CASE CloseAllOnStation
      BY <2>8, CloseKeeps
    <2>9. CASE UNCHANGED <<mishapVars, checkpointVars>>
      BY <2>9
         DEF mishapVars, checkpointVars, GateInv, GateTypes, Calm, KeysOK, SeenOK,
             FreshOK, ListOK, Settled, Polls, Fresh, Key
    <2> QED
      BY <2>1, <2>2, <2>3, <2>4, <2>5, <2>6, <2>7, <2>8, <2>9 DEF CheckpointNext
  <1>2. GateInv => PresenceFollows
    <2> SUFFICES ASSUME GateInv, Calm, seen = <<>> PROVE present = shown
      BY DEF PresenceFollows, Calm
    <2>1. \A s : ~Among(s, seen)
      BY DEF Among
    <2>2. \A v \in Vehicles : present[v] = shown[v]
      BY <2>1 DEF GateInv, Settled
    <2>3. present \in [Vehicles -> Directions] /\ shown \in [Vehicles -> Directions]
      BY DEF GateInv, GateTypes
    <2> QED
      BY <2>2, <2>3
  <1> QED
    BY <1>1, <1>2, GateStart, PTL DEF CheckpointSpec

-----------------------------------------------------------------------------
\* A set of numbers that is not empty has a least element.
LEMMA Smallest ==
  ASSUME NEW T, T \subseteq Nat, T # {}
  PROVE  \E x \in T : \A y \in T : x <= y
  <1> DEFINE Below(n) == 1 .. n
             B == {Below(n) : n \in T}
             R == StrictSubsetOrdering(Nat)
  <1>1. B \subseteq FiniteSubsetsOf(Nat) /\ B # {}
    <2>1. ASSUME NEW n \in T PROVE Below(n) \in FiniteSubsetsOf(Nat)
      <3>1. IsFiniteSet(1 .. n) /\ 1 .. n \subseteq Nat
        BY FS_Interval
      <3> QED
        BY <3>1 DEF FiniteSubsetsOf
    <2> QED
      BY <2>1
  <1>2. IsWellFoundedOn(R, FiniteSubsetsOf(Nat))
    BY FS_StrictSubsetOrderingWellFounded
  <1> HIDE DEF B, R
  <1>3. PICK b \in B : \A c \in B : ~ (<<c, b>> \in R)
    BY <1>1, <1>2, WFMin
  <1>4. PICK x \in T : b = Below(x)
    BY DEF B
  <1>5. ASSUME NEW y \in T PROVE x <= y
    <2>1. Below(y) \in B
      BY DEF B
    <2>2. ~ (<<Below(y), Below(x)>> \in R)
      BY <2>1, <1>3, <1>4
    <2>3. Below(y) \subseteq Nat /\ Below(x) \subseteq Nat
      OBVIOUS
    <2>4. CASE y < x
      <3>1. Below(y) \subseteq Below(x) /\ x \in Below(x) /\ x \notin Below(y)
        BY <2>4
      <3> QED
        BY <2>2, <2>3, <3>1 DEF R, StrictSubsetOrdering
    <2> QED
      BY <2>4
  <1> QED
    BY <1>5

-----------------------------------------------------------------------------
(* VehicleChoice: what is found for the text of a combination.             *)

Combos == [truck : Trucks, trailer : Trailers \cup {0}]

ChoiceTypes ==
  /\ truck \in [Trucks -> TruckRow] /\ trailer \in [Trailers -> TrailerRow]
  /\ meant \in Seq(Combos)

\* The panel is empty, or it shows a proposal, or a list.
PanelProposes ==
  /\ Len(meant) = 1
  /\ panel = [ready |-> TRUE, proposed |-> FormatListLine(meant[1]), lines |-> <<>>]

PanelLists == panel = [ready |-> FALSE, proposed |-> <<>>,
                   lines |-> [i \in 1 .. Len(meant) |-> FormatListLine(meant[i])]]

\* What was offered could be booked then, and can be until somebody edits a
\* vehicle.
OffersWhole == \A i \in 1 .. Len(meant) : Whole(meant[i])

ChoiceInv ==
  /\ ChoiceTypes /\ (PanelProposes \/ PanelLists)
  /\ "edit" \notin mishaps => OffersWhole
  /\ ConfirmedAsShown

\* What is read from the texts of a combination.
Texts(c) == {CanonicalizeRegistrationNumber(FormatListLine(c)[i]) : i \in DOMAIN FormatListLine(c)}

LEMMA TextsOfCombo ==
  ASSUME NEW c \in Combos
  PROVE  /\ \A n \in Trucks \cup Trailers :
              Stored(n) \in Texts(c) <=> n \in {c.truck, c.trailer} \ Service
         /\ {CanonicalizeRegistrationNumber(ParseVehicleListLine(FormatListLine(c))[i]) :
               i \in DOMAIN ParseVehicleListLine(FormatListLine(c))} = Texts(c)
         /\ ParseVehicleListLine(FormatListLine(c)) # <<>>
  <1> DEFINE canon(text) == CanonicalizeRegistrationNumber(text)
             numbers == IF c.trailer = 0 THEN <<c.truck>> ELSE <<c.truck, c.trailer>>
  <1>1. /\ FormatListLine(c) = [i \in 1 .. Len(numbers) |-> FormatHmi(numbers[i])]
        /\ Len(numbers) \in {1, 2}
    BY DEF FormatListLine
  <1>2. \A n : /\ canon(FormatHmi(n)) = Stored(n) <=> n \notin Service
               /\ canon(FormatHmi(n)) \in {FormatHmi(n), Stored(n)}
               /\ canon(canon(FormatHmi(n))) = canon(FormatHmi(n))
               /\ \A m : canon(FormatHmi(n)) = Stored(m) <=> n = m /\ n \notin Service
    BY DEF CanonicalizeRegistrationNumber, FormatHmi, Stored
  <1>3. DOMAIN FormatListLine(c) = 1 .. Len(numbers)
    BY <1>1
  <1>4. /\ DOMAIN ParseVehicleListLine(FormatListLine(c)) = 1 .. Len(numbers)
        /\ \A i \in 1 .. Len(numbers) :
             ParseVehicleListLine(FormatListLine(c))[i] = canon(FormatHmi(numbers[i]))
    BY <1>1, <1>3 DEF ParseVehicleListLine
  <1>5. Texts(c) = {canon(FormatHmi(numbers[i])) : i \in 1 .. Len(numbers)}
    BY <1>1, <1>3 DEF Texts
  <1>6. \A n \in Trucks \cup Trailers :
          Stored(n) \in Texts(c) <=> n \in {c.truck, c.trailer} \ Service
    <2> HIDE DEF canon
    <2>1. 0 \notin Trucks \cup Trailers
      BY PlatesAreNat
    <2>2. \A n : (\E i \in 1 .. Len(numbers) : numbers[i] = n)
                   <=> (n = c.truck \/ (c.trailer # 0 /\ n = c.trailer))
      OBVIOUS
    <2> HIDE DEF numbers
    <2> SUFFICES ASSUME NEW n \in Trucks \cup Trailers
                 PROVE  Stored(n) \in Texts(c) <=> n \in {c.truck, c.trailer} \ Service
      OBVIOUS
    <2>3. Stored(n) \in Texts(c)
            <=> \E i \in 1 .. Len(numbers) : canon(FormatHmi(numbers[i])) = Stored(n)
      BY <1>5
    <2>4. \A i \in 1 .. Len(numbers) :
            canon(FormatHmi(numbers[i])) = Stored(n) <=> numbers[i] = n /\ n \notin Service
      BY <1>2
    <2>5. n # 0
      BY <2>1
    <2> QED
      BY <2>2, <2>3, <2>4, <2>5
  <1> HIDE DEF canon, numbers
  <1>7. {canon(ParseVehicleListLine(FormatListLine(c))[i]) :
           i \in DOMAIN ParseVehicleListLine(FormatListLine(c))} = Texts(c)
    BY <1>2, <1>4, <1>5
  <1>8. ParseVehicleListLine(FormatListLine(c)) # <<>>
    BY <1>1, <1>4
  <1> QED
    BY <1>6, <1>7, <1>8 DEF canon

\* Every combination that is found can be booked, and belongs to one of the
\* trucks that were named.
LEMMA FoundIsWhole ==
  ASSUME ChoiceTypes, NEW texts, NEW c \in FindTransports(texts)
  PROVE  c \in Combos /\ Whole(c) /\ Stored(c.truck) \in texts
  <1> DEFINE named == FirstOf({t \in Cisterns \cup Tractors : Stored(t) \in texts}, truck)
             behind == FirstOf({x \in GasTrailers : Stored(x) \in texts}, trailer)
             linked(t) ==
               IF behind = {} THEN LinkedGasTrailer(t)
               ELSE UNION {IF trailer[x].truck = t THEN {x} ELSE LinkedGasTrailer(t) : x \in behind}
  <1>1. FindTransports(texts) =
          UNION {IF t \in Cisterns THEN {Alone(t)} ELSE {With(x) : x \in linked(t)} : t \in named}
    BY DEF FindTransports
  <1>2. \A S, table : FirstOf(S, table) \subseteq S
    BY DEF FirstOf
  <1>3. named \subseteq {t \in Cisterns \cup Tractors : Stored(t) \in texts}
    BY <1>2
  <1>4. behind \subseteq GasTrailers
    BY <1>2
  <1>5. \A t : LinkedGasTrailer(t) \subseteq {x \in GasTrailers : trailer[x].truck = t}
    BY <1>2 DEF LinkedGasTrailer
  <1> HIDE DEF named, behind
  <1>6. \A t : linked(t) \subseteq {x \in GasTrailers : trailer[x].truck = t}
    BY <1>4, <1>5
  <1> HIDE DEF linked
  <1>7. PICK t \in named : c \in (IF t \in Cisterns THEN {Alone(t)} ELSE {With(x) : x \in linked(t)})
    BY <1>1
  <1>8. t \in Trucks /\ Stored(t) \in texts
    BY <1>3 DEF Cisterns, Tractors
  <1>9. CASE t \in Cisterns
    BY <1>7, <1>8, <1>9 DEF Alone, Whole, Combos
  <1>10. CASE t \notin Cisterns
    <2>1. PICK x \in linked(t) : c = With(x)
      BY <1>7, <1>10
    <2>2. x \in GasTrailers /\ trailer[x].truck = t /\ t \in Tractors
      BY <1>3, <1>6, <1>10, <2>1
    <2>3. c = [truck |-> t, trailer |-> x] /\ x \in Trailers
      BY <2>1, <2>2 DEF With, GasTrailers
    <2> QED
      BY <1>8, <2>2, <2>3 DEF Whole, Combos
  <1> QED
    BY <1>9, <1>10

\* The texts of a combination lead to it again as long as it can be booked, and
\* to its truck whatever has been edited.
LEMMA FoundAgain ==
  ASSUME ChoiceTypes, NEW c \in Combos
  PROVE  /\ \A d \in FindTransports(Texts(c)) : d.truck = c.truck /\ Whole(d)
         /\ Whole(c) /\ {c.truck, c.trailer} \cap Service = {}
              => FindTransports(Texts(c)) = {c}
  <1>1. \A n \in Trucks \cup Trailers :
          Stored(n) \in Texts(c) <=> n \in {c.truck, c.trailer} \ Service
    BY TextsOfCombo
  <1>2. /\ c.truck \in Trucks /\ c.trailer \in Trailers \cup {0}
        /\ c = [truck |-> c.truck, trailer |-> c.trailer]
        /\ 0 \notin Trucks \cup Trailers
    BY PlatesAreNat DEF Combos
  <1>3. ASSUME NEW d \in FindTransports(Texts(c)) PROVE d.truck = c.truck /\ Whole(d)
    <2>1. d \in Combos /\ Whole(d) /\ Stored(d.truck) \in Texts(c)
      BY <1>3, FoundIsWhole
    <2>2. d.truck \in Trucks
      BY <2>1 DEF Combos
    <2> QED
      BY <1>1, <1>2, <2>1, <2>2, PatternsDiffer
  <1>4. ASSUME Whole(c), {c.truck, c.trailer} \cap Service = {}
        PROVE  FindTransports(Texts(c)) = {c}
    <2> DEFINE named == FirstOf({t \in Cisterns \cup Tractors : Stored(t) \in Texts(c)}, truck)
               behind == FirstOf({x \in GasTrailers : Stored(x) \in Texts(c)}, trailer)
               linked(t) ==
                 IF behind = {} THEN LinkedGasTrailer(t)
                 ELSE UNION {IF trailer[x].truck = t THEN {x} ELSE LinkedGasTrailer(t) : x \in behind}
    <2>1. FindTransports(Texts(c)) =
            UNION {IF t \in Cisterns THEN {Alone(t)} ELSE {With(x) : x \in linked(t)} : t \in named}
      BY DEF FindTransports
    <2>2. \A x, table : FirstOf({x}, table) = {x}
      BY DEF FirstOf
    <2>3. /\ Cisterns \subseteq Trucks /\ Tractors \subseteq Trucks /\ GasTrailers \subseteq Trailers
          /\ Cisterns \cap Tractors = {}
      BY DEF Cisterns, Tractors, GasTrailers
    <2>4. c.truck \in Cisterns \cup Tractors
      BY <1>4 DEF Whole
    <2>5. {t \in Cisterns \cup Tractors : Stored(t) \in Texts(c)} = {c.truck}
      BY <1>1, <1>2, <1>4, <2>3, <2>4, PatternsDiffer
    <2>6. named = {c.truck}
      BY <2>2, <2>5
    <2> HIDE DEF named
    <2>7. CASE c.trailer = 0
      <3>1. c.truck \in Cisterns /\ c = Alone(c.truck)
        BY <1>2, <1>4, <2>3, <2>7 DEF Whole, Alone
      <3> HIDE DEF linked
      <3> QED
        BY <2>1, <2>6, <3>1
    <2>8. CASE c.trailer # 0
      <3>1. /\ c.trailer \in GasTrailers /\ c.truck \in Tractors /\ c.truck \notin Cisterns
            /\ trailer[c.trailer].truck = c.truck
        BY <1>4, <2>3, <2>8 DEF Whole
      <3>2. {x \in GasTrailers : Stored(x) \in Texts(c)} = {c.trailer}
        BY <1>1, <1>2, <1>4, <2>3, <3>1, PatternsDiffer
      <3>3. behind = {c.trailer}
        BY <2>2, <3>2
      <3> HIDE DEF behind
      <3>4. linked(c.truck) = {c.trailer}
        BY <3>1, <3>3
      <3> HIDE DEF linked
      <3>5. c = With(c.trailer)
        BY <1>2, <3>1 DEF With
      <3> QED
        BY <2>1, <2>6, <3>1, <3>4, <3>5
    <2> QED
      BY <2>7, <2>8
  <1> QED
    BY <1>3, <1>4

LEMMA LowestIsIn ==
  ASSUME NEW S, S \subseteq Nat, S # {}
  PROVE  Lowest(S) \in S
  <1>1. \E n \in S : \A m \in S : n <= m
    BY Smallest
  <1> QED
    BY <1>1 DEF Lowest

LEMMA OnStationIsWhole ==
  ASSUME ChoiceTypes, NEW c \in FindOnStationCombo
  PROVE  c \in Combos /\ Whole(c)
  <1> DEFINE here(S) == {t \in S : truck[t].here}
             left == {x \in GasTrailers : trailer[x].here /\ trailer[x].truck \in Tractors}
  <1>1. /\ Cisterns \subseteq Trucks /\ Tractors \subseteq Trucks /\ GasTrailers \subseteq Trailers
        /\ Trucks \subseteq Nat /\ Trailers \subseteq Nat
    BY PlatesAreNat DEF Cisterns, Tractors, GasTrailers
  <1>2. \A t : LinkedGasTrailer(t) \subseteq {x \in GasTrailers : trailer[x].truck = t}
    BY DEF LinkedGasTrailer, FirstOf
  <1>3. CASE here(Cisterns) # {}
    <2>1. c = Alone(Lowest(here(Cisterns))) /\ Lowest(here(Cisterns)) \in Cisterns
      BY <1>1, <1>3, LowestIsIn DEF FindOnStationCombo
    <2> QED
      BY <1>1, <2>1 DEF Alone, Combos, Whole
  <1>4. CASE /\ here(Cisterns) = {} /\ here(Tractors) # {}
             /\ c \in {With(x) : x \in LinkedGasTrailer(Lowest(here(Tractors)))}
    <2>1. Lowest(here(Tractors)) \in Tractors
      BY <1>1, <1>4, LowestIsIn
    <2>2. PICK x \in GasTrailers : trailer[x].truck \in Tractors /\ c = With(x)
      BY <1>2, <1>4, <2>1
    <2> QED
      BY <1>1, <2>2 DEF With, Combos, Whole
  <1>5. CASE left # {} /\ c = With(Lowest(left))
    <2>1. Lowest(left) \in left
      BY <1>1, <1>5, LowestIsIn
    <2> QED
      BY <1>1, <1>5, <2>1 DEF With, Combos, Whole
  <1>6. \/ here(Cisterns) # {}
        \/ /\ here(Cisterns) = {} /\ here(Tractors) # {}
           /\ c \in {With(x) : x \in LinkedGasTrailer(Lowest(here(Tractors)))}
        \/ left # {} /\ c = With(Lowest(left))
    BY DEF FindOnStationCombo
  <1> QED
    BY <1>3, <1>4, <1>5, <1>6

-----------------------------------------------------------------------------
(* The list: each of its places has a combination.                         *)

LEMMA CombosAreWhole ==
  ASSUME ChoiceTypes
  PROVE  AllCombos \subseteq Combos /\ \A c \in AllCombos : Whole(c)
  <1>1. Cisterns \subseteq Trucks /\ Tractors \subseteq Trucks /\ GasTrailers \subseteq Trailers
    BY DEF Cisterns, Tractors, GasTrailers
  <1>2. \A t \in Cisterns : Alone(t) \in Combos /\ Whole(Alone(t))
    BY <1>1 DEF Alone, Combos, Whole
  <1>3. \A x \in GasTrailers : trailer[x].truck \in Tractors
          => With(x) \in Combos /\ Whole(With(x))
    BY <1>1 DEF With, Combos, Whole
  <1> QED
    BY <1>2, <1>3 DEF AllCombos

LEMMA CombosFinite ==
  ASSUME ChoiceTypes
  PROVE  IsFiniteSet(AllCombos) /\ Cardinality(AllCombos) \in Nat
  <1> DEFINE wide == Trucks \X (Trailers \cup {0})
             f == [c \in AllCombos |-> <<c.truck, c.trailer>>]
  <1>1. IsFiniteSet(Trailers \cup {0})
    BY TablesAreFinite, FS_Singleton, FS_Union
  <1>2. IsFiniteSet(wide)
    BY <1>1, TablesAreFinite, FS_Product
  <1>3. \A c \in AllCombos : /\ c.truck \in Trucks /\ c.trailer \in Trailers \cup {0}
                             /\ c = [truck |-> c.truck, trailer |-> c.trailer]
    BY CombosAreWhole DEF Combos
  <1>4. f \in [AllCombos -> wide]
    BY <1>3
  <1>5. \A c, d \in AllCombos : f[c] = f[d] => c = d
    <2> SUFFICES ASSUME NEW c \in AllCombos, NEW d \in AllCombos, f[c] = f[d] PROVE c = d
      OBVIOUS
    <2>1. c.truck = d.truck /\ c.trailer = d.trailer
      OBVIOUS
    <2> QED
      BY <1>3, <2>1
  <1> HIDE DEF f, wide
  <1>6. f \in Injection(AllCombos, wide)
    BY <1>4, <1>5 DEF Injection, IsInjective
  <1> QED
    BY <1>2, <1>6, FS_Injection, FS_CardinalityType

\* Before is a strict total order.
LEMMA BeforeOrders ==
  ASSUME ChoiceTypes, NEW a \in AllCombos, NEW b \in AllCombos, NEW c \in AllCombos
  PROVE  /\ ~Before(a, a)
         /\ a = b \/ Before(a, b) \/ Before(b, a)
         /\ Before(a, b) /\ Before(b, c) => Before(a, c)
  <1>1. \A d \in AllCombos : /\ d.truck \in Int /\ d.trailer \in Int
                             /\ d = [truck |-> d.truck, trailer |-> d.trailer]
    BY CombosAreWhole, PlatesAreNat DEF Combos
  <1> DEFINE on(d) == IF OnStation(d) THEN 1 ELSE 0
  <1>2. \A d, e : Before(d, e) <=>
          \/ on(d) > on(e)
          \/ /\ on(d) = on(e)
             /\ d.truck < e.truck \/ (d.truck = e.truck /\ d.trailer < e.trailer)
    BY DEF Before, OnStation
  <1>3. \A d : on(d) \in Int
    OBVIOUS
  <1> HIDE DEF on
  <1>4. PICK aa \in Int, at \in Int, ax \in Int :
          aa = on(a) /\ at = a.truck /\ ax = a.trailer /\ a = [truck |-> at, trailer |-> ax]
    BY <1>1, <1>3
  <1>5. PICK ba \in Int, bt \in Int, bx \in Int :
          ba = on(b) /\ bt = b.truck /\ bx = b.trailer /\ b = [truck |-> bt, trailer |-> bx]
    BY <1>1, <1>3
  <1>6. PICK ca \in Int, ct \in Int, cx \in Int :
          ca = on(c) /\ ct = c.truck /\ cx = c.trailer
    BY <1>1, <1>3
  <1>7. ~Before(a, a)
    BY <1>2, <1>4
  <1>8. a = b \/ Before(a, b) \/ Before(b, a)
    <2>1. Before(a, b) <=> \/ aa > ba
                           \/ aa = ba /\ (at < bt \/ (at = bt /\ ax < bx))
      BY <1>2, <1>4, <1>5
    <2>2. Before(b, a) <=> \/ ba > aa
                           \/ ba = aa /\ (bt < at \/ (bt = at /\ bx < ax))
      BY <1>2, <1>4, <1>5
    <2>3. \/ aa > ba \/ ba > aa
          \/ aa = ba /\ (at < bt \/ bt < at \/ (at = bt /\ (ax < bx \/ bx < ax \/ ax = bx)))
      OBVIOUS
    <2> QED
      BY <1>4, <1>5, <2>1, <2>2, <2>3
  <1>9. Before(a, b) /\ Before(b, c) => Before(a, c)
    <2>1. Before(a, b) <=> \/ aa > ba
                           \/ aa = ba /\ (at < bt \/ (at = bt /\ ax < bx))
      BY <1>2, <1>4, <1>5
    <2>2. Before(b, c) <=> \/ ba > ca
                           \/ ba = ca /\ (bt < ct \/ (bt = ct /\ bx < cx))
      BY <1>2, <1>5, <1>6
    <2>3. Before(a, c) <=> \/ aa > ca
                           \/ aa = ca /\ (at < ct \/ (at = ct /\ ax < cx))
      BY <1>2, <1>4, <1>6
    <2> QED
      BY <2>1, <2>2, <2>3
  <1> QED
    BY <1>7, <1>8, <1>9

\* Each number less than that of the combinations is the rank of one of them:
\* a combination has fewer before it than one that comes later.
LEMMA RanksAreTaken ==
  ASSUME ChoiceTypes
  PROVE  \A i \in 0 .. Cardinality(AllCombos) - 1 : \E c \in AllCombos : Rank(c) = i
  <1> DEFINE n == Cardinality(AllCombos)
             places == 0 .. n - 1
             below(c) == {d \in AllCombos : Before(d, c)}
             rank == [c \in AllCombos |-> Rank(c)]
  <1>1. IsFiniteSet(AllCombos) /\ n \in Nat
    BY CombosFinite
  <1> HIDE DEF n
  <1>2. \A c : IsFiniteSet(below(c)) /\ Rank(c) = Cardinality(below(c)) /\ Rank(c) \in Nat
    <2> SUFFICES ASSUME NEW c
                 PROVE  IsFiniteSet(below(c)) /\ Rank(c) = Cardinality(below(c)) /\ Rank(c) \in Nat
      OBVIOUS
    <2>1. below(c) \subseteq AllCombos
      OBVIOUS
    <2>2. IsFiniteSet(below(c))
      BY <1>1, <2>1, FS_Subset
    <2> QED
      BY <2>2, FS_CardinalityType DEF Rank
  <1>3. ASSUME NEW c \in AllCombos PROVE Rank(c) < n
    <2>1. below(c) \subseteq AllCombos /\ below(c) # AllCombos
      BY BeforeOrders
    <2>2. IsFiniteSet(below(c)) /\ Rank(c) = Cardinality(below(c)) /\ Rank(c) \in Nat
      BY <1>2
    <2> HIDE DEF below
    <2>3. Cardinality(below(c)) <= n /\ Cardinality(below(c)) # n
      BY <1>1, <2>1, FS_Subset DEF n
    <2> QED
      BY <1>1, <2>2, <2>3
  <1>4. ASSUME NEW c \in AllCombos, NEW d \in AllCombos, Before(c, d) PROVE Rank(c) < Rank(d)
    <2>1. below(c) \subseteq below(d)
      BY <1>4, BeforeOrders
    <2>2. c \in below(d) /\ c \notin below(c)
      BY <1>4, BeforeOrders
    <2>3. below(c) # below(d)
      BY <2>2
    <2>4. IsFiniteSet(below(d)) /\ Rank(c) = Cardinality(below(c)) /\ Rank(d) = Cardinality(below(d))
      BY <1>2
    <2>5. Rank(c) \in Nat /\ Rank(d) \in Nat
      BY <1>2
    <2> HIDE DEF below
    <2>6. Cardinality(below(c)) <= Cardinality(below(d))
          /\ Cardinality(below(c)) # Cardinality(below(d))
      BY <2>1, <2>3, <2>4, FS_Subset
    <2> QED
      BY <2>4, <2>5, <2>6
  <1>5. rank \in [AllCombos -> places]
    <2>1. ASSUME NEW c \in AllCombos PROVE Rank(c) \in places
      <3>1. Rank(c) \in Nat /\ Rank(c) < n
        BY <1>2, <1>3
      <3> QED
        BY <1>1, <3>1
    <2> HIDE DEF places
    <2> QED
      BY <2>1
  <1>6. ASSUME NEW c \in AllCombos, NEW d \in AllCombos, rank[c] = rank[d] PROVE c = d
    <2>1. Rank(c) = Rank(d) /\ Rank(c) \in Nat /\ Rank(d) \in Nat
      BY <1>2, <1>6
    <2> QED
      BY <1>4, <2>1, BeforeOrders
  <1> HIDE DEF rank
  <1>7. rank \in Injection(AllCombos, places)
    BY <1>5, <1>6 DEF Injection, IsInjective
  <1>8. IsFiniteSet(places) /\ Cardinality(places) = n
    BY <1>1, FS_Interval
  <1>9. rank \in Surjection(AllCombos, places)
    BY <1>7, <1>8, FS_Injection DEF n
  <1> QED
    <2> SUFFICES ASSUME NEW i \in places PROVE \E c \in AllCombos : Rank(c) = i
      BY DEF n
    <2>1. PICK c \in AllCombos : rank[c] = i
      BY <1>9 DEF Surjection
    <2> QED
      BY <2>1 DEF rank

LEMMA ListIsWhole ==
  ASSUME ChoiceTypes
  PROVE  /\ BuildManualVehicleList \in Seq(Combos)
         /\ \A i \in 1 .. Len(BuildManualVehicleList) : Whole(BuildManualVehicleList[i])
  <1> DEFINE n == Cardinality(AllCombos)
             m == IF n < ListSize THEN n ELSE ListSize
             at(i) == CHOOSE c \in AllCombos : Rank(c) = i - 1
  <1>1. n \in Nat /\ m \in Nat /\ m <= n
    BY CombosFinite, ListIsShort
  <1>2. BuildManualVehicleList = [i \in 1 .. m |-> at(i)]
    BY DEF BuildManualVehicleList
  <1>3. ASSUME NEW i \in 1 .. m PROVE at(i) \in AllCombos
    <2>1. i - 1 \in 0 .. n - 1
      BY <1>1
    <2>2. \E c \in AllCombos : Rank(c) = i - 1
      BY <2>1, RanksAreTaken
    <2> QED
      BY <2>2
  <1> HIDE DEF at, m, n
  <1>4. \A i \in 1 .. m : at(i) \in Combos /\ Whole(at(i))
    BY <1>3, CombosAreWhole
  <1>5. [i \in 1 .. m |-> at(i)] \in Seq(Combos) /\ Len([i \in 1 .. m |-> at(i)]) = m
    BY <1>1, <1>4
  <1> QED
    BY <1>2, <1>4, <1>5

-----------------------------------------------------------------------------
(* The steps.                                                              *)

LEMMA ChoiceStarts ==
  ASSUME MishapInit, ChoiceInit
  PROVE  ChoiceInv
  <1>1. ChoiceTypes
    <2>1. PICK f \in Fleets : truck = f.truck /\ trailer = f.trailer
      BY DEF ChoiceInit
    <2> QED
      BY <2>1, FleetsAreTables DEF ChoiceInit, ChoiceTypes
  <1>2. Len(meant) = 0 /\ booking = <<>>
    BY DEF ChoiceInit
  <1>3. PanelLists
    BY <1>2 DEF PanelLists, ChoiceInit, Blank
  <1> QED
    BY <1>1, <1>2, <1>3 DEF ChoiceInv, OffersWhole, ConfirmedAsShown

\* What is offered by a request.
LEMMA AnswerOffers ==
  ASSUME ChoiceTypes, AnswerRequest
  PROVE  /\ meant' \in Seq(Combos) /\ (PanelProposes' \/ PanelLists')
         /\ \A i \in 1 .. Len(meant') : Whole(meant'[i])
  <1>1. ASSUME NEW c, c \in Combos, Whole(c), ShowProposal(c)
        PROVE  /\ meant' \in Seq(Combos) /\ PanelProposes'
               /\ \A i \in 1 .. Len(meant') : Whole(meant'[i])
    <2>1. meant' = <<c>> /\ Len(meant') = 1 /\ meant'[1] = c
      BY <1>1 DEF ShowProposal
    <2>2. panel' = [ready |-> TRUE, proposed |-> FormatListLine(meant'[1]), lines |-> <<>>]
      BY <1>1, <2>1 DEF ShowProposal
    <2> QED
      BY <1>1, <2>1, <2>2 DEF PanelProposes, FormatListLine, FormatHmi
  <1>2. ASSUME ShowList(BuildManualVehicleList)
        PROVE  /\ meant' \in Seq(Combos) /\ PanelLists'
               /\ \A i \in 1 .. Len(meant') : Whole(meant'[i])
    <2>1. /\ meant' \in Seq(Combos)
          /\ \A i \in 1 .. Len(meant') : Whole(meant'[i])
      BY <1>2, ListIsWhole DEF ShowList
    <2>2. DOMAIN meant' = 1 .. Len(meant')
      BY <2>1
    <2>3. panel' = [Blank EXCEPT !.lines = [i \in DOMAIN meant' |-> FormatListLine(meant'[i])]]
      BY <1>2 DEF ShowList
    <2>4. PanelLists'
      BY <2>2, <2>3 DEF PanelLists, Blank, FormatListLine, FormatHmi
    <2> QED
      BY <2>1, <2>4
  <1>3. PICK plates \in SUBSET (Trucks \cup Trailers) :
          \/ \E c \in FindTransports(GetTransportNumbers(plates)) : ShowProposal(c)
          \/ \E c \in FindOnStationCombo : ShowProposal(c)
          \/ ShowList(BuildManualVehicleList)
    BY DEF AnswerRequest
  <1> QED
    BY <1>1, <1>2, <1>3, FoundIsWhole, OnStationIsWhole

LEMMA AnswerKeeps ==
  ASSUME ChoiceInv, AnswerRequest
  PROVE  ChoiceInv'
  <1>1. /\ ChoiceTypes /\ UNCHANGED <<truck, trailer, booking, mishaps>>
        /\ ConfirmedAsShown
    BY DEF ChoiceInv, AnswerRequest, Smooth, mishapVars
  <1>2. /\ meant' \in Seq(Combos) /\ (PanelProposes' \/ PanelLists')
        /\ \A i \in 1 .. Len(meant') : Whole(meant'[i])
    BY <1>1, AnswerOffers
  <1>3. \A c : Whole(c)' <=> Whole(c)
    BY <1>1 DEF Whole, Cisterns, Tractors, GasTrailers
  <1>4. OffersWhole'
    BY <1>1, <1>2 DEF OffersWhole, Whole, Cisterns, Tractors, GasTrailers
  <1>5. ConfirmedAsShown'
    BY <1>1 DEF ConfirmedAsShown, Whole, Cisterns, Tractors, GasTrailers
  <1>6. ChoiceTypes'
    BY <1>1, <1>2 DEF ChoiceTypes
  <1> QED
    BY <1>2, <1>4, <1>5, <1>6 DEF ChoiceInv

\* What a confirmation finds, for the combination that was shown.
LEMMA Booked ==
  ASSUME ChoiceInv, NEW m \in Combos, NEW c \in FindTransports(Texts(m)),
         NEW i \in 1 .. Len(meant), meant[i] = m
  PROVE  /\ c.truck = m.truck /\ Whole(c)
         /\ "edit" \notin mishaps /\ {m.truck, m.trailer} \cap Service = {} => c = m
  <1>1. ChoiceTypes
    BY DEF ChoiceInv
  <1>2. "edit" \notin mishaps => Whole(m)
    BY DEF ChoiceInv, OffersWhole
  <1> QED
    BY <1>1, <1>2, FoundAgain

\* A text leads to nothing, if the combination was not found any more.
LEMMA NotFound ==
  ASSUME ChoiceInv, NEW i \in 1 .. Len(meant), FindTransports(Texts(meant[i])) = {},
         {meant[i].truck, meant[i].trailer} \cap Service = {}
  PROVE  "edit" \in mishaps
  <1>1. ChoiceTypes /\ meant[i] \in Combos
    BY DEF ChoiceInv, ChoiceTypes
  <1>2. "edit" \notin mishaps => Whole(meant[i])
    BY DEF ChoiceInv, OffersWhole
  <1> QED
    BY <1>1, <1>2, FoundAgain

NothingNamed == FindTransports({}) = {}

LEMMA NothingFound ==
  NothingNamed
  BY DEF NothingNamed, FindTransports, FirstOf

\* What is booked, as the property wants it.
Right(offer, booked) ==
  /\ booked # NoCombo => booked.truck = offer.truck /\ Whole(booked)
  /\ ("edit" \notin mishaps /\ {offer.truck, offer.trailer} \cap Service = {})
       => booked = offer

LEMMA ConfirmBooks ==
  ASSUME ChoiceInv, Confirm
  PROVE  \E offer, booked : Right(offer, booked) /\ booking' = <<offer, booked>>
  <1> DEFINE canon(text) == CanonicalizeRegistrationNumber(text)
  <1>1. PICK listMode \in BOOLEAN, k \in 1 .. ListSize + 1 :
          LET offer == IF ~listMode /\ panel.ready THEN meant[1]
                       ELSE IF listMode /\ ~panel.ready /\ k \in DOMAIN meant
                         THEN meant[k] ELSE NoCombo
              found == IF listMode THEN ComboFromListSelection(k)
                       ELSE ComboFromNumbers(panel.proposed)
          IN  IF found = {} THEN booking' = <<offer, NoCombo>>
              ELSE \E c \in found : booking' = <<offer, c>>
    BY DEF Confirm
  <1> DEFINE offer == IF ~listMode /\ panel.ready THEN meant[1]
                      ELSE IF listMode /\ ~panel.ready /\ k \in DOMAIN meant
                        THEN meant[k] ELSE NoCombo
             found == IF listMode THEN ComboFromListSelection(k)
                      ELSE ComboFromNumbers(panel.proposed)
  <1>2. /\ found = {} => booking' = <<offer, NoCombo>>
        /\ found # {} => \E c \in found : booking' = <<offer, c>>
    BY <1>1
  <1>3. /\ meant \in Seq(Combos) /\ DOMAIN meant = 1 .. Len(meant)
        /\ PanelProposes \/ PanelLists
    BY DEF ChoiceInv, ChoiceTypes
  <1>4. ComboFromNumbers(<<>>) = {}
    <2>1. {canon(<<>>[i]) : i \in DOMAIN <<>>} = {}
      OBVIOUS
    <2> QED
      BY <2>1, NothingFound DEF NothingNamed, ComboFromNumbers
  <1>5. \/ offer = NoCombo /\ found = {}
        \/ \E i \in 1 .. Len(meant) : offer = meant[i] /\ found = FindTransports(Texts(meant[i]))
    <2>1. CASE PanelProposes /\ ~listMode
      <3>1. /\ offer = meant[1] /\ 1 \in 1 .. Len(meant)
            /\ found = ComboFromNumbers(FormatListLine(meant[1]))
        BY <2>1 DEF PanelProposes
      <3>2. found = FindTransports(Texts(meant[1]))
        BY <3>1 DEF ComboFromNumbers, Texts
      <3> QED
        BY <3>1, <3>2
    <2>2. CASE PanelProposes /\ listMode
      BY <2>2 DEF PanelProposes, ComboFromListSelection
    <2>3. CASE PanelLists /\ ~listMode
      BY <1>4, <2>3 DEF PanelLists
    <2>4. CASE PanelLists /\ listMode /\ k \notin 1 .. Len(meant)
      BY <1>3, <2>4 DEF PanelLists, ComboFromListSelection
    <2>5. CASE PanelLists /\ listMode /\ k \in 1 .. Len(meant)
      <3>1. /\ offer = meant[k] /\ meant[k] \in Combos
            /\ found = ComboFromNumbers(ParseVehicleListLine(FormatListLine(meant[k])))
        BY <1>3, <2>5 DEF PanelLists, ComboFromListSelection
      <3>2. found = FindTransports(Texts(meant[k]))
        BY <3>1, TextsOfCombo DEF ComboFromNumbers
      <3> QED
        BY <2>5, <3>1, <3>2
    <2> QED
      BY <1>3, <2>1, <2>2, <2>3, <2>4, <2>5
  <1> HIDE DEF offer, found
  <1>6. CASE offer = NoCombo /\ found = {}
    BY <1>2, <1>6 DEF Right
  <1>7. CASE \E i \in 1 .. Len(meant) : offer = meant[i] /\ found = FindTransports(Texts(meant[i]))
    <2>1. PICK i \in 1 .. Len(meant) : offer = meant[i] /\ found = FindTransports(Texts(meant[i]))
      BY <1>7
    <2>2. meant[i] \in Combos
      BY <1>3
    <2>3. CASE found = {}
      BY <1>2, <2>1, <2>3, NotFound DEF Right
    <2>4. CASE found # {}
      <3>1. PICK c \in found : booking' = <<offer, c>>
        BY <1>2, <2>4
      <3>2. Right(offer, c)
        BY <2>1, <2>2, <3>1, Booked DEF Right
      <3> QED
        BY <3>1, <3>2
    <2> QED
      BY <2>3, <2>4
  <1> QED
    BY <1>5, <1>6, <1>7

LEMMA ConfirmKeeps ==
  ASSUME ChoiceInv, Confirm
  PROVE  ChoiceInv'
  <1>1. UNCHANGED <<truck, trailer, panel, meant, mishaps>>
    BY DEF Confirm, Smooth, mishapVars
  <1>2. PICK offer, booked : Right(offer, booked) /\ booking' = <<offer, booked>>
    BY ConfirmBooks
  <1>3. ConfirmedAsShown'
    <2>1. booking'[1] = offer /\ booking'[2] = booked
      BY <1>2
    <2> QED
      BY <1>1, <1>2, <2>1 DEF Right, ConfirmedAsShown, Whole, Cisterns, Tractors, GasTrailers
  <1>4. /\ ChoiceTypes' /\ (PanelProposes' \/ PanelLists')
        /\ "edit" \notin mishaps' => OffersWhole'
    BY <1>1 DEF ChoiceInv, ChoiceTypes, PanelProposes, PanelLists, OffersWhole, Whole, Cisterns,
                Tractors, GasTrailers, FormatListLine, FormatHmi
  <1> QED
    BY <1>3, <1>4 DEF ChoiceInv

LEMMA MoveKeeps ==
  ASSUME ChoiceInv, Move
  PROVE  ChoiceInv'
  <1>1. /\ ChoiceTypes /\ UNCHANGED <<panel, meant, booking, mishaps>> /\ booking = <<>>
    BY DEF ChoiceInv, Move, Smooth, mishapVars
  <1>2. /\ truck' \in [Trucks -> TruckRow]
        /\ \A t \in Trucks : truck'[t].active = truck[t].active /\ truck'[t].type = truck[t].type
    <2>1. CASE UNCHANGED truck
      BY <1>1, <2>1 DEF ChoiceTypes
    <2>2. ASSUME NEW t \in Trucks, truck' = [truck EXCEPT ![t].here = ~@]
          PROVE  /\ truck' \in [Trucks -> TruckRow]
                 /\ \A u \in Trucks : /\ truck'[u].active = truck[u].active
                                     /\ truck'[u].type = truck[u].type
      BY <1>1, <2>2 DEF ChoiceTypes, TruckRow
    <2> QED
      BY <2>1, <2>2 DEF Move
  <1>3. /\ trailer' \in [Trailers -> TrailerRow]
        /\ \A x \in Trailers : /\ trailer'[x].active = trailer[x].active
                               /\ trailer'[x].gas = trailer[x].gas
                               /\ trailer'[x].truck = trailer[x].truck
    <2>1. CASE UNCHANGED trailer
      BY <1>1, <2>1 DEF ChoiceTypes
    <2>2. ASSUME NEW x \in Trailers, trailer' = [trailer EXCEPT ![x].here = ~@]
          PROVE  /\ trailer' \in [Trailers -> TrailerRow]
                 /\ \A y \in Trailers : /\ trailer'[y].active = trailer[y].active
                                       /\ trailer'[y].gas = trailer[y].gas
                                       /\ trailer'[y].truck = trailer[y].truck
      BY <1>1, <2>2 DEF ChoiceTypes, TrailerRow
    <2> QED
      BY <2>1, <2>2 DEF Move
  <1>4. /\ Cisterns' = Cisterns /\ Tractors' = Tractors /\ GasTrailers' = GasTrailers
    BY <1>2, <1>3 DEF Cisterns, Tractors, GasTrailers
  <1>5. OffersWhole => OffersWhole'
    <2>1. \A i \in 1 .. Len(meant) :
            Whole(meant[i]) => 
              \/ meant[i].trailer = 0 /\ meant[i].truck \in Cisterns'
              \/ meant[i].trailer \in GasTrailers' /\ meant[i].truck \in Tractors'
                 /\ trailer'[meant[i].trailer].truck = meant[i].truck
      BY <1>3, <1>4 DEF Whole, GasTrailers
    <2> QED
      BY <1>1, <2>1 DEF OffersWhole, Whole
  <1>6. ConfirmedAsShown'
    BY <1>1 DEF ConfirmedAsShown
  <1>7. ChoiceTypes' /\ (PanelProposes' \/ PanelLists')
    BY <1>1, <1>2, <1>3 DEF ChoiceInv, ChoiceTypes, PanelProposes, PanelLists, FormatListLine, FormatHmi
  <1> QED
    BY <1>1, <1>5, <1>6, <1>7 DEF ChoiceInv

LEMMA EditFleetKeeps ==
  ASSUME ChoiceInv, EditFleet
  PROVE  ChoiceInv'
  <1>1. /\ ChoiceTypes /\ UNCHANGED <<panel, meant, booking>> /\ booking = <<>>
        /\ "edit" \in mishaps'
    BY DEF ChoiceInv, EditFleet, Slip
  <1>2. truck' \in [Trucks -> TruckRow]
    <2>1. ASSUME NEW t \in Trucks, truck' = [truck EXCEPT ![t].active = ~@]
          PROVE  truck' \in [Trucks -> TruckRow]
      BY <1>1, <2>1 DEF ChoiceTypes, TruckRow
    <2>2. ASSUME NEW t \in Trucks, NEW type \in {"cistern", "tractor", "other"},
                 truck' = [truck EXCEPT ![t].type = type]
          PROVE  truck' \in [Trucks -> TruckRow]
      BY <1>1, <2>2 DEF ChoiceTypes, TruckRow
    <2> QED
      BY <1>1, <2>1, <2>2 DEF EditFleet, ChoiceTypes
  <1>3. trailer' \in [Trailers -> TrailerRow]
    <2>1. ASSUME NEW x \in Trailers, trailer' = [trailer EXCEPT ![x].active = ~@]
          PROVE  trailer' \in [Trailers -> TrailerRow]
      BY <1>1, <2>1 DEF ChoiceTypes, TrailerRow
    <2>2. ASSUME NEW x \in Trailers, trailer' = [trailer EXCEPT ![x].gas = ~@]
          PROVE  trailer' \in [Trailers -> TrailerRow]
      BY <1>1, <2>2 DEF ChoiceTypes, TrailerRow
    <2>3. ASSUME NEW x \in Trailers, NEW t \in Trucks,
                 trailer' = [trailer EXCEPT ![x].truck = t]
          PROVE  trailer' \in [Trailers -> TrailerRow]
      BY <1>1, <2>3 DEF ChoiceTypes, TrailerRow
    <2> QED
      BY <1>1, <2>1, <2>2, <2>3 DEF EditFleet, ChoiceTypes
  <1>4. ConfirmedAsShown'
    BY <1>1 DEF ConfirmedAsShown
  <1>5. ChoiceTypes' /\ (PanelProposes' \/ PanelLists')
    BY <1>1, <1>2, <1>3 DEF ChoiceInv, ChoiceTypes, PanelProposes, PanelLists, FormatListLine, FormatHmi
  <1> QED
    BY <1>1, <1>4, <1>5 DEF ChoiceInv

LEMMA ChoiceStutters ==
  ASSUME ChoiceInv, UNCHANGED <<mishapVars, choiceVars>>
  PROVE  ChoiceInv'
  BY DEF mishapVars, choiceVars, ChoiceInv, ChoiceTypes, PanelProposes, PanelLists, OffersWhole,
         ConfirmedAsShown, Whole, Cisterns, Tractors, GasTrailers, FormatListLine, FormatHmi

\* A batch is booked on the combination that the operator was shown, although
\* the panel keeps texts only (batch_events.py: combo_from_list_selection): for
\* every table of trucks and trailers and every length of the list.
THEOREM ConfirmedAsShownHolds == ChoiceSpec => []ConfirmedAsShown
  <1>1. MishapInit /\ ChoiceInit => ChoiceInv
    BY ChoiceStarts
  <1>2. ChoiceInv /\ [ChoiceNext]_<<mishapVars, choiceVars>> => ChoiceInv'
    BY AnswerKeeps, ConfirmKeeps, MoveKeeps, EditFleetKeeps, ChoiceStutters DEF ChoiceNext
  <1>3. ChoiceInv => ConfirmedAsShown
    BY DEF ChoiceInv
  <1> QED
    BY <1>1, <1>2, <1>3, PTL DEF ChoiceSpec
=============================================================================
