------------------------------ MODULE Passages ------------------------------
(***************************************************************************)
(* Balloons that pass the readers (filling_station/services/rfid.py, the   *)
(* counters and cards of filling_station/models.py, api/balloons.py).      *)
(*                                                                         *)
(* Each reader has a process, which serves one passage after the other:    *)
(* the card of the balloon, the counter of the reader and the day, the     *)
(* counters of the warehouse, the passport that Miriada has, and the       *)
(* journal.  Each is a transaction of its own.  People edit cards, enter   *)
(* what they have counted, and look at the statistics.                     *)
(*                                                                         *)
(* A card is the version that people gave it, and whether a passport has   *)
(* been taken over and is still required.  The batches that a passage is   *)
(* counted in are in BalloonBatches, the queue of passports in             *)
(* ReaderEvents.                                                           *)
(***************************************************************************)
EXTENDS Mishaps, Sequences

CONSTANTS
  Readers,       \* numbers of readers
  Tags,
  MaxDoings      \* bound: passages, edits, values entered and statistics

NoTag == "no tag"
Kinds == {"empty", "full"}
Days == {1, 2}

ASSUME ReaderNumbers == Readers \subseteq 1 .. 8
ASSUME CardTags == NoTag \notin Tags
ASSUME PassageBounds == MaxDoings \in Nat

VARIABLES
  day,
  jobs,          \* what is left to do for the passage at each reader
  daily,         \* DailyReaderCounter: by reader, day, and tag or sensor
  totals,        \* TotalReadersCounter
  journal,       \* Reader: rows of each reader
  cards,         \* Balloon
  edit,          \* a request that edits a card
  statistic,     \* cache: get_balloon_statistic
  reading,       \* a request that computes it
  entry,         \* the request with values entered by hand has still to clear it
  passed,        \* balloons that have passed each reader, with a tag or without
  stock,         \* the balloons on the station
  wanted,        \* the version that people gave each card last, -1: none
  entered,       \* when values were entered last
  doings         \* bound

passageVars ==
  <<day, jobs, daily, totals, journal, cards, edit, statistic, reading, entry,
    passed, stock, wanted, entered, doings>>

countVars == <<day, daily, totals, journal, passed, stock, entered>>
statisticVars == <<statistic, reading, entry>>
cardVars == <<cards, edit, wanted>>

Ways == {"tag", "sensor"}
NoTotals == [empty |-> -1, full |-> -1]
NoCard == [info |-> -1, passport |-> FALSE, required |-> TRUE]
NewCard(info) == [info |-> info, passport |-> FALSE, required |-> TRUE]
NoEdit == [pc |-> "none", id |-> 0, tag |-> NoTag, new |-> NoTag, seen |-> NoCard]
NoJob == [tag |-> NoTag, todo |-> <<>>, row |-> NoCard]
NoStatistic == [totals |-> NoTotals, entered |-> -1]

\* The row of the warehouse may be missing, as long as nobody has made it.
PassageInit ==
  /\ day = 1 /\ jobs = [r \in Readers |-> NoJob]
  /\ daily = [c \in Readers \X Days \X Ways |-> 0]
  /\ stock = [k \in Kinds |-> IF k = "full" THEN 1 ELSE 0]
  /\ \/ totals = stock /\ MishapInit
     \/ totals = NoTotals /\ slips = 0 /\ mishaps = {"norow"}
  /\ journal = [r \in Readers |-> 0]
  /\ \E t \in Tags, known \in BOOLEAN :
       cards = [u \in Tags |-> IF u # t THEN NoCard
                              ELSE [info |-> 0, passport |-> known, required |-> ~known]]
  /\ edit = NoEdit /\ statistic = NoStatistic /\ reading = NoStatistic /\ entry = FALSE
  /\ passed = [c \in Readers \X Ways |-> 0]
  /\ wanted = [t \in Tags |-> cards[t].info]
  /\ entered = 0 /\ doings = 0

-----------------------------------------------------------------------------
(* A passage.                                                              *)

\* What the counters of the warehouse do for a reader.
Warehouse(r, way) ==
  CASE way = "sensor" /\ r = 6 -> << <<"empty", 1>> >>
    [] way = "sensor" /\ r = 5 -> << <<"full", 1>>, <<"empty", -1>> >>
    [] way = "sensor" /\ r \in {3, 4} -> << <<"full", -1>> >>
    [] way = "tag" /\ r = 1 -> << <<"empty", 1>> >>
    [] way = "tag" /\ r = 2 -> << <<"full", -1>> >>
    [] OTHER -> <<>>

\* Mutant: a passage is counted when its passport has come.
DutiesPassportFirst(r, way) ==
  IF way = "sensor"
  THEN << <<"daily">> >> \o Warehouse(r, way)
  ELSE << <<"card">>, <<"passport">>, <<"daily">> >> \o Warehouse(r, way) \o << <<"row">> >>

Duties(r, way) ==
  IF way = "sensor"
  THEN << <<"daily">> >> \o Warehouse(r, way)
  ELSE << <<"card">>, <<"daily">> >> \o Warehouse(r, way) \o << <<"passport">>, <<"row">> >>

Way(r) == IF jobs[r].tag = NoTag THEN "sensor" ELSE "tag"

Moved(s, moves) ==
  [k \in Kinds |->
     LET n == {i \in DOMAIN moves : moves[i][1] = k}
     IN s[k] + (IF n = {} THEN 0 ELSE moves[CHOOSE i \in n : TRUE][2])]

Do == doings < MaxDoings /\ doings' = doings + 1

\* A balloon passes; its tag is read, or only the optical sensor sees it.
Arrive(r, t) ==
  /\ jobs[r] = NoJob /\ Do
  /\ LET way == IF t = NoTag THEN "sensor" ELSE "tag" IN
     /\ \A k \in Kinds : Moved(stock, Warehouse(r, way))[k] >= 0
     /\ jobs' = [jobs EXCEPT ![r] = [NoJob EXCEPT !.tag = t, !.todo = Duties(r, way)]]
     /\ stock' = Moved(stock, Warehouse(r, way))
     /\ passed' = [passed EXCEPT ![<<r, way>>] = @ + 1]
  /\ Smooth /\ UNCHANGED <<day, daily, totals, journal, entered, statisticVars, cardVars>>

Turn(r, duty) == jobs[r].todo # <<>> /\ Head(jobs[r].todo)[1] = duty

Remaining(r) ==
  IF Len(jobs[r].todo) = 1 THEN NoJob ELSE [jobs[r] EXCEPT !.todo = Tail(@)]
Proceeds(r) == jobs' = [jobs EXCEPT ![r] = Remaining(r)]

\* Mutant: a row with the tag and the status is saved.
SaveStatusRow(r) ==
  /\ Turn(r, "card")
  /\ LET t == jobs[r].tag IN
     /\ cards' = [cards EXCEPT ![t] = NewCard(0)]
     /\ jobs' = [jobs EXCEPT ![r] = [Remaining(r) EXCEPT !.row = cards'[t]]]
  /\ Smooth /\ UNCHANGED <<countVars, doings, statisticVars, edit, wanted>>

\* update_or_create: the card gets the status of the reader, and only that.
FindCard(r) ==
  /\ Turn(r, "card")
  /\ LET t == jobs[r].tag
         row == IF cards[t] = NoCard THEN NewCard(0) ELSE cards[t]
     IN /\ cards' = [cards EXCEPT ![t] = row]
           /\ jobs' = [jobs EXCEPT ![r] = [Remaining(r) EXCEPT !.row = row]]
  /\ Smooth /\ UNCHANGED <<countVars, doings, statisticVars, edit, wanted>>

\* add_rfid, add_sensor
CountPassage(r) ==
  /\ Turn(r, "daily")
  /\ daily' = [daily EXCEPT ![<<r, day, Way(r)>>] = @ + 1]
  /\ Proceeds(r)
  /\ Smooth /\ UNCHANGED <<day, totals, journal, passed, stock, entered, doings, statisticVars, cardVars>>

\* add_full_balloon and so on: in place; never below 0, where a balloon comes
\* too soon or the values were wrong.
CountStock(r) ==
  \E k \in Kinds :
    /\ Turn(r, k)
    /\ LET n == Head(jobs[r].todo)[2] IN
       \/ totals = NoTotals /\ totals' = totals /\ Smooth
       \/ /\ totals # NoTotals /\ totals[k] + n >= 0
          /\ totals' = [totals EXCEPT ![k] = @ + n] /\ Smooth
       \/ totals # NoTotals /\ totals[k] + n < 0 /\ totals' = totals /\ Slip("floor")
    /\ Proceeds(r)
    /\ UNCHANGED <<day, daily, journal, passed, stock, entered, doings, statisticVars, cardVars>>

\* Miriada is asked when a passport is required, or by some readers always.
Asks(r) == jobs[r].row.required \/ r \in {1, 6, 7, 8}

\* Three attempts have failed, and nothing more is done.
GetBalloonDataFails(r) ==
  cards' = cards /\ jobs' = [jobs EXCEPT ![r] = NoJob] /\ Slip("miriada")

\* The answer is saved with the whole row as it was when the balloon came.
UpdateBalloonPassport(r) ==
  LET t == jobs[r].tag
      row == jobs[r].row
  IN /\ cards' = [cards EXCEPT ![t] = [row EXCEPT !.passport = TRUE, !.required = FALSE]]
     /\ Proceeds(r)
     /\ IF cards[t].info # row.info THEN Slip("stale") ELSE Smooth

TakePassport(r) ==
  /\ Turn(r, "passport")
  /\ \/ ~Asks(r) /\ cards' = cards /\ Proceeds(r) /\ Smooth
     \/ Asks(r) /\ UpdateBalloonPassport(r)
     \/ Asks(r) /\ GetBalloonDataFails(r)
  /\ UNCHANGED <<countVars, doings, statisticVars, edit, wanted>>

\* add_balloon_to_reader_table
WriteJournal(r) ==
  /\ Turn(r, "row")
  /\ journal' = [journal EXCEPT ![r] = @ + 1]
  /\ Proceeds(r)
  /\ Smooth /\ UNCHANGED <<day, daily, totals, passed, stock, entered, doings, statisticVars, cardVars>>

\* An error of the database, or the process is killed.
Break(r) ==
  /\ jobs[r] # NoJob /\ Slip("broken")
  /\ jobs' = [jobs EXCEPT ![r] = NoJob]
  /\ UNCHANGED <<countVars, doings, statisticVars, cardVars>>

Midnight ==
  /\ day = 1 /\ day' = 2
  /\ Smooth
  /\ UNCHANGED <<jobs, daily, totals, journal, passed, stock, entered, doings, statisticVars, cardVars>>

-----------------------------------------------------------------------------
(* People and cards.                                                       *)

\* A new card, unless there is one (create).
Register(t) ==
  /\ Do /\ cards[t] = NoCard
  /\ cards' = [cards EXCEPT ![t] = NewCard(doings')]
  /\ wanted' = [wanted EXCEPT ![t] = doings']
  /\ Smooth /\ UNCHANGED <<countVars, jobs, statisticVars, edit>>

\* A card is read: by a request, or for a form.
BeginEdit(t) ==
  /\ edit = NoEdit /\ Do
  /\ cards[t] # NoCard
  /\ edit' = [NoEdit EXCEPT !.pc = "save", !.id = doings', !.tag = t, !.seen = cards[t]]
  /\ Smooth /\ UNCHANGED <<countVars, jobs, statisticVars, cards, wanted>>

\* The whole row is saved.
SaveEdit ==
  /\ edit.pc = "save" /\ edit' = NoEdit
  /\ cards' = [cards EXCEPT ![edit.tag] = [edit.seen EXCEPT !.info = edit.id]]
  /\ wanted' = [wanted EXCEPT ![edit.tag] = edit.id]
  /\ Smooth /\ UNCHANGED <<countVars, doings, jobs, statisticVars>>

\* The request has another tag: the card is deleted, and one with that tag
\* made of what the request holds, unless there is one.  A request without a
\* tag, or with a field that is not valid, leaves none.
DeleteOld ==
  /\ edit.pc = "save"
  /\ \E u \in (Tags \cup {NoTag}) \ {edit.tag} :
       IF u \in Tags /\ cards[u] # NoCard
       THEN edit' = NoEdit /\ cards' = cards /\ Smooth
       ELSE /\ cards' = [cards EXCEPT ![edit.tag] = NoCard]
            /\ IF u = NoTag THEN edit' = NoEdit /\ Slip("badpatch")
               ELSE edit' = [edit EXCEPT !.pc = "create", !.new = u] /\ Smooth
  /\ UNCHANGED <<countVars, doings, jobs, statisticVars, wanted>>

\* The row of the new tag is inserted; that fails when a reader has made one.
CreateNew ==
  /\ edit.pc = "create" /\ edit' = NoEdit
  /\ \/ /\ cards[edit.new] = NoCard
        /\ cards' = [cards EXCEPT ![edit.new] = NewCard(edit.id)]
        /\ wanted' = [wanted EXCEPT ![edit.new] = edit.id, ![edit.tag] = -1]
        /\ Smooth
     \/ cards[edit.new] # NoCard /\ UNCHANGED <<cards, wanted>> /\ Slip("taken")
     \/ UNCHANGED <<cards, wanted>> /\ Slip("broken")
  /\ UNCHANGED <<countVars, doings, jobs, statisticVars>>

-----------------------------------------------------------------------------
(* Values entered by hand, and the statistics.                             *)

InsertManualValues(given) ==
  LET base == IF totals = NoTotals THEN [k \in Kinds |-> 0] ELSE totals
  IN totals' = [k \in Kinds |-> IF k \in given THEN 0 ELSE base[k]]

\* The values are those of the station from now on.  While a passage is being
\* served, nobody knows whether they include it.
EnterValues ==
  /\ Do /\ entered' = doings' /\ ~entry /\ entry' = TRUE
  /\ \E given \in SUBSET Kinds \ {{}} :
       /\ InsertManualValues(given)
       /\ stock' = [k \in Kinds |-> IF k \in given THEN 0 ELSE stock[k]]
  /\ IF \E r \in Readers : jobs[r] # NoJob THEN Slip("midway") ELSE Smooth
  /\ UNCHANGED <<day, jobs, daily, journal, passed, statistic, reading, cardVars>>

ClearStatistic ==
  /\ entry /\ entry' = FALSE /\ statistic' = NoStatistic
  /\ IF reading # NoStatistic /\ reading.entered < entered THEN Slip("slowread") ELSE Smooth
  /\ UNCHANGED <<countVars, doings, jobs, reading, cardVars>>

\* A request finds nothing in the cache.
ComputeStatistic ==
  /\ statistic = NoStatistic /\ reading = NoStatistic /\ Do
  /\ reading' = [totals |-> totals, entered |-> entered]
  /\ Smooth /\ UNCHANGED <<countVars, jobs, statistic, entry, cardVars>>

KeepStatistic ==
  /\ reading # NoStatistic /\ statistic' = reading /\ reading' = NoStatistic
  /\ Smooth /\ UNCHANGED <<countVars, doings, jobs, entry, cardVars>>

ExpireStatistic ==
  /\ statistic # NoStatistic /\ statistic' = NoStatistic
  /\ Smooth /\ UNCHANGED <<countVars, doings, jobs, reading, entry, cardVars>>

-----------------------------------------------------------------------------
Serve(r) ==
  \/ FindCard(r) \/ CountPassage(r) \/ CountStock(r) \/ TakePassport(r)
  \/ WriteJournal(r) \/ Break(r)

PassageNext ==
  \/ \E r \in Readers : Serve(r) \/ \E t \in Tags \cup {NoTag} : Arrive(r, t)
  \/ Midnight
  \/ \E t \in Tags : Register(t) \/ BeginEdit(t)
  \/ SaveEdit \/ DeleteOld \/ CreateNew
  \/ EnterValues \/ ClearStatistic
  \/ ComputeStatistic \/ KeepStatistic \/ ExpireStatistic

PassageSpec ==
  PassageInit /\ [][PassageNext]_<<mishapVars, passageVars>>

-----------------------------------------------------------------------------
\* When no passage is being served, the days of a reader add up to what has
\* passed it, and the warehouse has what is on the station; and when values
\* were entered by hand, statistics from before them are not shown (models.py:
\* in place and at once, whatever Miriada answers; api/balloons.py:585).
CountsAddUp ==
  mishaps \cap {"broken", "floor", "midway", "norow", "slowread"} = {}
  => /\ jobs = [r \in Readers |-> NoJob]
        => /\ totals = stock
           /\ \A c \in Readers \X Ways :
                daily[<<c[1], 1, c[2]>>] + daily[<<c[1], 2, c[2]>>] = passed[c]
     /\ ~entry /\ statistic # NoStatistic => statistic.entered = entered

\* A card that people have written stays as they wrote it, under its tag or
\* the new one, whatever passes meanwhile (services/rfid.py: a passage writes
\* the status only; api/balloons.py:433).
EditsAreKept ==
  (/\ mishaps \cap {"stale", "badpatch", "taken", "broken"} = {}
   /\ edit.pc # "create")
  => \A t \in Tags : wanted[t] # -1 => cards[t].info = wanted[t]
=============================================================================
