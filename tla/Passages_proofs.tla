-------------------------- MODULE Passages_proofs --------------------------
(***************************************************************************)
(* Theorems about two parts of the station that share no state: Passages,  *)
(* for every number of readers, tags, passages and edits, and              *)
(* SettingsCache, for every number of carousels, web workers, threads and  *)
(* saves.                                                                  *)
(***************************************************************************)
EXTENDS Passages, SettingsCache, SequenceTheorems, TLAPS

-----------------------------------------------------------------------------
(* Types of what has to do with cards.                                     *)

Card == [info : Int, passport : BOOLEAN, required : BOOLEAN]

Edits ==
  [pc : {"none", "save", "create"}, id : Nat, tag : Tags \cup {NoTag},
   new : Tags \cup {NoTag}, seen : Card]

Duty ==
  {<<"card">>, <<"daily">>, <<"passport">>, <<"row">>, <<"empty", 1>>,
   <<"empty", -1>>, <<"full", 1>>, <<"full", -1>>}

Jobs == [tag : Tags \cup {NoTag}, todo : Seq(Duty), row : Card]

\* A passage without a tag has nothing to do with cards.
NoCardDuty(j) ==
  j.tag = NoTag => \A i \in 1 .. Len(j.todo) : j.todo[i] # <<"card">>

JobsType ==
  /\ jobs \in [Readers -> Jobs]
  /\ \A r \in Readers : NoCardDuty(jobs[r])

CardTypeOK ==
  /\ cards \in [Tags -> Card] /\ wanted \in [Tags -> Int]
  /\ edit \in Edits /\ JobsType /\ doings \in Nat

\* Only while a card gets a new tag, the old one has a wish and no card.
Kept(t) ==
  (edit.pc = "create" /\ edit.tag = t) \/ wanted[t] = -1 \/ cards[t].info = wanted[t]

Peace == mishaps \cap {"stale", "badpatch", "taken", "broken"} = {}

EditInv == CardTypeOK /\ (Peace => \A t \in Tags : Kept(t))

-----------------------------------------------------------------------------
LEMMA CardTypes ==
  /\ NoCard \in Card /\ NoCard.info = -1
  /\ \A info \in Int : NewCard(info) \in Card /\ NewCard(info).info = info
  /\ NoEdit \in Edits /\ NoEdit.pc = "none"
  BY DEF NoCard, NewCard, NoEdit, Edits, Card

LEMMA DutiesType ==
  ASSUME NEW r \in Readers
  PROVE  /\ Duties(r, "tag") \in Seq(Duty)
         /\ Duties(r, "sensor") \in Seq(Duty)
         /\ \A i \in 1 .. Len(Duties(r, "sensor")) :
              Duties(r, "sensor")[i] # <<"card">>
  <1>1. \A w \in {"tag", "sensor"} :
          /\ Warehouse(r, w) \in Seq(Duty)
          /\ \A i \in 1 .. Len(Warehouse(r, w)) : Warehouse(r, w)[i] # <<"card">>
    <2>1. /\ \A d \in Duty : << d >> \in Seq(Duty)
          /\ \A d, e \in Duty : << d, e >> \in Seq(Duty)
          /\ << >> \in Seq(Duty)
      OBVIOUS
    <2>2. /\ <<"empty", 1>> \in Duty /\ <<"empty", -1>> \in Duty
          /\ <<"full", 1>> \in Duty /\ <<"full", -1>> \in Duty
      BY DEF Duty
    <2> SUFFICES ASSUME NEW w \in {"tag", "sensor"}
                 PROVE  /\ Warehouse(r, w) \in Seq(Duty)
                        /\ \A i \in 1 .. Len(Warehouse(r, w)) :
                             Warehouse(r, w)[i] # <<"card">>
      OBVIOUS
    <2>3. \/ Warehouse(r, w) = << <<"empty", 1>> >>
          \/ Warehouse(r, w) = << <<"full", 1>>, <<"empty", -1>> >>
          \/ Warehouse(r, w) = << <<"full", -1>> >>
          \/ Warehouse(r, w) = << >>
      BY DEF Warehouse
    <2>4. /\ <<"empty", 1>> # <<"card">> /\ <<"empty", -1>> # <<"card">>
          /\ <<"full", 1>> # <<"card">> /\ <<"full", -1>> # <<"card">>
      OBVIOUS
    <2>5. \A d \in Duty : d # <<"card">> =>
            \A i \in 1 .. Len(<< d >>) : << d >>[i] # <<"card">>
      OBVIOUS
    <2>6. \A d, e \in Duty : d # <<"card">> /\ e # <<"card">> =>
            \A i \in 1 .. Len(<< d, e >>) : << d, e >>[i] # <<"card">>
      OBVIOUS
    <2>7. \A i \in 1 .. Len(<< >>) : << >>[i] # <<"card">>
      OBVIOUS
    <2>8. Warehouse(r, w) \in Seq(Duty)
      BY <2>1, <2>2, <2>3
    <2>9. \A i \in 1 .. Len(Warehouse(r, w)) : Warehouse(r, w)[i] # <<"card">>
      <3> DEFINE a == <<"empty", 1>>
                 b == <<"empty", -1>>
                 c == <<"full", 1>>
                 d == <<"full", -1>>
                 x == <<"card">>
      <3>1. /\ a \in Duty /\ b \in Duty /\ c \in Duty /\ d \in Duty
            /\ a # x /\ b # x /\ c # x /\ d # x
        BY <2>2, <2>4
      <3>2. \/ Warehouse(r, w) = << a >> \/ Warehouse(r, w) = << c, b >>
            \/ Warehouse(r, w) = << d >> \/ Warehouse(r, w) = << >>
        BY <2>3
      <3>3. \A e \in Duty : e # x => \A i \in 1 .. Len(<< e >>) : << e >>[i] # x
        BY <2>5
      <3>4. \A e, f \in Duty : e # x /\ f # x =>
              \A i \in 1 .. Len(<< e, f >>) : << e, f >>[i] # x
        BY <2>6
      <3> HIDE DEF a, b, c, d, x
      <3>5. \A i \in 1 .. Len(Warehouse(r, w)) : Warehouse(r, w)[i] # x
        BY <3>1, <3>2, <3>3, <3>4
      <3> QED
        BY <3>5 DEF x
    <2> QED
      BY <2>8, <2>9
  <1>2. << <<"card">>, <<"daily">> >> \in Seq(Duty)
        /\ << <<"daily">> >> \in Seq(Duty)
        /\ << <<"passport">>, <<"row">> >> \in Seq(Duty)
    BY DEF Duty
  <1>3. Duties(r, "tag") \in Seq(Duty)
    BY <1>1, <1>2, ConcatProperties DEF Duties
  <1>4. Duties(r, "sensor") = << <<"daily">> >> \o Warehouse(r, "sensor")
    BY DEF Duties
  <1>5. Duties(r, "sensor") \in Seq(Duty)
    BY <1>1, <1>2, <1>4, ConcatProperties
  <1>6. \A i \in 1 .. Len(Duties(r, "sensor")) : Duties(r, "sensor")[i] # <<"card">>
    <2> DEFINE w == Warehouse(r, "sensor")
    <2>1. w \in Seq(Duty) /\ Len(w) \in Nat
      BY <1>1
    <2> HIDE DEF w
    <2>2. /\ Len(<< <<"daily">> >> \o w) = 1 + Len(w)
          /\ \A i \in 1 .. 1 + Len(w) :
               (<< <<"daily">> >> \o w)[i] = IF i =< 1 THEN <<"daily">> ELSE w[i - 1]
      BY <1>2, <2>1, ConcatProperties
    <2>3. \A i \in 1 .. Len(w) : w[i] # <<"card">>
      BY <1>1 DEF w
    <2>4. <<"daily">> # <<"card">>
      OBVIOUS
    <2>5. ASSUME NEW i \in 1 .. 1 + Len(w)
          PROVE  (<< <<"daily">> >> \o w)[i] # <<"card">>
      <3>1. CASE i =< 1
        BY <2>2, <2>4, <3>1
      <3>2. CASE i > 1
        <4>1. i - 1 \in 1 .. Len(w)
          BY <2>1, <3>2
        <4> QED
          BY <2>1, <2>2, <2>3, <3>2, <4>1
      <3> QED
        BY <2>1, <3>1, <3>2
    <2> QED
      BY <1>4, <2>2, <2>5 DEF w
  <1> QED
    BY <1>3, <1>5, <1>6

LEMMA JobsStep ==
  ASSUME JobsType, NEW r \in Readers, NEW j \in Jobs, NoCardDuty(j),
         jobs' = [jobs EXCEPT ![r] = j]
  PROVE  JobsType'
  BY DEF JobsType

LEMMA NoJobType ==
  ASSUME JobsType, NEW r \in Readers, jobs' = [jobs EXCEPT ![r] = NoJob]
  PROVE  JobsType'
  <1>1. NoJob \in Jobs /\ NoCardDuty(NoJob)
    BY CardTypes DEF NoJob, Jobs, NoCardDuty
  <1> QED
    BY <1>1, JobsStep

LEMMA ProceedsType ==
  ASSUME JobsType, NEW r \in Readers, NEW row \in Card, jobs[r].todo # <<>>,
         \/ Proceeds(r)
         \/ jobs' = [jobs EXCEPT ![r] = [Remaining(r) EXCEPT !.row = row]]
  PROVE  JobsType'
  <1>1. jobs[r] \in Jobs /\ NoCardDuty(jobs[r])
    BY DEF JobsType
  <1>2. NoJob \in Jobs /\ NoCardDuty(NoJob)
    BY CardTypes DEF NoJob, Jobs, NoCardDuty
  <1> DEFINE rest == [jobs[r] EXCEPT !.todo = Tail(@)]
  <1>3. rest \in Jobs /\ NoCardDuty(rest)
    <2>1. jobs[r].todo \in Seq(Duty)
      BY <1>1 DEF Jobs
    <2>2. /\ Tail(jobs[r].todo) \in Seq(Duty)
          /\ Len(Tail(jobs[r].todo)) = Len(jobs[r].todo) - 1
          /\ \A i \in 1 .. Len(jobs[r].todo) - 1 :
               Tail(jobs[r].todo)[i] = jobs[r].todo[i + 1]
      BY <2>1, HeadTailProperties
    <2>3. Len(jobs[r].todo) \in Nat
      BY <2>1
    <2>4. rest \in Jobs /\ rest.tag = jobs[r].tag /\ rest.todo = Tail(jobs[r].todo)
      BY <1>1, <2>2 DEF Jobs
    <2> HIDE DEF rest
    <2> QED
      BY <1>1, <2>2, <2>3, <2>4 DEF NoCardDuty
  <1>4. Remaining(r) \in Jobs /\ NoCardDuty(Remaining(r))
    BY <1>2, <1>3 DEF Remaining
  <1>5. [Remaining(r) EXCEPT !.row = row] \in Jobs
        /\ NoCardDuty([Remaining(r) EXCEPT !.row = row])
    <2> DEFINE m == Remaining(r)
    <2>1. m \in Jobs /\ NoCardDuty(m)
      BY <1>4
    <2> HIDE DEF m
    <2>2. [m EXCEPT !.row = row] \in Jobs /\ [m EXCEPT !.row = row].tag = m.tag
          /\ [m EXCEPT !.row = row].todo = m.todo
      BY <2>1 DEF Jobs
    <2>3. NoCardDuty([m EXCEPT !.row = row])
      BY <2>1, <2>2 DEF NoCardDuty
    <2> QED
      BY <2>2, <2>3 DEF m
  <1> QED
    BY <1>4, <1>5, JobsStep DEF Proceeds

LEMMA PeaceBefore ==
  [PassageNext]_<<mishapVars, passageVars>> /\ Peace' => Peace
  <1>1. ASSUME NEW kind, Slip(kind), Peace' PROVE Peace
    BY <1>1 DEF Slip, Peace
  <1>2. Smooth /\ Peace' => Peace
    BY DEF Smooth, mishapVars, Peace
  <1>3. UNCHANGED <<mishapVars, passageVars>> /\ Peace' => Peace
    BY DEF mishapVars, Peace
  <1>4. ASSUME NEW r \in Readers, Serve(r), Peace' PROVE Peace
    BY <1>1, <1>2, <1>4
       DEF Serve, FindCard, CountPassage, CountStock, TakePassport,
           UpdateBalloonPassport, GetBalloonDataFails, WriteJournal, Break
  <1>5. ASSUME NEW r \in Readers, NEW t, Arrive(r, t), Peace' PROVE Peace
    BY <1>2, <1>5 DEF Arrive
  <1>6. ASSUME NEW t \in Tags, Register(t) \/ BeginEdit(t), Peace' PROVE Peace
    BY <1>2, <1>6 DEF Register, BeginEdit
  <1>7. ASSUME SaveEdit \/ DeleteOld \/ CreateNew, Peace' PROVE Peace
    BY <1>1, <1>2, <1>7 DEF SaveEdit, DeleteOld, CreateNew
  <1>8. ASSUME EnterValues \/ ClearStatistic, Peace' PROVE Peace
    BY <1>1, <1>2, <1>8 DEF EnterValues, ClearStatistic
  <1>9. ASSUME Midnight \/ ComputeStatistic \/ KeepStatistic \/ ExpireStatistic, Peace'
        PROVE  Peace
    BY <1>2, <1>9 DEF Midnight, ComputeStatistic, KeepStatistic, ExpireStatistic
  <1> QED
    BY <1>3, <1>4, <1>5, <1>6, <1>7, <1>8, <1>9 DEF PassageNext

-----------------------------------------------------------------------------
(* The steps of a passage.                                                 *)

\* A step that leaves cards, wishes and the edit alone.
LEMMA CardsAlone ==
  ASSUME EditInv, UNCHANGED <<cards, wanted, edit>>, JobsType', doings' \in Nat,
         Peace' => Peace
  PROVE  EditInv'
  BY DEF EditInv, CardTypeOK, Kept

LEMMA FindCardKeeps ==
  ASSUME EditInv, NEW r \in Readers, FindCard(r), Peace' => Peace
  PROVE  EditInv'
  <1> DEFINE t == jobs[r].tag
             row == IF cards[t] = NoCard THEN NewCard(0) ELSE cards[t]
  <1>1. /\ cards' = [cards EXCEPT ![t] = row]
        /\ jobs' = [jobs EXCEPT ![r] = [Remaining(r) EXCEPT !.row = row]]
        /\ UNCHANGED <<wanted, edit, doings>>
    BY DEF FindCard
  <1>2. t \in Tags
    <2>1. jobs[r] \in Jobs /\ NoCardDuty(jobs[r]) /\ Turn(r, "card")
      BY DEF FindCard, EditInv, CardTypeOK, JobsType
    <2>2. jobs[r].todo # <<>> /\ jobs[r].todo \in Seq(Duty) /\ Head(jobs[r].todo)[1] = "card"
      BY <2>1 DEF Turn, Jobs
    <2>3. 1 \in 1 .. Len(jobs[r].todo) /\ jobs[r].todo[1] = Head(jobs[r].todo)
          /\ jobs[r].todo[1] \in Duty
      BY <2>2
    <2>4. jobs[r].todo[1] = <<"card">>
      BY <2>2, <2>3 DEF Duty
    <2> QED
      BY <2>1, <2>3, <2>4 DEF NoCardDuty, Jobs
  <1>3. cards[t] \in Card /\ row \in Card
    BY <1>2, CardTypes DEF EditInv, CardTypeOK
  <1>4. JobsType'
    <2>1. JobsType /\ jobs[r].todo # <<>>
      BY DEF FindCard, Turn, EditInv, CardTypeOK
    <2> HIDE DEF row
    <2> QED
      BY <1>1, <1>3, <2>1, ProceedsType
  <1>5. row.info = cards[t].info \/ cards[t].info = -1
    BY CardTypes
  <1>6. wanted[t] # -1 /\ Kept(t) /\ cards[t].info = -1
          => edit.pc = "create" /\ edit.tag = t
    BY <1>2 DEF Kept, EditInv, CardTypeOK
  <1>7. Peace' => \A u \in Tags : Kept(u)'
    <2> SUFFICES ASSUME Peace', NEW u \in Tags PROVE Kept(u)'
      OBVIOUS
    <2>1. Kept(u)
      BY DEF EditInv
    <2>2. cards'[t] = row /\ (u # t => cards'[u] = cards[u])
      BY <1>1, <1>2 DEF EditInv, CardTypeOK
    <2> HIDE DEF row
    <2> QED
      BY <1>1, <1>5, <1>6, <2>1, <2>2 DEF Kept
  <1>8. cards' \in [Tags -> Card]
    BY <1>1, <1>3 DEF EditInv, CardTypeOK
  <1> QED
    BY <1>1, <1>4, <1>7, <1>8 DEF EditInv, CardTypeOK

LEMMA ServeKeeps ==
  ASSUME EditInv, NEW r \in Readers, Serve(r), Peace' => Peace
  PROVE  EditInv'
  <1>1. JobsType /\ jobs[r] \in Jobs /\ doings \in Nat
    BY DEF EditInv, CardTypeOK, JobsType
  <1>2. jobs[r].row \in Card
    BY <1>1 DEF Jobs
  <1>3. CASE FindCard(r)
    BY <1>3, FindCardKeeps
  <1>4. CASE CountPassage(r) \/ CountStock(r) \/ WriteJournal(r)
    <2>1. /\ jobs[r].todo # <<>> /\ Proceeds(r) /\ doings' = doings
          /\ UNCHANGED <<cards, wanted, edit>>
      BY <1>4 DEF CountPassage, CountStock, WriteJournal, Turn, cardVars
    <2>2. JobsType'
      BY <1>1, <1>2, <2>1, ProceedsType
    <2> QED
      BY <1>1, <2>1, <2>2, CardsAlone
  <1>5. CASE Break(r)
    <2>1. /\ jobs' = [jobs EXCEPT ![r] = NoJob] /\ doings' = doings
          /\ UNCHANGED <<cards, wanted, edit>>
      BY <1>5 DEF Break, cardVars
    <2>2. JobsType'
      BY <1>1, <2>1, NoJobType
    <2> QED
      BY <1>1, <2>1, <2>2, CardsAlone
  <1>6. CASE TakePassport(r)
    <2>1. /\ jobs[r].todo # <<>> /\ doings' = doings /\ UNCHANGED <<wanted, edit>>
      BY <1>6 DEF TakePassport, Turn
    <2>2. CASE cards' = cards /\ Proceeds(r)
      BY <1>1, <1>2, <2>1, <2>2, ProceedsType, CardsAlone
    <2>3. CASE GetBalloonDataFails(r)
      BY <1>1, <2>1, <2>3, NoJobType, CardsAlone DEF GetBalloonDataFails
    <2>4. CASE UpdateBalloonPassport(r)
      <3> DEFINE t == jobs[r].tag
                 row == [jobs[r].row EXCEPT !.passport = TRUE, !.required = FALSE]
      <3>1. cards' = [cards EXCEPT ![t] = row] /\ Proceeds(r)
        BY <2>4 DEF UpdateBalloonPassport
      <3>2. row \in Card /\ row.info = jobs[r].row.info
        BY <1>2 DEF Card
      <3>3. cards[t].info # row.info => Slip("stale")
        BY <2>4, <3>2 DEF UpdateBalloonPassport
      <3> HIDE DEF row
      <3>4. cards \in [Tags -> Card] /\ cards' \in [Tags -> Card]
        BY <3>1, <3>2 DEF EditInv, CardTypeOK
      <3>5. JobsType'
        BY <1>1, <1>2, <2>1, <3>1, ProceedsType
      <3>6. Peace' => cards[t].info = row.info
        BY <3>3 DEF Slip, Peace
      <3>7. Peace' => \A u \in Tags : cards'[u].info = cards[u].info
        BY <3>1, <3>4, <3>6
      <3>8. Peace' => \A u \in Tags : Kept(u)'
        BY <2>1, <3>7 DEF Kept, EditInv
      <3> QED
        BY <1>1, <2>1, <3>4, <3>5, <3>8 DEF EditInv, CardTypeOK
    <2> QED
      BY <1>6, <2>2, <2>3, <2>4 DEF TakePassport
  <1> QED
    BY <1>3, <1>4, <1>5, <1>6 DEF Serve

LEMMA ArriveKeeps ==
  ASSUME EditInv, NEW r \in Readers, NEW t \in Tags \cup {NoTag}, Arrive(r, t),
         Peace' => Peace
  PROVE  EditInv'
  <1> DEFINE todo == Duties(r, IF t = NoTag THEN "sensor" ELSE "tag")
             j == [NoJob EXCEPT !.tag = t, !.todo = todo]
  <1>1. jobs' = [jobs EXCEPT ![r] = j] /\ doings' = doings + 1
        /\ UNCHANGED <<cards, wanted, edit>>
    BY DEF Arrive, Do, cardVars
  <1>2. todo \in Seq(Duty)
        /\ (t = NoTag => \A i \in 1 .. Len(todo) : todo[i] # <<"card">>)
    BY DutiesType
  <1> HIDE DEF todo
  <1>3. j \in Jobs /\ j.tag = t /\ j.todo = todo
    BY <1>2, CardTypes DEF NoJob, Jobs
  <1> HIDE DEF j
  <1>4. NoCardDuty(j)
    BY <1>2, <1>3 DEF NoCardDuty
  <1>5. JobsType'
    BY <1>1, <1>3, <1>4, JobsStep DEF EditInv, CardTypeOK
  <1>6. doings' \in Nat
    BY <1>1 DEF EditInv, CardTypeOK
  <1> QED
    BY <1>1, <1>5, <1>6, CardsAlone

-----------------------------------------------------------------------------
(* The steps of people.                                                    *)

LEMMA RegisterKeeps ==
  ASSUME EditInv, NEW t \in Tags, Register(t), Peace' => Peace
  PROVE  EditInv'
  <1> DEFINE row == NewCard(doings')
  <1>1. /\ cards' = [cards EXCEPT ![t] = row]
        /\ wanted' = [wanted EXCEPT ![t] = doings']
        /\ doings' = doings + 1 /\ UNCHANGED <<jobs, edit>>
    BY DEF Register, Do
  <1>2. doings' \in Nat
    BY <1>1 DEF EditInv, CardTypeOK
  <1>3. row \in Card /\ row.info = doings'
    BY <1>2, CardTypes
  <1> HIDE DEF row
  <1>4. CardTypeOK'
    BY <1>1, <1>2, <1>3 DEF EditInv, CardTypeOK, JobsType
  <1>5. Peace' => \A u \in Tags : Kept(u)'
    BY <1>1, <1>3 DEF EditInv, CardTypeOK, Kept
  <1> QED
    BY <1>4, <1>5 DEF EditInv

LEMMA BeginEditKeeps ==
  ASSUME EditInv, NEW t \in Tags, BeginEdit(t), Peace' => Peace
  PROVE  EditInv'
  <1>1. /\ edit = NoEdit /\ UNCHANGED <<cards, wanted, jobs>> /\ doings' = doings + 1
        /\ edit' = [NoEdit EXCEPT !.pc = "save", !.id = doings', !.tag = t, !.seen = cards[t]]
    BY DEF BeginEdit, Do
  <1>2. cards[t] \in Card /\ doings' \in Nat
    BY <1>1 DEF EditInv, CardTypeOK
  <1>3. edit' \in Edits /\ edit'.pc = "save"
    BY <1>1, <1>2 DEF NoEdit, Edits
  <1>4. CardTypeOK'
    BY <1>1, <1>2, <1>3 DEF EditInv, CardTypeOK, JobsType
  <1>5. Peace' => \A u \in Tags : Kept(u)'
    BY <1>1, <1>3, CardTypes DEF EditInv, Kept
  <1> QED
    BY <1>4, <1>5 DEF EditInv

LEMMA Change ==
  ASSUME NEW S, NEW f \in [Tags -> S], NEW k, NEW x \in S
  PROVE  /\ [f EXCEPT ![k] = x] \in [Tags -> S]
         /\ \A u \in Tags : [f EXCEPT ![k] = x][u] = IF u = k THEN x ELSE f[u]
  OBVIOUS

LEMMA SaveEditKeeps ==
  ASSUME EditInv, SaveEdit, Peace' => Peace
  PROVE  EditInv'
  <1> DEFINE row == [edit.seen EXCEPT !.info = edit.id]
  <1>1. /\ edit.pc = "save" /\ edit' = NoEdit /\ UNCHANGED <<jobs, doings>>
        /\ cards' = [cards EXCEPT ![edit.tag] = row]
        /\ wanted' = [wanted EXCEPT ![edit.tag] = edit.id]
    BY DEF SaveEdit
  <1>2. edit.id \in Nat /\ edit.seen \in Card
    BY DEF EditInv, CardTypeOK, Edits
  <1>3. row \in Card /\ row.info = edit.id
    BY <1>2 DEF Card
  <1> HIDE DEF row
  <1>4. CardTypeOK'
    <2>1. cards' \in [Tags -> Card] /\ wanted' \in [Tags -> Int]
      <3>1. cards \in [Tags -> Card] /\ wanted \in [Tags -> Int] /\ edit.id \in Int
        BY <1>2 DEF EditInv, CardTypeOK
      <3>2. [cards EXCEPT ![edit.tag] = row] \in [Tags -> Card]
        BY <1>3, <3>1, Change
      <3>3. [wanted EXCEPT ![edit.tag] = edit.id] \in [Tags -> Int]
        BY <3>1, Change
      <3> QED
        BY <1>1, <3>2, <3>3
    <2>2. edit' \in Edits /\ JobsType' /\ doings' \in Nat
      BY <1>1, CardTypes DEF EditInv, CardTypeOK, JobsType
    <2> QED
      BY <2>1, <2>2 DEF CardTypeOK
  <1>5. Peace' => \A u \in Tags : Kept(u)'
    BY <1>1, <1>3, CardTypes DEF EditInv, CardTypeOK, Kept
  <1> QED
    BY <1>4, <1>5 DEF EditInv

LEMMA DeleteOldKeeps ==
  ASSUME EditInv, DeleteOld, Peace' => Peace
  PROVE  EditInv'
  <1>1. edit.pc = "save" /\ UNCHANGED <<jobs, doings, wanted>>
    BY DEF DeleteOld
  <1>2. CASE edit' = NoEdit /\ cards' = cards
    BY <1>1, <1>2, CardTypes DEF EditInv, CardTypeOK, JobsType, Kept
  <1>3. ASSUME cards' = [cards EXCEPT ![edit.tag] = NoCard],
               \/ edit' = NoEdit /\ Slip("badpatch")
               \/ \E u \in Tags : edit' = [edit EXCEPT !.pc = "create", !.new = u]
        PROVE  EditInv'
    <2>1. edit' \in Edits
          /\ (Slip("badpatch") \/ (edit'.pc = "create" /\ edit'.tag = edit.tag))
      BY <1>3, CardTypes DEF EditInv, CardTypeOK, Edits
    <2>2. CardTypeOK'
      BY <1>1, <1>3, <2>1, CardTypes DEF EditInv, CardTypeOK, JobsType
    <2>3. Peace' => edit'.pc = "create" /\ edit'.tag = edit.tag
      BY <2>1 DEF Slip, Peace
    <2>4. Peace' => \A u \in Tags : Kept(u)'
      BY <1>1, <1>3, <2>3 DEF EditInv, CardTypeOK, Kept
    <2> QED
      BY <2>2, <2>4 DEF EditInv
  <1> QED
    BY <1>2, <1>3 DEF DeleteOld

LEMMA CreateNewKeeps ==
  ASSUME EditInv, CreateNew, Peace' => Peace
  PROVE  EditInv'
  <1>1. edit.pc = "create" /\ edit' = NoEdit /\ UNCHANGED <<jobs, doings>>
    BY DEF CreateNew
  <1>2. edit.id \in Nat
    BY DEF EditInv, CardTypeOK, Edits
  <1>3. CASE UNCHANGED <<cards, wanted>> /\ (Slip("taken") \/ Slip("broken"))
    <2>1. ~Peace'
      BY <1>3 DEF Slip, Peace
    <2> QED
      BY <1>1, <1>3, <2>1, CardTypes DEF EditInv, CardTypeOK, JobsType
  <1>4. ASSUME cards' = [cards EXCEPT ![edit.new] = NewCard(edit.id)],
               wanted' = [wanted EXCEPT ![edit.new] = edit.id, ![edit.tag] = -1]
        PROVE  EditInv'
    <2>1. NewCard(edit.id) \in Card /\ NewCard(edit.id).info = edit.id
      BY <1>2, CardTypes
    <2>2. wanted' \in [Tags -> Int]
          /\ \A u \in Tags : wanted'[u] = IF u = edit.tag THEN -1
                                          ELSE IF u = edit.new THEN edit.id ELSE wanted[u]
      <3> DEFINE first == [wanted EXCEPT ![edit.new] = edit.id]
      <3>1. wanted' = [first EXCEPT ![edit.tag] = -1]
        BY <1>4
      <3>2. first \in [Tags -> Int]
            /\ \A u \in Tags : first[u] = IF u = edit.new THEN edit.id ELSE wanted[u]
        <4>1. wanted \in [Tags -> Int] /\ edit.id \in Int
          BY <1>2 DEF EditInv, CardTypeOK
        <4> QED
          BY <4>1, Change
      <3> HIDE DEF first
      <3>3. -1 \in Int
        OBVIOUS
      <3>4. /\ [first EXCEPT ![edit.tag] = -1] \in [Tags -> Int]
            /\ \A u \in Tags : [first EXCEPT ![edit.tag] = -1][u]
                              = IF u = edit.tag THEN -1 ELSE first[u]
        BY <3>2, <3>3, Change
      <3> QED
        BY <3>1, <3>2, <3>4
    <2>3. CardTypeOK'
      BY <1>1, <1>4, <2>1, <2>2, CardTypes DEF EditInv, CardTypeOK, JobsType
    <2>4. \A u \in Tags : cards'[u].info = IF u = edit.new THEN edit.id ELSE cards[u].info
      BY <1>4, <2>1 DEF EditInv, CardTypeOK
    <2>5. Peace' => \A u \in Tags : Kept(u)'
      BY <1>1, <2>2, <2>4, CardTypes DEF EditInv, Kept
    <2> QED
      BY <2>3, <2>5 DEF EditInv
  <1> QED
    BY <1>3, <1>4 DEF CreateNew

LEMMA OthersKeep ==
  ASSUME EditInv, Peace' => Peace,
         \/ Midnight \/ EnterValues \/ ClearStatistic
         \/ ComputeStatistic \/ KeepStatistic \/ ExpireStatistic
  PROVE  EditInv'
  <1>1. UNCHANGED <<cards, wanted, edit, jobs>> /\ doings' \in {doings, doings + 1}
    BY DEF Midnight, EnterValues, ClearStatistic, ComputeStatistic,
           KeepStatistic, ExpireStatistic, Do, cardVars
  <1>2. JobsType' /\ doings' \in Nat
    BY <1>1 DEF EditInv, CardTypeOK, JobsType
  <1> QED
    BY <1>1, <1>2, CardsAlone

\* Cards have their types, and what people wrote is kept while nothing goes wrong.
LEMMA EditInvHolds == PassageSpec => []EditInv
  <1>1. PassageInit => EditInv
    <2> SUFFICES ASSUME PassageInit PROVE EditInv
      OBVIOUS
    <2>1. cards \in [Tags -> Card]
      BY CardTypes DEF PassageInit, Card
    <2>2. /\ wanted = [t \in Tags |-> cards[t].info] /\ edit = NoEdit
          /\ jobs = [r \in Readers |-> NoJob] /\ doings = 0
      BY DEF PassageInit
    <2>3. wanted \in [Tags -> Int] /\ \A t \in Tags : Kept(t)
      BY <2>1, <2>2 DEF Card, Kept
    <2>4. NoJob \in Jobs /\ NoCardDuty(NoJob)
      BY CardTypes DEF NoJob, Jobs, NoCardDuty
    <2> QED
      BY <2>1, <2>2, <2>3, <2>4, CardTypes DEF EditInv, CardTypeOK, JobsType
  <1>2. EditInv /\ [PassageNext]_<<mishapVars, passageVars>> => EditInv'
    <2> SUFFICES ASSUME EditInv, [PassageNext]_<<mishapVars, passageVars>>
                 PROVE  EditInv'
      OBVIOUS
    <2>1. Peace' => Peace
      BY PeaceBefore
    <2>2. ASSUME NEW r \in Readers, Serve(r) PROVE EditInv'
      BY <2>1, <2>2, ServeKeeps
    <2>3. ASSUME NEW r \in Readers, NEW t \in Tags \cup {NoTag}, Arrive(r, t)
          PROVE  EditInv'
      BY <2>1, <2>3, ArriveKeeps
    <2>4. ASSUME NEW t \in Tags, Register(t) \/ BeginEdit(t) PROVE EditInv'
      BY <2>1, <2>4, RegisterKeeps, BeginEditKeeps
    <2>5. CASE SaveEdit \/ DeleteOld \/ CreateNew
      BY <2>1, <2>5, SaveEditKeeps, DeleteOldKeeps, CreateNewKeeps
    <2>6. CASE \/ Midnight \/ EnterValues \/ ClearStatistic
               \/ ComputeStatistic \/ KeepStatistic \/ ExpireStatistic
      BY <2>1, <2>6, OthersKeep
    <2>7. CASE UNCHANGED <<mishapVars, passageVars>>
      <3>1. UNCHANGED <<cards, wanted, edit, jobs, doings>>
        BY <2>7 DEF passageVars
      <3>2. JobsType' /\ doings' \in Nat
        BY <3>1 DEF EditInv, CardTypeOK, JobsType
      <3> QED
        BY <2>1, <3>1, <3>2, CardsAlone
    <2> QED
      BY <2>2, <2>3, <2>4, <2>5, <2>6, <2>7 DEF PassageNext
  <1> QED
    BY <1>1, <1>2, PTL DEF PassageSpec

-----------------------------------------------------------------------------
\* A card that people have written stays as they wrote it, whatever passes
\* the readers meanwhile: for every number of readers, cards and edits.
THEOREM EditsAreKeptHolds == PassageSpec => []EditsAreKept
  <1>1. EditInv => EditsAreKept
    BY DEF EditInv, Peace, Kept, EditsAreKept
  <1> QED
    BY <1>1, EditInvHolds, PTL

-----------------------------------------------------------------------------
(***************************************************************************)
(* What is still to be counted for the passages that are being served.     *)
(***************************************************************************)
Has(todo, x) == \E i \in DOMAIN todo : todo[i][1] = x

\* What the duties will add to the counter of a kind.
Due(todo, k) ==
  LET n == {i \in DOMAIN todo : todo[i][1] = k}
  IN  IF n = {} THEN 0 ELSE todo[CHOOSE i \in n : TRUE][2]

\* No duty comes twice, and the passport comes after everything that counts.
OneEach(todo) == \A i, j \in DOMAIN todo : todo[i][1] = todo[j][1] => i = j
RowLast(todo) ==
  \A i, j \in DOMAIN todo : i < j /\ todo[i][1] = "passport" => todo[j][1] = "row"

Owes(r, k) == IF r \in Readers THEN Due(jobs[r].todo, k) ELSE 0

\* There are at most eight readers.
Owed(k) ==
  Owes(1, k) + Owes(2, k) + Owes(3, k) + Owes(4, k)
  + Owes(5, k) + Owes(6, k) + Owes(7, k) + Owes(8, k)

Uncounted(r, w) ==
  IF Has(jobs[r].todo, "daily") /\ Way(r) = w THEN 1 ELSE 0

Countable == mishaps \cap {"broken", "floor", "midway", "norow", "slowread"} = {}

CountTypes ==
  /\ day \in Days /\ daily \in [Readers \X Days \X Ways -> Nat]
  /\ passed \in [Readers \X Ways -> Nat] /\ stock \in [Kinds -> Nat]
  /\ entered \in 0 .. doings
  /\ \A r \in Readers : OneEach(jobs[r].todo) /\ RowLast(jobs[r].todo)
  /\ statistic.entered \in Int /\ reading.entered \in Int /\ reading.entered <= entered

\* The warehouse lacks what is still to be counted, and so do the days.
StockCounted ==
  totals \in [Kinds -> Nat] /\ \A k \in Kinds : totals[k] + Owed(k) = stock[k]

DaysCounted ==
  \A r \in Readers, w \in Ways :
    daily[<<r, 1, w>>] + daily[<<r, 2, w>>] + Uncounted(r, w) = passed[<<r, w>>]

\* What is shown, or will be shown, is no older than the values entered.
StatisticsFresh ==
  ~entry => /\ statistic # NoStatistic => statistic.entered = entered
            /\ reading # NoStatistic => reading.entered = entered

CountInv ==
  CountTypes /\ (Countable => StockCounted /\ DaysCounted /\ StatisticsFresh)

-----------------------------------------------------------------------------
(* The duties of a passage.                                                *)

LEMMA DutyHeads ==
  ASSUME NEW d \in Duty
  PROVE  /\ d[1] \in {"card", "daily", "passport", "row", "empty", "full"}
         /\ d[1] \in Kinds => d[2] \in Int
  BY DEF Duty, Kinds

LEMMA DueIs ==
  ASSUME NEW todo \in Seq(Duty), OneEach(todo), NEW k \in Kinds
  PROVE  /\ ~Has(todo, k) => Due(todo, k) = 0
         /\ \A i \in DOMAIN todo : todo[i][1] = k => Due(todo, k) = todo[i][2]
         /\ Due(todo, k) \in Int
  <1> DEFINE n == {i \in DOMAIN todo : todo[i][1] = k}
  <1>1. ~Has(todo, k) => n = {}
    BY DEF Has
  <1>2. \A i \in n : n = {i}
    BY DEF OneEach
  <1>3. \A i \in n : Due(todo, k) = todo[i][2]
    <2>1. ASSUME NEW i \in n PROVE Due(todo, k) = todo[i][2]
      <3>1. n = {i} /\ n # {}
        BY <1>2
      <3>2. (CHOOSE j \in n : TRUE) \in n
        BY <3>1
      <3>3. (CHOOSE j \in n : TRUE) = i
        BY <3>1, <3>2
      <3>4. Due(todo, k) = todo[CHOOSE j \in n : TRUE][2]
        BY <3>1 DEF Due
      <3> QED
        BY <3>3, <3>4
    <2> QED
      BY <2>1
  <1>4. n = {} => Due(todo, k) = 0
    BY DEF Due
  <1>5. \A i \in n : todo[i][2] \in Int
    BY DutyHeads
  <1> QED
    BY <1>1, <1>3, <1>4, <1>5

LEMMA Finished ==
  ASSUME NEW todo \in Seq(Duty), todo # <<>>, OneEach(todo), RowLast(todo)
  PROVE  /\ Head(todo) = todo[1] /\ Head(todo) \in Duty
         /\ Tail(todo) \in Seq(Duty) /\ OneEach(Tail(todo)) /\ RowLast(Tail(todo))
         /\ Has(todo, Head(todo)[1]) /\ ~Has(Tail(todo), Head(todo)[1])
         /\ \A x : x # Head(todo)[1] => (Has(Tail(todo), x) <=> Has(todo, x))
         /\ \A k \in Kinds :
              Due(Tail(todo), k) = IF Head(todo)[1] = k THEN 0 ELSE Due(todo, k)
         /\ Len(todo) = 1 => Tail(todo) = <<>>
  <1> DEFINE rest == Tail(todo)
  <1>1. /\ Len(todo) \in Nat \ {0} /\ DOMAIN todo = 1 .. Len(todo)
        /\ Head(todo) = todo[1] /\ Head(todo) \in Duty
        /\ rest \in Seq(Duty) /\ Len(rest) = Len(todo) - 1
        /\ DOMAIN rest = 1 .. Len(todo) - 1
        /\ \A i \in 1 .. Len(todo) - 1 : rest[i] = todo[i + 1]
    BY HeadTailProperties
  <1> HIDE DEF rest
  <1>2. \A i \in DOMAIN rest : i + 1 \in DOMAIN todo /\ rest[i] = todo[i + 1]
    BY <1>1
  <1>3. OneEach(rest) /\ RowLast(rest)
    <2>1. OneEach(rest)
      BY <1>1, <1>2 DEF OneEach
    <2>2. \A i, j \in DOMAIN rest : i < j => i + 1 < j + 1
      BY <1>1
    <2>3. RowLast(rest)
      BY <1>1, <1>2, <2>2 DEF RowLast
    <2> QED
      BY <2>1, <2>3
  <1>4. 1 \in DOMAIN todo /\ \A i \in DOMAIN todo : i = 1 \/ (i - 1 \in DOMAIN rest
                                                        /\ rest[i - 1] = todo[i])
    BY <1>1
  <1>5. Has(todo, todo[1][1]) /\ ~Has(rest, todo[1][1])
    <2>1. \A i \in DOMAIN rest : i + 1 # 1
      BY <1>1
    <2>2. \A i \in DOMAIN rest : rest[i][1] # todo[1][1]
      BY <1>2, <1>4, <2>1 DEF OneEach
    <2> QED
      BY <1>4, <2>2 DEF Has
  <1>6. \A x : x # todo[1][1] => (Has(rest, x) <=> Has(todo, x))
    BY <1>2, <1>4 DEF Has
  <1>7. ASSUME NEW k \in Kinds
        PROVE  Due(rest, k) = IF todo[1][1] = k THEN 0 ELSE Due(todo, k)
    <2>1. CASE ~Has(rest, k)
      <3>1. Due(rest, k) = 0
        BY <1>1, <1>3, <2>1, DueIs
      <3>2. todo[1][1] # k => Due(todo, k) = 0
        BY <1>6, <2>1, DueIs
      <3> QED
        BY <3>1, <3>2
    <2>2. CASE Has(rest, k)
      <3>1. PICK i \in DOMAIN rest : rest[i][1] = k
        BY <2>2 DEF Has
      <3>2. Due(rest, k) = rest[i][2]
        BY <1>1, <1>3, <3>1, DueIs
      <3>3. Due(todo, k) = todo[i + 1][2]
        BY <1>2, <3>1, DueIs
      <3>4. todo[1][1] # k
        BY <1>5, <2>2
      <3> QED
        BY <1>2, <3>1, <3>2, <3>3, <3>4
    <2> QED
      BY <2>1, <2>2
  <1>8. Len(todo) = 1 => rest = <<>>
    BY <1>1, EmptySeq
  <1> QED
    BY <1>1, <1>3, <1>5, <1>6, <1>7, <1>8 DEF rest

\* Duties that follow each other.
LEMMA Joined ==
  ASSUME NEW s \in Seq(Duty), NEW t \in Seq(Duty), OneEach(s), OneEach(t),
         \A i \in DOMAIN s, j \in DOMAIN t : s[i][1] # t[j][1],
         ~Has(s, "passport"), RowLast(t)
  PROVE  /\ s \o t \in Seq(Duty) /\ OneEach(s \o t) /\ RowLast(s \o t)
         /\ \A x : Has(s \o t, x) <=> Has(s, x) \/ Has(t, x)
         /\ \A k \in Kinds : Due(s \o t, k) = Due(s, k) + Due(t, k)
  <1> DEFINE u == s \o t
  <1>1. /\ u \in Seq(Duty) /\ Len(u) = Len(s) + Len(t)
        /\ \A i \in 1 .. Len(s) + Len(t) : u[i] = IF i <= Len(s) THEN s[i] ELSE t[i - Len(s)]
        /\ Len(s) \in Nat /\ Len(t) \in Nat
        /\ DOMAIN s = 1 .. Len(s) /\ DOMAIN t = 1 .. Len(t) /\ DOMAIN u = 1 .. Len(u)
    BY ConcatProperties
  <1> HIDE DEF u
  <1>2. /\ \A i \in DOMAIN u : \/ i \in DOMAIN s /\ u[i] = s[i]
                               \/ i - Len(s) \in DOMAIN t /\ u[i] = t[i - Len(s)]
        /\ \A i \in DOMAIN s : i \in DOMAIN u /\ u[i] = s[i]
        /\ \A i \in DOMAIN t : i + Len(s) \in DOMAIN u /\ u[i + Len(s)] = t[i]
    BY <1>1
  <1>3. OneEach(u)
    <2> SUFFICES ASSUME NEW i \in DOMAIN u, NEW j \in DOMAIN u, u[i][1] = u[j][1]
                 PROVE  i = j
      BY DEF OneEach
    <2>1. CASE i \in DOMAIN s /\ u[i] = s[i] /\ j \in DOMAIN s /\ u[j] = s[j]
      BY <2>1 DEF OneEach
    <2>2. CASE /\ i - Len(s) \in DOMAIN t /\ u[i] = t[i - Len(s)]
               /\ j - Len(s) \in DOMAIN t /\ u[j] = t[j - Len(s)]
      <3>1. i - Len(s) = j - Len(s)
        BY <2>2 DEF OneEach
      <3> QED
        BY <1>1, <3>1
    <2> QED
      BY <1>2, <2>1, <2>2
  <1>4. \A x : Has(u, x) <=> Has(s, x) \/ Has(t, x)
    BY <1>2 DEF Has
  <1>5. RowLast(u)
    <2> SUFFICES ASSUME NEW i \in DOMAIN u, NEW j \in DOMAIN u, i < j, u[i][1] = "passport"
                 PROVE  u[j][1] = "row"
      BY DEF RowLast
    <2>1. i - Len(s) \in DOMAIN t /\ u[i] = t[i - Len(s)]
      BY <1>2 DEF Has
    <2>2. j - Len(s) \in DOMAIN t /\ u[j] = t[j - Len(s)] /\ i - Len(s) < j - Len(s)
      BY <1>1, <2>1
    <2> QED
      BY <2>1, <2>2 DEF RowLast
  <1>6. ASSUME NEW k \in Kinds PROVE Due(u, k) = Due(s, k) + Due(t, k)
    <2>1. CASE Has(s, k)
      <3>1. PICK i \in DOMAIN s : s[i][1] = k
        BY <2>1 DEF Has
      <3>2. Due(s, k) = s[i][2] /\ Due(u, k) = s[i][2] /\ Due(s, k) \in Int
        BY <1>1, <1>2, <1>3, <3>1, DueIs
      <3>3. ~Has(t, k)
        BY <3>1 DEF Has
      <3> QED
        BY <3>2, <3>3, DueIs
    <2>2. CASE Has(t, k)
      <3>1. PICK i \in DOMAIN t : t[i][1] = k
        BY <2>2 DEF Has
      <3>2. Due(t, k) = t[i][2] /\ Due(u, k) = t[i][2] /\ Due(t, k) \in Int
        BY <1>1, <1>2, <1>3, <3>1, DueIs
      <3>3. ~Has(s, k)
        BY <3>1 DEF Has
      <3> QED
        BY <3>2, <3>3, DueIs
    <2>3. CASE ~Has(s, k) /\ ~Has(t, k)
      BY <1>1, <1>3, <1>4, <2>3, DueIs
    <2> QED
      BY <2>1, <2>2, <2>3
  <1> QED
    BY <1>1, <1>3, <1>4, <1>5, <1>6 DEF u

\* One duty, or two.
LEMMA OneDuty ==
  ASSUME NEW d \in Duty
  PROVE  /\ <<d>> \in Seq(Duty) /\ OneEach(<<d>>) /\ RowLast(<<d>>)
         /\ \A x : Has(<<d>>, x) <=> x = d[1]
  BY DEF OneEach, RowLast, Has

LEMMA TwoDuties ==
  ASSUME NEW d \in Duty, NEW e \in Duty, d[1] # e[1],
         d[1] = "passport" => e[1] = "row"
  PROVE  /\ <<d, e>> \in Seq(Duty) /\ OneEach(<<d, e>>) /\ RowLast(<<d, e>>)
         /\ \A x : Has(<<d, e>>, x) <=> x = d[1] \/ x = e[1]
  <1> DEFINE s == <<d, e>>
  <1>1. s \in Seq(Duty) /\ DOMAIN s = {1, 2} /\ s[1] = d /\ s[2] = e
    OBVIOUS
  <1> HIDE DEF s
  <1>2. OneEach(s) /\ RowLast(s) /\ \A x : Has(s, x) <=> x = d[1] \/ x = e[1]
    BY <1>1 DEF OneEach, RowLast, Has
  <1> QED
    BY <1>1, <1>2 DEF s

LEMMA NoDuty ==
  /\ <<>> \in Seq(Duty) /\ OneEach(<<>>) /\ RowLast(<<>>) /\ \A x : ~Has(<<>>, x)
  /\ \A k \in Kinds : Due(<<>>, k) = 0
  <1>1. <<>> \in Seq(Duty) /\ OneEach(<<>>) /\ RowLast(<<>>) /\ \A x : ~Has(<<>>, x)
    BY DEF OneEach, RowLast, Has
  <1> QED
    BY <1>1, DueIs

LEMMA WarehouseDuties ==
  ASSUME NEW r, NEW way \in Ways
  PROVE  LET w == Warehouse(r, way)
         IN  /\ w \in Seq(Duty) /\ OneEach(w) /\ RowLast(w)
             /\ \A x : Has(w, x) => x \in Kinds
  <1> DEFINE w == Warehouse(r, way)
             e == <<"empty", 1>>
             f == <<"empty", -1>>
             g == <<"full", 1>>
             h == <<"full", -1>>
  <1>1. /\ e \in Duty /\ f \in Duty /\ g \in Duty /\ h \in Duty
        /\ e[1] = "empty" /\ f[1] = "empty" /\ g[1] = "full" /\ h[1] = "full"
    BY DEF Duty
  <1>2. w = <<e>> \/ w = <<g, f>> \/ w = <<h>> \/ w = <<>>
    BY DEF Warehouse
  <1> HIDE DEF w, e, f, g, h
  <1>3. "empty" \in Kinds /\ "full" \in Kinds /\ "empty" # "full" /\ "full" # "passport"
    BY DEF Kinds
  <1>4. CASE w = <<e>>
    BY <1>1, <1>3, <1>4, OneDuty DEF w
  <1>5. CASE w = <<h>>
    BY <1>1, <1>3, <1>5, OneDuty DEF w
  <1>6. CASE w = <<g, f>>
    BY <1>1, <1>3, <1>6, TwoDuties DEF w
  <1>7. CASE w = <<>>
    BY <1>7, NoDuty DEF w
  <1> QED
    BY <1>2, <1>4, <1>5, <1>6, <1>7

LEMMA DutiesCount ==
  ASSUME NEW r, NEW way \in Ways
  PROVE  LET todo == Duties(r, way)
         IN  /\ todo \in Seq(Duty) /\ OneEach(todo) /\ RowLast(todo)
             /\ Has(todo, "daily")
             /\ \A k \in Kinds : Due(todo, k) = Due(Warehouse(r, way), k)
  <1> DEFINE w == Warehouse(r, way)
             a == <<"card">>
             d == <<"daily">>
             p == <<"passport">>
             q == <<"row">>
  <1>1. /\ w \in Seq(Duty) /\ OneEach(w) /\ RowLast(w)
        /\ \A x : Has(w, x) => x \in Kinds
    BY WarehouseDuties
  <1>2. /\ a \in Duty /\ d \in Duty /\ p \in Duty /\ q \in Duty
        /\ a[1] = "card" /\ d[1] = "daily" /\ p[1] = "passport" /\ q[1] = "row"
    BY DEF Duty
  <1>3. Duties(r, way) = IF way = "sensor" THEN <<d>> \o w ELSE (<<a, d>> \o w) \o <<p, q>>
    BY DEF Duties
  <1> HIDE DEF w, a, d, p, q
  <1>4. \A k \in Kinds : k \notin {"card", "daily", "passport", "row"}
    BY DEF Kinds
  <1>5. \A k \in Kinds : Due(w, k) \in Int
    BY <1>1, DueIs
  <1>6. CASE way = "sensor"
    <2>1. /\ <<d>> \in Seq(Duty) /\ OneEach(<<d>>) /\ \A x : Has(<<d>>, x) <=> x = "daily"
      BY <1>2, OneDuty
    <2>2. \A i \in DOMAIN <<d>>, j \in DOMAIN w : <<d>>[i][1] # w[j][1]
      BY <1>1, <1>4, <2>1 DEF Has
    <2>3. ~Has(<<d>>, "passport")
      BY <2>1
    <2>4. \A k \in Kinds : Due(<<d>>, k) = 0
      BY <1>4, <2>1, DueIs
    <2>5. /\ <<d>> \o w \in Seq(Duty) /\ OneEach(<<d>> \o w) /\ RowLast(<<d>> \o w)
          /\ \A x : Has(<<d>> \o w, x) <=> Has(<<d>>, x) \/ Has(w, x)
          /\ \A k \in Kinds : Due(<<d>> \o w, k) = Due(<<d>>, k) + Due(w, k)
      BY <1>1, <2>1, <2>2, <2>3, Joined
    <2> QED
      BY <1>3, <1>5, <1>6, <2>1, <2>4, <2>5 DEF w
  <1>7. CASE way # "sensor"
    <2> DEFINE s == <<a, d>>
               t == <<p, q>>
               u == s \o w
    <2>1. /\ s \in Seq(Duty) /\ OneEach(s)
          /\ \A x : Has(s, x) <=> x = "card" \/ x = "daily"
      BY <1>2, TwoDuties
    <2>2. /\ t \in Seq(Duty) /\ OneEach(t) /\ RowLast(t)
          /\ \A x : Has(t, x) <=> x = "passport" \/ x = "row"
      BY <1>2, TwoDuties
    <2>3. \A k \in Kinds : Due(s, k) = 0 /\ Due(t, k) = 0
      BY <1>4, <2>1, <2>2, DueIs
    <2> HIDE DEF s, t
    <2>4. \A i \in DOMAIN s, j \in DOMAIN w : s[i][1] # w[j][1]
      BY <1>1, <1>4, <2>1 DEF Has
    <2>5. /\ u \in Seq(Duty) /\ OneEach(u)
          /\ \A x : Has(u, x) <=> Has(s, x) \/ Has(w, x)
          /\ \A k \in Kinds : Due(u, k) = Due(s, k) + Due(w, k)
      BY <1>1, <2>1, <2>4, Joined
    <2> HIDE DEF u
    <2>6. \A x : Has(u, x) => x \in {"card", "daily"} \cup Kinds
      BY <1>1, <2>1, <2>5
    <2>7. \A x \in {"card", "daily"} \cup Kinds : x # "passport" /\ x # "row"
      BY DEF Kinds
    <2>8. \A i \in DOMAIN u, j \in DOMAIN t : u[i][1] # t[j][1]
      <3>1. \A i \in DOMAIN u : Has(u, u[i][1])
        BY DEF Has
      <3>2. \A j \in DOMAIN t : t[j][1] \in {"passport", "row"}
        BY <2>2 DEF Has
      <3> QED
        BY <2>6, <2>7, <3>1, <3>2
    <2>9. ~Has(u, "passport")
      BY <2>6, <2>7
    <2>10. /\ u \o t \in Seq(Duty) /\ OneEach(u \o t) /\ RowLast(u \o t)
           /\ \A x : Has(u \o t, x) <=> Has(u, x) \/ Has(t, x)
           /\ \A k \in Kinds : Due(u \o t, k) = Due(u, k) + Due(t, k)
      BY <2>2, <2>5, <2>8, <2>9, Joined
    <2>11. Duties(r, way) = u \o t
      BY <1>3, <1>7 DEF u, s, t
    <2> QED
      BY <1>5, <2>1, <2>3, <2>5, <2>10, <2>11 DEF w
  <1> QED
    BY <1>6, <1>7

\* What a passage will move in the warehouse is what it owes.
LEMMA MovedIsDue ==
  ASSUME NEW s, NEW r, NEW way
  PROVE  Moved(s, Warehouse(r, way))
           = [k \in Kinds |-> s[k] + Due(Warehouse(r, way), k)]
  BY DEF Moved, Due

-----------------------------------------------------------------------------
(* One job changes.                                                        *)

\* One number of a sum is replaced.
LEMMA SumMoves ==
  ASSUME NEW x \in Int,
         NEW a1 \in Int, NEW a2 \in Int, NEW a3 \in Int, NEW a4 \in Int,
         NEW a5 \in Int, NEW a6 \in Int, NEW a7 \in Int, NEW a8 \in Int
  PROVE  /\ x + a2 + a3 + a4 + a5 + a6 + a7 + a8 = (a1 + a2 + a3 + a4 + a5 + a6 + a7 + a8) - a1 + x
         /\ a1 + x + a3 + a4 + a5 + a6 + a7 + a8 = (a1 + a2 + a3 + a4 + a5 + a6 + a7 + a8) - a2 + x
         /\ a1 + a2 + x + a4 + a5 + a6 + a7 + a8 = (a1 + a2 + a3 + a4 + a5 + a6 + a7 + a8) - a3 + x
         /\ a1 + a2 + a3 + x + a5 + a6 + a7 + a8 = (a1 + a2 + a3 + a4 + a5 + a6 + a7 + a8) - a4 + x
         /\ a1 + a2 + a3 + a4 + x + a6 + a7 + a8 = (a1 + a2 + a3 + a4 + a5 + a6 + a7 + a8) - a5 + x
         /\ a1 + a2 + a3 + a4 + a5 + x + a7 + a8 = (a1 + a2 + a3 + a4 + a5 + a6 + a7 + a8) - a6 + x
         /\ a1 + a2 + a3 + a4 + a5 + a6 + x + a8 = (a1 + a2 + a3 + a4 + a5 + a6 + a7 + a8) - a7 + x
         /\ a1 + a2 + a3 + a4 + a5 + a6 + a7 + x = (a1 + a2 + a3 + a4 + a5 + a6 + a7 + a8) - a8 + x
  OBVIOUS

LEMMA OwedMoves ==
  ASSUME JobsType, \A q \in Readers : OneEach(jobs[q].todo),
         NEW r \in Readers, NEW j, jobs' = [jobs EXCEPT ![r] = j],
         j.todo \in Seq(Duty), OneEach(j.todo), NEW k \in Kinds
  PROVE  /\ Owed(k) \in Int
         /\ Owed(k)' = Owed(k) - Due(jobs[r].todo, k) + Due(j.todo, k)
  <1>1. \A q \in Readers : jobs[q].todo \in Seq(Duty)
    BY DEF JobsType, Jobs
  <1>2. \A q \in Readers : Due(jobs[q].todo, k) \in Int
    BY <1>1, DueIs
  <1>3. Due(j.todo, k) \in Int
    BY DueIs
  <1>4. \A q : Owes(q, k) \in Int
    BY <1>2 DEF Owes
  <1>5. Owes(r, k) = Due(jobs[r].todo, k)
    BY DEF Owes
  <1> DEFINE new(q) == IF q \in Readers THEN Due(jobs'[q].todo, k) ELSE 0
  <1>6. \A q : new(q) = IF q = r THEN Due(j.todo, k) ELSE Owes(q, k)
    BY DEF JobsType, Owes
  <1>7. Owed(k)' = new(1) + new(2) + new(3) + new(4) + new(5) + new(6) + new(7) + new(8)
    BY DEF Owed, Owes
  <1>8. r \in 1 .. 8
    BY ReaderNumbers
  <1>9. r = 1 \/ r = 2 \/ r = 3 \/ r = 4 \/ r = 5 \/ r = 6 \/ r = 7 \/ r = 8
    BY <1>8
  <1> DEFINE old(q) == Owes(q, k)
             x == Due(j.todo, k)
  <1>10. PICK a1 \in Int, a2 \in Int, a3 \in Int, a4 \in Int,
              a5 \in Int, a6 \in Int, a7 \in Int, a8 \in Int, y \in Int :
           /\ a1 = old(1) /\ a2 = old(2) /\ a3 = old(3) /\ a4 = old(4)
           /\ a5 = old(5) /\ a6 = old(6) /\ a7 = old(7) /\ a8 = old(8) /\ y = x
    BY <1>3, <1>4
  <1>11. /\ new(1) = IF r = 1 THEN y ELSE a1
         /\ new(2) = IF r = 2 THEN y ELSE a2
         /\ new(3) = IF r = 3 THEN y ELSE a3
         /\ new(4) = IF r = 4 THEN y ELSE a4
         /\ new(5) = IF r = 5 THEN y ELSE a5
         /\ new(6) = IF r = 6 THEN y ELSE a6
         /\ new(7) = IF r = 7 THEN y ELSE a7
         /\ new(8) = IF r = 8 THEN y ELSE a8
    BY <1>6, <1>10
  <1>12. Owed(k) = a1 + a2 + a3 + a4 + a5 + a6 + a7 + a8
    BY <1>10 DEF Owed
  <1>13. Owed(k) \in Int
    BY <1>12
  <1> HIDE DEF new
  <1>14. Owed(k)' = Owed(k) - old(r) + y
    <2>1. CASE r = 1
      <3>1. Owed(k)' = y + a2 + a3 + a4 + a5 + a6 + a7 + a8
        <4>1. /\ new(1) = y /\ new(2) = a2 /\ new(3) = a3 /\ new(4) = a4
              /\ new(5) = a5 /\ new(6) = a6 /\ new(7) = a7 /\ new(8) = a8
          BY <1>11, <2>1
        <4> QED
          BY <1>7, <4>1
      <3>2. old(r) = a1
        BY <1>10, <2>1
      <3> QED
        BY <1>12, <3>1, <3>2, SumMoves
    <2>2. CASE r = 2
      <3>1. Owed(k)' = a1 + y + a3 + a4 + a5 + a6 + a7 + a8
        <4>1. /\ new(1) = a1 /\ new(2) = y /\ new(3) = a3 /\ new(4) = a4
              /\ new(5) = a5 /\ new(6) = a6 /\ new(7) = a7 /\ new(8) = a8
          BY <1>11, <2>2
        <4> QED
          BY <1>7, <4>1
      <3>2. old(r) = a2
        BY <1>10, <2>2
      <3> QED
        BY <1>12, <3>1, <3>2, SumMoves
    <2>3. CASE r = 3
      <3>1. Owed(k)' = a1 + a2 + y + a4 + a5 + a6 + a7 + a8
        <4>1. /\ new(1) = a1 /\ new(2) = a2 /\ new(3) = y /\ new(4) = a4
              /\ new(5) = a5 /\ new(6) = a6 /\ new(7) = a7 /\ new(8) = a8
          BY <1>11, <2>3
        <4> QED
          BY <1>7, <4>1
      <3>2. old(r) = a3
        BY <1>10, <2>3
      <3> QED
        BY <1>12, <3>1, <3>2, SumMoves
    <2>4. CASE r = 4
      <3>1. Owed(k)' = a1 + a2 + a3 + y + a5 + a6 + a7 + a8
        <4>1. /\ new(1) = a1 /\ new(2) = a2 /\ new(3) = a3 /\ new(4) = y
              /\ new(5) = a5 /\ new(6) = a6 /\ new(7) = a7 /\ new(8) = a8
          BY <1>11, <2>4
        <4> QED
          BY <1>7, <4>1
      <3>2. old(r) = a4
        BY <1>10, <2>4
      <3> QED
        BY <1>12, <3>1, <3>2, SumMoves
    <2>5. CASE r = 5
      <3>1. Owed(k)' = a1 + a2 + a3 + a4 + y + a6 + a7 + a8
        <4>1. /\ new(1) = a1 /\ new(2) = a2 /\ new(3) = a3 /\ new(4) = a4
              /\ new(5) = y /\ new(6) = a6 /\ new(7) = a7 /\ new(8) = a8
          BY <1>11, <2>5
        <4> QED
          BY <1>7, <4>1
      <3>2. old(r) = a5
        BY <1>10, <2>5
      <3> QED
        BY <1>12, <3>1, <3>2, SumMoves
    <2>6. CASE r = 6
      <3>1. Owed(k)' = a1 + a2 + a3 + a4 + a5 + y + a7 + a8
        <4>1. /\ new(1) = a1 /\ new(2) = a2 /\ new(3) = a3 /\ new(4) = a4
              /\ new(5) = a5 /\ new(6) = y /\ new(7) = a7 /\ new(8) = a8
          BY <1>11, <2>6
        <4> QED
          BY <1>7, <4>1
      <3>2. old(r) = a6
        BY <1>10, <2>6
      <3> QED
        BY <1>12, <3>1, <3>2, SumMoves
    <2>7. CASE r = 7
      <3>1. Owed(k)' = a1 + a2 + a3 + a4 + a5 + a6 + y + a8
        <4>1. /\ new(1) = a1 /\ new(2) = a2 /\ new(3) = a3 /\ new(4) = a4
              /\ new(5) = a5 /\ new(6) = a6 /\ new(7) = y /\ new(8) = a8
          BY <1>11, <2>7
        <4> QED
          BY <1>7, <4>1
      <3>2. old(r) = a7
        BY <1>10, <2>7
      <3> QED
        BY <1>12, <3>1, <3>2, SumMoves
    <2>8. CASE r = 8
      <3>1. Owed(k)' = a1 + a2 + a3 + a4 + a5 + a6 + a7 + y
        <4>1. /\ new(1) = a1 /\ new(2) = a2 /\ new(3) = a3 /\ new(4) = a4
              /\ new(5) = a5 /\ new(6) = a6 /\ new(7) = a7 /\ new(8) = y
          BY <1>11, <2>8
        <4> QED
          BY <1>7, <4>1
      <3>2. old(r) = a8
        BY <1>10, <2>8
      <3> QED
        BY <1>12, <3>1, <3>2, SumMoves
    <2> QED
      BY <1>9, <2>1, <2>2, <2>3, <2>4, <2>5, <2>6, <2>7, <2>8
  <1> QED
    BY <1>5, <1>13, <1>10, <1>14

\* The first duty of a reader is done.
LEMMA Proceeded ==
  ASSUME JobsType, \A q \in Readers : OneEach(jobs[q].todo) /\ RowLast(jobs[q].todo),
         NEW r \in Readers, jobs[r].todo # <<>>,
         \/ Proceeds(r)
         \/ \E row \in Card : jobs' = [jobs EXCEPT ![r] = [Remaining(r) EXCEPT !.row = row]]
  PROVE  LET d == Head(jobs[r].todo)
         IN  /\ d \in Duty /\ d = jobs[r].todo[1]
             /\ \A q \in Readers : OneEach(jobs'[q].todo) /\ RowLast(jobs'[q].todo)
             /\ \A k \in Kinds :
                  /\ Owed(k) \in Int
                  /\ Owed(k)' = IF d[1] = k THEN Owed(k) - d[2] ELSE Owed(k)
             /\ \A q \in Readers, w \in Ways :
                  Uncounted(q, w)' =
                    IF q = r /\ d[1] = "daily" THEN 0 ELSE Uncounted(q, w)
             /\ \A w \in Ways :
                  d[1] = "daily" => Uncounted(r, w) = IF w = Way(r) THEN 1 ELSE 0
  <1> DEFINE old == jobs[r].todo
             d == Head(old)
             rest == [jobs[r] EXCEPT !.todo = Tail(@)]
  <1>1. /\ jobs \in [Readers -> Jobs] /\ jobs[r] \in Jobs /\ old \in Seq(Duty)
        /\ OneEach(old) /\ RowLast(old) /\ old # <<>>
    BY DEF JobsType, Jobs
  <1>2. /\ d = old[1] /\ d \in Duty
        /\ Tail(old) \in Seq(Duty) /\ OneEach(Tail(old)) /\ RowLast(Tail(old))
        /\ Has(old, d[1]) /\ ~Has(Tail(old), d[1])
        /\ \A x : x # d[1] => (Has(Tail(old), x) <=> Has(old, x))
        /\ \A k \in Kinds : Due(Tail(old), k) = IF d[1] = k THEN 0 ELSE Due(old, k)
        /\ Len(old) = 1 => Tail(old) = <<>>
    BY <1>1, Finished
  <1>3. rest \in Jobs /\ rest.tag = jobs[r].tag /\ rest.todo = Tail(old)
    BY <1>1, <1>2 DEF Jobs
  <1>4. NoJob \in Jobs /\ NoJob.todo = <<>>
    BY CardTypes DEF NoJob, Jobs
  <1>5. Remaining(r) \in Jobs /\ Remaining(r).todo = Tail(old)
        /\ (Remaining(r).tag = jobs[r].tag \/ Tail(old) = <<>>)
    BY <1>2, <1>3, <1>4 DEF Remaining
  <1>6. PICK j : /\ jobs' = [jobs EXCEPT ![r] = j]
                 /\ j.todo = Tail(old) /\ (j.tag = jobs[r].tag \/ Tail(old) = <<>>)
    <2>1. CASE Proceeds(r)
      BY <1>5, <2>1 DEF Proceeds
    <2>2. CASE \E row \in Card : jobs' = [jobs EXCEPT ![r] = [Remaining(r) EXCEPT !.row = row]]
      <3>1. PICK row \in Card : jobs' = [jobs EXCEPT ![r] = [Remaining(r) EXCEPT !.row = row]]
        BY <2>2
      <3> DEFINE m == Remaining(r)
      <3>2. m \in Jobs
        BY <1>5
      <3> HIDE DEF m
      <3>3. [m EXCEPT !.row = row].todo = m.todo /\ [m EXCEPT !.row = row].tag = m.tag
        BY <3>2 DEF Jobs
      <3> QED
        BY <1>5, <3>1, <3>3 DEF m
    <2> QED
      BY <2>1, <2>2
  <1> HIDE DEF old, d, rest
  <1>7. \A q \in Readers : jobs'[q] = IF q = r THEN j ELSE jobs[q]
    BY <1>1, <1>6
  <1>8. \A q \in Readers : OneEach(jobs'[q].todo) /\ RowLast(jobs'[q].todo)
    BY <1>2, <1>6, <1>7
  <1>9. ASSUME NEW k \in Kinds
        PROVE  /\ Owed(k) \in Int
               /\ Owed(k)' = IF d[1] = k THEN Owed(k) - d[2] ELSE Owed(k)
    <2>1. /\ Owed(k) \in Int
          /\ Owed(k)' = Owed(k) - Due(jobs[r].todo, k) + Due(j.todo, k)
      <3>1. \A q \in Readers : OneEach(jobs[q].todo)
        OBVIOUS
      <3>2. j.todo \in Seq(Duty) /\ OneEach(j.todo)
        BY <1>2, <1>6
      <3> QED
        BY <1>6, <3>1, <3>2, OwedMoves
    <2>2. Due(old, k) \in Int
      BY <1>1, DueIs
    <2>3. 1 \in DOMAIN old
      BY <1>1
    <2>4. d[1] = k => Due(old, k) = d[2]
      BY <1>1, <1>2, <2>3, DueIs
    <2> QED
      BY <1>2, <1>6, <2>1, <2>2, <2>4 DEF old
  <1>10. ASSUME NEW q \in Readers, NEW w \in Ways
         PROVE  Uncounted(q, w)' = IF q = r /\ d[1] = "daily" THEN 0 ELSE Uncounted(q, w)
    <2>1. CASE q # r
      <3>1. jobs'[q] = jobs[q]
        BY <1>7, <2>1
      <3> QED
        BY <2>1, <3>1 DEF Uncounted, Way
    <2>2. CASE q = r
      <3>1. jobs'[q] = j /\ jobs'[q].todo = Tail(old) /\ jobs[q].todo = old
        BY <1>6, <1>7, <2>2 DEF old
      <3>2. CASE d[1] = "daily"
        BY <1>2, <2>2, <3>1, <3>2 DEF Uncounted
      <3>3. CASE d[1] # "daily"
        <4>1. Has(jobs'[q].todo, "daily") <=> Has(jobs[q].todo, "daily")
          BY <1>2, <3>1, <3>3
        <4>2. Has(jobs'[q].todo, "daily") => jobs'[q].tag = jobs[q].tag
          BY <1>6, <2>2, <3>1, NoDuty
        <4> QED
          BY <2>2, <3>3, <4>1, <4>2 DEF Uncounted, Way
      <3> QED
        BY <3>2, <3>3
    <2> QED
      BY <2>1, <2>2
  <1>11. ASSUME NEW w \in Ways, d[1] = "daily"
         PROVE  Uncounted(r, w) = IF w = Way(r) THEN 1 ELSE 0
    BY <1>2, <1>11 DEF Uncounted, old
  <1> QED
    BY <1>2, <1>8, <1>9, <1>10, <1>11 DEF d, old

\* A reader gives the passage up when nothing is left to count.
LEMMA GivenUp ==
  ASSUME JobsType, \A q \in Readers : OneEach(jobs[q].todo) /\ RowLast(jobs[q].todo),
         NEW r \in Readers, jobs' = [jobs EXCEPT ![r] = NoJob]
  PROVE  /\ \A q \in Readers : OneEach(jobs'[q].todo) /\ RowLast(jobs'[q].todo)
         /\ Turn(r, "passport") =>
              /\ \A k \in Kinds : Owed(k)' = Owed(k)
              /\ \A q \in Readers, w \in Ways : Uncounted(q, w)' = Uncounted(q, w)
  <1> DEFINE old == jobs[r].todo
  <1>1. \A q \in Readers : jobs'[q] = IF q = r THEN NoJob ELSE jobs[q]
    BY DEF JobsType
  <1>2. NoJob.todo = <<>>
    BY DEF NoJob
  <1>3. \A q \in Readers : OneEach(jobs'[q].todo) /\ RowLast(jobs'[q].todo)
    BY <1>1, <1>2, NoDuty
  <1>4. ASSUME Turn(r, "passport")
        PROVE  /\ \A k \in Kinds : Owed(k)' = Owed(k)
               /\ \A q \in Readers, w \in Ways : Uncounted(q, w)' = Uncounted(q, w)
    <2>1. old \in Seq(Duty) /\ old # <<>> /\ Head(old)[1] = "passport"
          /\ OneEach(old) /\ RowLast(old)
      BY <1>4 DEF Turn, JobsType, Jobs
    <2>2. old[1][1] = "passport" /\ 1 \in DOMAIN old /\ \A i \in DOMAIN old : i = 1 \/ 1 < i
      BY <2>1
    <2>3. \A i \in DOMAIN old : old[i][1] \in {"passport", "row"}
      BY <2>1, <2>2 DEF RowLast
    <2>4. ~Has(old, "daily") /\ \A k \in Kinds : ~Has(old, k)
      BY <2>3 DEF Has, Kinds
    <2> HIDE DEF old
    <2>5. ASSUME NEW k \in Kinds PROVE Owed(k)' = Owed(k)
      <3>1. Due(old, k) = 0 /\ Due(NoJob.todo, k) = 0
        BY <1>2, <2>1, <2>4, DueIs, NoDuty
      <3>2. NoJob.todo \in Seq(Duty) /\ OneEach(NoJob.todo)
        BY <1>2, NoDuty
      <3>3. \A q \in Readers : OneEach(jobs[q].todo)
        OBVIOUS
      <3>4. /\ Owed(k) \in Int
            /\ Owed(k)' = Owed(k) - Due(jobs[r].todo, k) + Due(NoJob.todo, k)
        BY <3>2, <3>3, OwedMoves
      <3> QED
        BY <3>1, <3>4 DEF old
    <2>6. ASSUME NEW q \in Readers, NEW w \in Ways PROVE Uncounted(q, w)' = Uncounted(q, w)
      <3>1. CASE q = r
        <4>1. ~Has(jobs'[q].todo, "daily") /\ ~Has(jobs[q].todo, "daily")
          BY <1>1, <1>2, <2>4, <3>1, NoDuty DEF old
        <4> QED
          BY <4>1 DEF Uncounted
      <3>2. CASE q # r
        <4>1. jobs'[q] = jobs[q]
          BY <1>1, <3>2
        <4> QED
          BY <4>1 DEF Uncounted, Way
      <3> QED
        BY <3>1, <3>2
    <2> QED
      BY <2>5, <2>6
  <1> QED
    BY <1>3, <1>4

-----------------------------------------------------------------------------
(* The steps, and what has been counted.                                   *)

LEMMA CountableBefore ==
  [PassageNext]_<<mishapVars, passageVars>> /\ Countable' => Countable
  <1>1. ASSUME NEW kind, Slip(kind), Countable' PROVE Countable
    BY <1>1 DEF Slip, Countable
  <1>2. Smooth /\ Countable' => Countable
    BY DEF Smooth, mishapVars, Countable
  <1>3. UNCHANGED <<mishapVars, passageVars>> /\ Countable' => Countable
    BY DEF mishapVars, Countable
  <1>4. ASSUME NEW r \in Readers, Serve(r), Countable' PROVE Countable
    BY <1>1, <1>2, <1>4
       DEF Serve, FindCard, CountPassage, CountStock, TakePassport,
           UpdateBalloonPassport, GetBalloonDataFails, WriteJournal, Break
  <1>5. ASSUME NEW r \in Readers, NEW t, Arrive(r, t), Countable' PROVE Countable
    BY <1>2, <1>5 DEF Arrive
  <1>6. ASSUME NEW t \in Tags, Register(t) \/ BeginEdit(t), Countable' PROVE Countable
    BY <1>2, <1>6 DEF Register, BeginEdit
  <1>7. ASSUME SaveEdit \/ DeleteOld \/ CreateNew, Countable' PROVE Countable
    BY <1>1, <1>2, <1>7 DEF SaveEdit, DeleteOld, CreateNew
  <1>8. ASSUME EnterValues \/ ClearStatistic, Countable' PROVE Countable
    BY <1>1, <1>2, <1>8 DEF EnterValues, ClearStatistic
  <1>9. ASSUME Midnight \/ ComputeStatistic \/ KeepStatistic \/ ExpireStatistic, Countable'
        PROVE  Countable
    BY <1>2, <1>9 DEF Midnight, ComputeStatistic, KeepStatistic, ExpireStatistic
  <1> QED
    BY <1>3, <1>4, <1>5, <1>6, <1>7, <1>8, <1>9 DEF PassageNext

\* The duties are as they should be, and nothing else about counting changes.
LEMMA CountsAlone ==
  ASSUME CountInv, UNCHANGED countVars, UNCHANGED statisticVars, doings' = doings,
         \A q \in Readers : OneEach(jobs'[q].todo) /\ RowLast(jobs'[q].todo),
         Countable' =>
           /\ Countable
           /\ \A k \in Kinds : Owed(k)' = Owed(k)
           /\ \A q \in Readers, w \in Ways : Uncounted(q, w)' = Uncounted(q, w)
  PROVE  CountInv'
  <1>1. UNCHANGED <<day, daily, totals, passed, stock, entered, statistic, reading, entry>>
    BY DEF countVars, statisticVars
  <1>2. CountTypes'
    BY <1>1 DEF CountInv, CountTypes
  <1>3. Countable' => StockCounted'
    BY <1>1 DEF CountInv, StockCounted
  <1>4. Countable' => DaysCounted'
    BY <1>1 DEF CountInv, DaysCounted
  <1>5. Countable' => StatisticsFresh'
    BY <1>1 DEF CountInv, StatisticsFresh
  <1> QED
    BY <1>2, <1>3, <1>4, <1>5 DEF CountInv

LEMMA CountPassageCounts ==
  ASSUME CountInv, JobsType, NEW r \in Readers, CountPassage(r), Countable' => Countable
  PROVE  CountInv'
  <1> DEFINE c == <<r, day, Way(r)>>
             d == Head(jobs[r].todo)
  <1>1. /\ daily' = [daily EXCEPT ![c] = @ + 1] /\ Proceeds(r)
        /\ jobs[r].todo # <<>> /\ d[1] = "daily"
        /\ UNCHANGED <<day, totals, passed, stock, entered, doings, statistic, reading, entry>>
    BY DEF CountPassage, Turn, statisticVars
  <1>2. CountTypes /\ Way(r) \in Ways
    BY DEF CountInv, Way, Ways
  <1>3. \A q \in Readers : OneEach(jobs[q].todo) /\ RowLast(jobs[q].todo)
    BY <1>2 DEF CountTypes
  <1>4. /\ \A q \in Readers : OneEach(jobs'[q].todo) /\ RowLast(jobs'[q].todo)
        /\ \A k \in Kinds : Owed(k)' = IF d[1] = k THEN Owed(k) - d[2] ELSE Owed(k)
        /\ \A q \in Readers, w \in Ways :
             Uncounted(q, w)' = IF q = r /\ d[1] = "daily" THEN 0 ELSE Uncounted(q, w)
        /\ \A w \in Ways : d[1] = "daily" => Uncounted(r, w) = IF w = Way(r) THEN 1 ELSE 0
    BY <1>1, <1>3, Proceeded
  <1> HIDE DEF d
  <1>5. c \in Readers \X Days \X Ways /\ daily[c] \in Nat
    BY <1>2 DEF CountTypes
  <1>6. daily' \in [Readers \X Days \X Ways -> Nat]
    BY <1>1, <1>2, <1>5 DEF CountTypes
  <1>7. CountTypes'
    BY <1>1, <1>2, <1>4, <1>6 DEF CountTypes
  <1>8. StockCounted => StockCounted'
    BY <1>1, <1>4 DEF StockCounted, Kinds
  <1>9. StatisticsFresh => StatisticsFresh'
    BY <1>1 DEF StatisticsFresh
  <1>10. ASSUME DaysCounted PROVE DaysCounted'
    <2> SUFFICES ASSUME NEW q \in Readers, NEW w \in Ways
                 PROVE  daily'[<<q, 1, w>>] + daily'[<<q, 2, w>>] + Uncounted(q, w)'
                          = passed'[<<q, w>>]
      BY DEF DaysCounted
    <2>1. /\ daily[<<q, 1, w>>] \in Nat /\ daily[<<q, 2, w>>] \in Nat
          /\ daily[<<q, 1, w>>] + daily[<<q, 2, w>>] + Uncounted(q, w) = passed[<<q, w>>]
      BY <1>2, <1>10 DEF CountTypes, DaysCounted, Days
    <2>2. \A e \in Days :
            daily'[<<q, e, w>>] = IF <<q, e, w>> = c THEN daily[c] + 1 ELSE daily[<<q, e, w>>]
      BY <1>1, <1>2 DEF CountTypes
    <2>3. CASE q = r /\ w = Way(r)
      <3>1. Uncounted(q, w) = 1 /\ Uncounted(q, w)' = 0
        BY <1>1, <1>4, <2>3
      <3>2. day = 1 \/ day = 2
        BY <1>2 DEF CountTypes, Days
      <3>3. CASE day = 1
        <4>1. daily'[<<q, 1, w>>] = daily[<<q, 1, w>>] + 1
              /\ daily'[<<q, 2, w>>] = daily[<<q, 2, w>>]
          BY <2>2, <2>3, <3>3 DEF Days
        <4> QED
          BY <1>1, <2>1, <3>1, <4>1
      <3>4. CASE day = 2
        <4>1. daily'[<<q, 2, w>>] = daily[<<q, 2, w>>] + 1
              /\ daily'[<<q, 1, w>>] = daily[<<q, 1, w>>]
          BY <2>2, <2>3, <3>4 DEF Days
        <4> QED
          BY <1>1, <2>1, <3>1, <4>1
      <3> QED
        BY <3>2, <3>3, <3>4
    <2>4. CASE ~(q = r /\ w = Way(r))
      <3>1. Uncounted(q, w)' = Uncounted(q, w)
        BY <1>1, <1>4, <2>4
      <3>2. daily'[<<q, 1, w>>] = daily[<<q, 1, w>>] /\ daily'[<<q, 2, w>>] = daily[<<q, 2, w>>]
        BY <2>2, <2>4 DEF Days
      <3> QED
        BY <1>1, <2>1, <3>1, <3>2
    <2> QED
      BY <2>3, <2>4
  <1> QED
    BY <1>7, <1>8, <1>9, <1>10 DEF CountInv

LEMMA CountStockCounts ==
  ASSUME CountInv, JobsType, NEW r \in Readers, CountStock(r), Countable' => Countable
  PROVE  CountInv'
  <1> DEFINE d == Head(jobs[r].todo)
  <1>1. PICK k \in Kinds :
          /\ Turn(r, k) /\ Proceeds(r)
          /\ \/ totals = NoTotals /\ totals' = totals
             \/ /\ totals # NoTotals /\ totals[k] + d[2] >= 0
                /\ totals' = [totals EXCEPT ![k] = @ + d[2]]
             \/ Slip("floor")
    BY DEF CountStock
  <1>2. /\ jobs[r].todo # <<>> /\ d[1] = k
        /\ UNCHANGED <<day, daily, passed, stock, entered, doings, statistic, reading, entry>>
    BY <1>1 DEF CountStock, Turn, statisticVars
  <1>3. CountTypes /\ \A q \in Readers : OneEach(jobs[q].todo) /\ RowLast(jobs[q].todo)
    BY DEF CountInv, CountTypes
  <1>4. /\ d \in Duty
        /\ \A q \in Readers : OneEach(jobs'[q].todo) /\ RowLast(jobs'[q].todo)
        /\ \A e \in Kinds :
             /\ Owed(e) \in Int
             /\ Owed(e)' = IF d[1] = e THEN Owed(e) - d[2] ELSE Owed(e)
        /\ \A q \in Readers, w \in Ways :
             Uncounted(q, w)' = IF q = r /\ d[1] = "daily" THEN 0 ELSE Uncounted(q, w)
    BY <1>1, <1>2, <1>3, Proceeded
  <1>5. d[2] \in Int /\ d[1] # "daily"
    BY <1>2, <1>4, DutyHeads DEF Kinds
  <1> HIDE DEF d
  <1>6. CountTypes'
    BY <1>2, <1>3, <1>4 DEF CountTypes
  <1>7. DaysCounted => DaysCounted'
    BY <1>2, <1>4, <1>5 DEF DaysCounted
  <1>8. StatisticsFresh => StatisticsFresh'
    BY <1>2 DEF StatisticsFresh
  <1>9. ASSUME Countable', StockCounted PROVE StockCounted'
    <2>1. ~Slip("floor")
      BY <1>9 DEF Slip, Countable
    <2>2. totals \in [Kinds -> Nat] /\ totals # NoTotals
      BY <1>9 DEF StockCounted, NoTotals, Kinds
    <2>3. totals[k] + d[2] >= 0 /\ totals' = [totals EXCEPT ![k] = @ + d[2]]
      BY <1>1, <2>1, <2>2
    <2>4. totals[k] + d[2] \in Nat
      BY <1>5, <2>2, <2>3
    <2>5. totals' \in [Kinds -> Nat]
          /\ \A e \in Kinds : totals'[e] = IF e = k THEN totals[k] + d[2] ELSE totals[e]
      BY <2>2, <2>3, <2>4
    <2>6. ASSUME NEW e \in Kinds PROVE totals'[e] + Owed(e)' = stock'[e]
      <3>1. totals[e] + Owed(e) = stock[e] /\ totals[e] \in Nat /\ Owed(e) \in Int
        BY <1>4, <1>9, <2>2 DEF StockCounted
      <3>2. CASE e = k
        <4>1. Owed(e)' = Owed(e) - d[2] /\ totals'[e] = totals[e] + d[2]
          BY <1>2, <1>4, <2>5, <3>2
        <4> QED
          BY <1>2, <1>5, <3>1, <4>1
      <3>3. CASE e # k
        BY <1>2, <1>4, <2>5, <3>1, <3>3
      <3> QED
        BY <3>2, <3>3
    <2> QED
      BY <2>5, <2>6 DEF StockCounted
  <1> QED
    BY <1>6, <1>7, <1>8, <1>9 DEF CountInv

LEMMA ServeCounts ==
  ASSUME CountInv, EditInv, NEW r \in Readers, Serve(r), Countable' => Countable
  PROVE  CountInv'
  <1>1. JobsType /\ jobs[r] \in Jobs /\ cards \in [Tags -> Card]
    BY DEF EditInv, CardTypeOK, JobsType
  <1>2. \A q \in Readers : OneEach(jobs[q].todo) /\ RowLast(jobs[q].todo)
    BY DEF CountInv, CountTypes
  <1> DEFINE d == Head(jobs[r].todo)
             next == \/ Proceeds(r)
                     \/ \E row \in Card :
                          jobs' = [jobs EXCEPT ![r] = [Remaining(r) EXCEPT !.row = row]]
  <1>3. ASSUME jobs[r].todo # <<>>, next
        PROVE  /\ \A q \in Readers : OneEach(jobs'[q].todo) /\ RowLast(jobs'[q].todo)
               /\ \A k \in Kinds : Owed(k)' = IF d[1] = k THEN Owed(k) - d[2] ELSE Owed(k)
               /\ \A q \in Readers, w \in Ways :
                    Uncounted(q, w)' = IF q = r /\ d[1] = "daily" THEN 0 ELSE Uncounted(q, w)
    BY <1>1, <1>2, <1>3, Proceeded
  <1>4. ASSUME jobs[r].todo # <<>>, next, d[1] \notin Kinds, d[1] # "daily",
               UNCHANGED countVars, UNCHANGED statisticVars, doings' = doings
        PROVE  CountInv'
    <2>1. \A k \in Kinds : Owed(k)' = Owed(k)
      BY <1>3, <1>4
    <2>2. \A q \in Readers, w \in Ways : Uncounted(q, w)' = Uncounted(q, w)
      BY <1>3, <1>4
    <2>3. \A q \in Readers : OneEach(jobs'[q].todo) /\ RowLast(jobs'[q].todo)
      BY <1>3, <1>4
    <2> QED
      BY <1>4, <2>1, <2>2, <2>3, CountsAlone
  <1>5. CASE FindCard(r)
    <2>1. /\ jobs[r].todo # <<>> /\ d[1] = "card"
          /\ UNCHANGED countVars /\ UNCHANGED statisticVars /\ doings' = doings
      BY <1>5 DEF FindCard, Turn
    <2>2. jobs[r].tag \in Tags
      <3>1. NoCardDuty(jobs[r])
        BY DEF EditInv, CardTypeOK, JobsType
      <3>2. jobs[r].todo \in Seq(Duty) /\ 1 \in 1 .. Len(jobs[r].todo)
            /\ jobs[r].todo[1] = d /\ jobs[r].todo[1] \in Duty
        BY <1>1, <2>1 DEF Jobs
      <3>3. jobs[r].todo[1] = <<"card">>
        BY <2>1, <3>2 DEF Duty
      <3> QED
        BY <1>1, <3>1, <3>2, <3>3 DEF NoCardDuty, Jobs
    <2>3. next
      <3> DEFINE row == IF cards[jobs[r].tag] = NoCard THEN NewCard(0) ELSE cards[jobs[r].tag]
      <3>1. jobs' = [jobs EXCEPT ![r] = [Remaining(r) EXCEPT !.row = row]]
        BY <1>5 DEF FindCard
      <3>2. row \in Card
        BY <1>1, <2>2, CardTypes
      <3> QED
        BY <3>1, <3>2
    <2>4. d[1] \notin Kinds /\ d[1] # "daily"
      BY <2>1 DEF Kinds
    <2> QED
      BY <1>4, <2>1, <2>3, <2>4
  <1>6. CASE CountPassage(r)
    BY <1>1, <1>6, CountPassageCounts
  <1>7. CASE CountStock(r)
    BY <1>1, <1>7, CountStockCounts
  <1>8. CASE TakePassport(r)
    <2>1. /\ Turn(r, "passport") /\ jobs[r].todo # <<>> /\ d[1] = "passport"
          /\ UNCHANGED countVars /\ UNCHANGED statisticVars /\ doings' = doings
      BY <1>8 DEF TakePassport, Turn
    <2>2. d[1] \notin Kinds /\ d[1] # "daily"
      BY <2>1 DEF Kinds
    <2>3. CASE Proceeds(r)
      BY <1>4, <2>1, <2>2, <2>3
    <2>4. CASE GetBalloonDataFails(r)
      <3>1. jobs' = [jobs EXCEPT ![r] = NoJob]
        BY <2>4 DEF GetBalloonDataFails
      <3> QED
        BY <1>1, <1>2, <2>1, <3>1, GivenUp, CountsAlone
    <2> QED
      BY <1>8, <2>3, <2>4 DEF TakePassport, UpdateBalloonPassport
  <1>9. CASE WriteJournal(r)
    <2>1. /\ jobs[r].todo # <<>> /\ d[1] = "row" /\ Proceeds(r)
          /\ UNCHANGED <<day, daily, totals, passed, stock, entered, doings>>
          /\ UNCHANGED statisticVars
      BY <1>9 DEF WriteJournal, Turn
    <2>2. d[1] \notin Kinds /\ d[1] # "daily"
      BY <2>1 DEF Kinds
    <2>3. /\ \A q \in Readers : OneEach(jobs'[q].todo) /\ RowLast(jobs'[q].todo)
          /\ \A k \in Kinds : Owed(k)' = Owed(k)
          /\ \A q \in Readers, w \in Ways : Uncounted(q, w)' = Uncounted(q, w)
      BY <1>3, <2>1, <2>2
    <2>4. CountTypes'
      BY <2>1, <2>3 DEF CountInv, CountTypes, statisticVars
    <2>5. Countable' => StockCounted' /\ DaysCounted'
      BY <2>1, <2>3 DEF CountInv, StockCounted, DaysCounted
    <2>6. Countable' => StatisticsFresh'
      BY <2>1 DEF CountInv, StatisticsFresh, statisticVars
    <2> QED
      BY <2>4, <2>5, <2>6 DEF CountInv
  <1>10. CASE Break(r)
    <2>1. /\ jobs' = [jobs EXCEPT ![r] = NoJob] /\ Slip("broken")
          /\ UNCHANGED countVars /\ UNCHANGED statisticVars /\ doings' = doings
      BY <1>10 DEF Break
    <2>2. ~Countable'
      BY <2>1 DEF Slip, Countable
    <2> QED
      BY <1>1, <1>2, <2>1, <2>2, GivenUp, CountsAlone
  <1> QED
    BY <1>5, <1>6, <1>7, <1>8, <1>9, <1>10 DEF Serve

LEMMA ArriveCounts ==
  ASSUME CountInv, EditInv, NEW r \in Readers, NEW t \in Tags \cup {NoTag}, Arrive(r, t),
         Countable' => Countable
  PROVE  CountInv'
  <1> DEFINE way == IF t = NoTag THEN "sensor" ELSE "tag"
             todo == Duties(r, way)
             w0 == Warehouse(r, way)
             j == [NoJob EXCEPT !.tag = t, !.todo = todo]
             c == <<r, way>>
  <1>1. /\ jobs[r] = NoJob /\ jobs' = [jobs EXCEPT ![r] = j] /\ doings' = doings + 1
        /\ \A k \in Kinds : Moved(stock, w0)[k] >= 0
        /\ stock' = Moved(stock, w0) /\ passed' = [passed EXCEPT ![c] = @ + 1]
        /\ UNCHANGED <<day, daily, totals, entered, statistic, reading, entry>>
    BY DEF Arrive, Do, statisticVars
  <1>2. way \in Ways /\ (way = IF t = NoTag THEN "sensor" ELSE "tag")
    BY DEF Ways
  <1>3. /\ todo \in Seq(Duty) /\ OneEach(todo) /\ RowLast(todo) /\ Has(todo, "daily")
        /\ \A k \in Kinds : Due(todo, k) = Due(w0, k)
    BY <1>2, DutiesCount
  <1>4. Moved(stock, w0) = [k \in Kinds |-> stock[k] + Due(w0, k)]
    BY MovedIsDue
  <1>5. j.tag = t /\ j.todo = todo
    BY DEF NoJob
  <1> HIDE DEF way, todo, w0, j
  <1>6. CountTypes /\ JobsType /\ doings \in Nat
    BY DEF CountInv, EditInv, CardTypeOK
  <1>7. \A q \in Readers : OneEach(jobs[q].todo)
    BY <1>6 DEF CountTypes
  <1>8. \A q \in Readers : jobs'[q] = IF q = r THEN j ELSE jobs[q]
    BY <1>1, <1>6 DEF JobsType
  <1>9. ASSUME NEW k \in Kinds
        PROVE  Owed(k) \in Int /\ Owed(k)' = Owed(k) + Due(w0, k) /\ Due(w0, k) \in Int
    <2>1. /\ Owed(k) \in Int
          /\ Owed(k)' = Owed(k) - Due(jobs[r].todo, k) + Due(j.todo, k)
      BY <1>1, <1>3, <1>5, <1>6, <1>7, OwedMoves
    <2>2. Due(jobs[r].todo, k) = 0
      BY <1>1, NoDuty DEF NoJob
    <2>3. Due(j.todo, k) = Due(w0, k) /\ Due(w0, k) \in Int
      BY <1>3, <1>5, DueIs
    <2> QED
      BY <2>1, <2>2, <2>3
  <1>10. \A k \in Kinds : stock[k] \in Nat /\ stock'[k] = stock[k] + Due(w0, k)
                          /\ stock'[k] \in Nat
    <2>1. ASSUME NEW k \in Kinds
          PROVE  stock[k] \in Nat /\ stock'[k] = stock[k] + Due(w0, k) /\ stock'[k] \in Nat
      <3>1. stock[k] \in Nat
        BY <1>6 DEF CountTypes
      <3>2. stock'[k] = stock[k] + Due(w0, k) /\ stock'[k] >= 0
        BY <1>1, <1>4
      <3> QED
        BY <1>9, <3>1, <3>2
    <2> QED
      BY <2>1
  <1>11. stock' \in [Kinds -> Nat]
    BY <1>1, <1>4, <1>10
  <1>12. c \in Readers \X Ways /\ passed[c] \in Nat
    BY <1>2, <1>6 DEF CountTypes
  <1>13. /\ passed' \in [Readers \X Ways -> Nat]
         /\ \A q \in Readers, w \in Ways :
              passed'[<<q, w>>] = IF q = r /\ w = way THEN passed[<<q, w>>] + 1
                                  ELSE passed[<<q, w>>]
    BY <1>1, <1>6, <1>12 DEF CountTypes
  <1>14. CountTypes'
    BY <1>1, <1>3, <1>5, <1>6, <1>8, <1>11, <1>13 DEF CountTypes
  <1>15. ASSUME StockCounted PROVE StockCounted'
    <2>1. ASSUME NEW k \in Kinds PROVE totals'[k] + Owed(k)' = stock'[k]
      <3>1. totals[k] + Owed(k) = stock[k] /\ totals[k] \in Nat
        BY <1>15 DEF StockCounted
      <3> QED
        BY <1>1, <1>9, <1>10, <3>1
    <2> QED
      BY <1>1, <1>15, <2>1 DEF StockCounted
  <1>16. ASSUME DaysCounted PROVE DaysCounted'
    <2> SUFFICES ASSUME NEW q \in Readers, NEW w \in Ways
                 PROVE  daily'[<<q, 1, w>>] + daily'[<<q, 2, w>>] + Uncounted(q, w)'
                          = passed'[<<q, w>>]
      BY DEF DaysCounted
    <2>1. /\ daily[<<q, 1, w>>] \in Nat /\ daily[<<q, 2, w>>] \in Nat
          /\ daily[<<q, 1, w>>] + daily[<<q, 2, w>>] + Uncounted(q, w) = passed[<<q, w>>]
          /\ Uncounted(q, w) \in {0, 1}
      BY <1>6, <1>16 DEF CountTypes, DaysCounted, Days, Uncounted
    <2>2. CASE q # r
      <3>1. Uncounted(q, w)' = Uncounted(q, w)
        BY <1>8, <2>2 DEF Uncounted, Way
      <3> QED
        BY <1>1, <1>13, <2>1, <2>2, <3>1
    <2>3. CASE q = r
      <3>1. Uncounted(q, w) = 0
        BY <1>1, <2>3, NoDuty DEF Uncounted, NoJob
      <3>2. jobs'[q].tag = t /\ jobs'[q].todo = todo
        BY <1>5, <1>8, <2>3
      <3>3. Way(q)' = way
        BY <1>2, <3>2 DEF Way
      <3>4. Uncounted(q, w)' = IF w = way THEN 1 ELSE 0
        BY <1>3, <3>2, <3>3 DEF Uncounted
      <3> QED
        BY <1>1, <1>13, <2>1, <2>3, <3>1, <3>4
    <2> QED
      BY <2>2, <2>3
  <1>17. StatisticsFresh => StatisticsFresh'
    BY <1>1 DEF StatisticsFresh
  <1> QED
    BY <1>14, <1>15, <1>16, <1>17 DEF CountInv

\* While nothing is served, nothing is owed.
LEMMA Idle ==
  ASSUME \A r \in Readers : jobs[r] = NoJob
  PROVE  /\ \A k \in Kinds : Owed(k) = 0
         /\ \A r \in Readers, w \in Ways : Uncounted(r, w) = 0
  <1>1. \A r \in Readers : jobs[r].todo = <<>>
    BY DEF NoJob
  <1>2. \A k \in Kinds : \A r : Owes(r, k) = 0
    BY <1>1, NoDuty DEF Owes
  <1>3. \A k \in Kinds : Owed(k) = 0
    BY <1>2 DEF Owed
  <1>4. \A r \in Readers, w \in Ways : Uncounted(r, w) = 0
    BY <1>1, NoDuty DEF Uncounted
  <1> QED
    BY <1>3, <1>4

LEMMA EnterValuesCounts ==
  ASSUME CountInv, EditInv, EnterValues, Countable' => Countable
  PROVE  CountInv'
  <1>1. PICK given \in SUBSET Kinds :
          /\ InsertManualValues(given)
          /\ stock' = [k \in Kinds |-> IF k \in given THEN 0 ELSE stock[k]]
    BY DEF EnterValues
  <1>2. /\ doings' = doings + 1 /\ entered' = doings' /\ entry' = TRUE
        /\ UNCHANGED <<day, jobs, daily, passed, statistic, reading>>
    BY DEF EnterValues, Do
  <1>3. CountTypes /\ doings \in Nat
    BY DEF CountInv, EditInv, CardTypeOK
  <1>4. stock' \in [Kinds -> Nat]
    BY <1>1, <1>3 DEF CountTypes
  <1>5. CountTypes'
    BY <1>2, <1>3, <1>4 DEF CountTypes
  <1>6. ASSUME Countable', StockCounted PROVE StockCounted'
    <2>1. \A r \in Readers : jobs[r] = NoJob
      BY <1>6 DEF EnterValues, Slip, Countable
    <2>2. \A k \in Kinds : Owed(k) = 0
      BY <2>1, Idle
    <2>3. \A r \in Readers : jobs'[r] = NoJob
      BY <1>2, <2>1
    <2>4. \A k \in Kinds : Owed(k)' = 0
      <3>1. \A k \in Kinds : Owed(k)' = Owed(k)
        BY <1>2 DEF Owed, Owes
      <3> QED
        BY <2>2, <3>1
    <2>5. totals \in [Kinds -> Nat] /\ totals # NoTotals
      BY <1>6 DEF StockCounted, NoTotals, Kinds
    <2>6. totals' = [k \in Kinds |-> IF k \in given THEN 0 ELSE totals[k]]
      BY <1>1, <2>5 DEF InsertManualValues
    <2>7. \A k \in Kinds : totals[k] = stock[k]
      BY <1>6, <2>2, <2>5 DEF StockCounted
    <2>8. totals' \in [Kinds -> Nat] /\ \A k \in Kinds : totals'[k] = stock'[k]
      BY <1>1, <2>5, <2>6, <2>7
    <2> QED
      BY <2>4, <2>8 DEF StockCounted
  <1>7. ASSUME DaysCounted PROVE DaysCounted'
    <2>1. \A r \in Readers, w \in Ways : Uncounted(r, w)' = Uncounted(r, w)
      BY <1>2 DEF Uncounted, Way
    <2> QED
      BY <1>2, <1>7, <2>1 DEF DaysCounted
  <1>8. StatisticsFresh'
    BY <1>2 DEF StatisticsFresh
  <1> QED
    BY <1>5, <1>6, <1>7, <1>8 DEF CountInv

LEMMA StatisticCounts ==
  ASSUME CountInv, ClearStatistic \/ ComputeStatistic \/ KeepStatistic \/ ExpireStatistic,
         doings \in Nat, Countable' => Countable
  PROVE  CountInv'
  <1>1. /\ UNCHANGED <<day, daily, totals, passed, stock, entered, jobs>>
        /\ doings' \in Nat /\ doings' >= doings
    BY DEF ClearStatistic, ComputeStatistic, KeepStatistic, ExpireStatistic, Do, countVars
  <1>2. NoStatistic.entered = -1
    BY DEF NoStatistic
  <1>3. CountTypes
    BY DEF CountInv
  <1>4. entered \in 0 .. doings'
    BY <1>1, <1>3 DEF CountTypes
  <1>5. Countable' => StockCounted' /\ DaysCounted'
    <2>1. \A k \in Kinds : Owed(k)' = Owed(k)
      BY <1>1 DEF Owed, Owes
    <2>2. \A r \in Readers, w \in Ways : Uncounted(r, w)' = Uncounted(r, w)
      BY <1>1 DEF Uncounted, Way
    <2> QED
      BY <1>1, <2>1, <2>2 DEF CountInv, StockCounted, DaysCounted
  <1>6. CASE ClearStatistic
    <2>1. /\ statistic' = NoStatistic /\ reading' = reading
          /\ (reading # NoStatistic /\ reading.entered < entered => Slip("slowread"))
      BY <1>6 DEF ClearStatistic
    <2>2. CountTypes'
      BY <1>1, <1>2, <1>3, <1>4, <2>1 DEF CountTypes
    <2>3. Countable' => StatisticsFresh'
      <3>1. Countable' => ~Slip("slowread")
        BY DEF Slip, Countable
      <3>2. reading.entered \in Int /\ reading.entered <= entered /\ entered \in Int
        BY <1>3 DEF CountTypes
      <3> QED
        BY <1>1, <2>1, <3>1, <3>2 DEF StatisticsFresh
    <2> QED
      BY <1>5, <2>2, <2>3 DEF CountInv
  <1>7. CASE ComputeStatistic
    <2>1. /\ statistic = NoStatistic /\ statistic' = statistic /\ entry' = entry
          /\ reading'.entered = entered
      BY <1>7 DEF ComputeStatistic
    <2>2. CountTypes'
      BY <1>1, <1>3, <1>4, <2>1 DEF CountTypes
    <2>3. StatisticsFresh'
      BY <1>1, <2>1 DEF StatisticsFresh
    <2> QED
      BY <1>5, <2>2, <2>3 DEF CountInv
  <1>8. CASE KeepStatistic
    <2>1. /\ statistic' = reading /\ reading' = NoStatistic /\ entry' = entry
          /\ reading # NoStatistic
      BY <1>8 DEF KeepStatistic
    <2>2. CountTypes'
      BY <1>1, <1>2, <1>3, <1>4, <2>1 DEF CountTypes
    <2>3. StatisticsFresh => StatisticsFresh'
      BY <1>1, <2>1 DEF StatisticsFresh
    <2> QED
      BY <1>5, <2>2, <2>3 DEF CountInv
  <1>9. CASE ExpireStatistic
    <2>1. statistic' = NoStatistic /\ reading' = reading /\ entry' = entry
      BY <1>9 DEF ExpireStatistic
    <2>2. CountTypes'
      BY <1>1, <1>2, <1>3, <1>4, <2>1 DEF CountTypes
    <2>3. StatisticsFresh => StatisticsFresh'
      BY <1>1, <2>1 DEF StatisticsFresh
    <2> QED
      BY <1>5, <2>2, <2>3 DEF CountInv
  <1> QED
    BY <1>6, <1>7, <1>8, <1>9

\* Cards, midnight, and steps that change nothing.
LEMMA OthersCount ==
  ASSUME CountInv, doings \in Nat, doings' \in Nat, doings' >= doings,
         UNCHANGED <<jobs, daily, totals, passed, stock, entered, statistic, reading, entry>>,
         day' = day \/ day' = 2, Countable' => Countable
  PROVE  CountInv'
  <1>1. CountTypes'
    BY DEF CountInv, CountTypes, Days
  <1>2. \A k \in Kinds : Owed(k)' = Owed(k)
    BY DEF Owed, Owes
  <1>3. \A r \in Readers, w \in Ways : Uncounted(r, w)' = Uncounted(r, w)
    BY DEF Uncounted, Way
  <1>4. Countable' => StockCounted' /\ DaysCounted' /\ StatisticsFresh'
    BY <1>2, <1>3 DEF CountInv, StockCounted, DaysCounted, StatisticsFresh
  <1> QED
    BY <1>1, <1>4 DEF CountInv

LEMMA CountStart == PassageInit => CountInv
  <1> SUFFICES ASSUME PassageInit PROVE CountInv
    OBVIOUS
  <1>1. /\ day = 1 /\ jobs = [r \in Readers |-> NoJob] /\ entered = 0 /\ doings = 0
        /\ daily = [c \in Readers \X Days \X Ways |-> 0]
        /\ passed = [c \in Readers \X Ways |-> 0]
        /\ stock = [k \in Kinds |-> IF k = "full" THEN 1 ELSE 0]
        /\ totals = stock \/ mishaps = {"norow"}
        /\ statistic = NoStatistic /\ reading = NoStatistic
    BY DEF PassageInit
  <1>2. NoStatistic.entered = -1 /\ \A r \in Readers : jobs[r].todo = <<>>
    BY <1>1 DEF NoStatistic, NoJob
  <1>3. \A r \in Readers : jobs[r] = NoJob
    BY <1>1
  <1>4. stock \in [Kinds -> Nat]
    BY <1>1
  <1>5. CountTypes
    BY <1>1, <1>2, <1>4, NoDuty DEF CountTypes, Days
  <1>6. Countable => StockCounted
    <2>1. Countable => totals = stock
      BY <1>1 DEF Countable
    <2>2. \A k \in Kinds : Owed(k) = 0
      BY <1>3, Idle
    <2> QED
      BY <1>4, <2>1, <2>2 DEF StockCounted
  <1>7. DaysCounted
    <2>1. \A r \in Readers, w \in Ways : Uncounted(r, w) = 0
      BY <1>3, Idle
    <2> QED
      BY <1>1, <2>1 DEF DaysCounted, Days
  <1>8. StatisticsFresh
    BY <1>1 DEF StatisticsFresh
  <1> QED
    BY <1>5, <1>6, <1>7, <1>8 DEF CountInv

\* The days of a reader add up to what has passed it and the warehouse has
\* what is on the station, as soon as no passage is being served, whatever
\* Miriada answers and in whatever order the passages of eight readers end;
\* and no statistics from before the values entered by hand are shown.
THEOREM CountsAddUpHolds == PassageSpec => []CountsAddUp
  <1>1. EditInv /\ CountInv /\ [PassageNext]_<<mishapVars, passageVars>> => CountInv'
    <2> SUFFICES ASSUME EditInv, CountInv, [PassageNext]_<<mishapVars, passageVars>>
                 PROVE  CountInv'
      OBVIOUS
    <2>1. Countable' => Countable
      BY CountableBefore
    <2>2. doings \in Nat
      BY DEF EditInv, CardTypeOK
    <2>3. ASSUME NEW r \in Readers, Serve(r) PROVE CountInv'
      BY <2>1, <2>3, ServeCounts
    <2>4. ASSUME NEW r \in Readers, NEW t \in Tags \cup {NoTag}, Arrive(r, t)
          PROVE  CountInv'
      BY <2>1, <2>4, ArriveCounts
    <2>5. CASE EnterValues
      BY <2>1, <2>5, EnterValuesCounts
    <2>6. CASE ClearStatistic \/ ComputeStatistic \/ KeepStatistic \/ ExpireStatistic
      BY <2>1, <2>2, <2>6, StatisticCounts
    <2>7. ASSUME NEW t \in Tags, Register(t) \/ BeginEdit(t) PROVE CountInv'
      <3>1. /\ doings' = doings + 1 /\ UNCHANGED jobs
            /\ UNCHANGED countVars /\ UNCHANGED statisticVars
        BY <2>7 DEF Register, BeginEdit, Do
      <3>2. /\ UNCHANGED <<jobs, daily, totals, passed, stock, entered, statistic, reading, entry>>
            /\ day' = day /\ doings' \in Nat /\ doings' >= doings
        BY <2>2, <3>1 DEF countVars, statisticVars
      <3> QED
        BY <2>1, <2>2, <3>2, OthersCount
    <2>8. CASE SaveEdit \/ DeleteOld \/ CreateNew
      <3>1. /\ doings' = doings /\ UNCHANGED jobs
            /\ UNCHANGED countVars /\ UNCHANGED statisticVars
        BY <2>8 DEF SaveEdit, DeleteOld, CreateNew
      <3>2. /\ UNCHANGED <<jobs, daily, totals, passed, stock, entered, statistic, reading, entry>>
            /\ day' = day /\ doings' \in Nat /\ doings' >= doings
        BY <2>2, <3>1 DEF countVars, statisticVars
      <3> QED
        BY <2>1, <2>2, <3>2, OthersCount
    <2>9. CASE Midnight \/ UNCHANGED <<mishapVars, passageVars>>
      <3>1. /\ UNCHANGED <<jobs, daily, totals, passed, stock, entered, statistic, reading, entry>>
            /\ (day' = day \/ day' = 2) /\ doings' = doings
        BY <2>9 DEF Midnight, passageVars, statisticVars
      <3> QED
        BY <2>1, <2>2, <3>1, OthersCount
    <2> QED
      BY <2>3, <2>4, <2>5, <2>6, <2>7, <2>8, <2>9 DEF PassageNext
  <1>2. CountInv => CountsAddUp
    <2> SUFFICES ASSUME CountInv, Countable
                 PROVE  /\ jobs = [r \in Readers |-> NoJob]
                           => /\ totals = stock
                              /\ \A c \in Readers \X Ways :
                                   daily[<<c[1], 1, c[2]>>] + daily[<<c[1], 2, c[2]>>]
                                     = passed[c]
                        /\ ~entry /\ statistic # NoStatistic => statistic.entered = entered
      BY DEF CountsAddUp, Countable
    <2>1. StockCounted /\ DaysCounted /\ StatisticsFresh /\ CountTypes
      BY DEF CountInv
    <2>2. ASSUME jobs = [r \in Readers |-> NoJob]
          PROVE  /\ totals = stock
                 /\ \A c \in Readers \X Ways :
                      daily[<<c[1], 1, c[2]>>] + daily[<<c[1], 2, c[2]>>] = passed[c]
      <3>1. /\ \A k \in Kinds : Owed(k) = 0
            /\ \A r \in Readers, w \in Ways : Uncounted(r, w) = 0
        BY <2>2, Idle
      <3>2. totals \in [Kinds -> Nat] /\ stock \in [Kinds -> Nat]
        BY <2>1 DEF StockCounted, CountTypes
      <3>3. \A k \in Kinds : totals[k] = stock[k]
        BY <2>1, <3>1, <3>2 DEF StockCounted
      <3>4. ASSUME NEW r \in Readers, NEW w \in Ways
            PROVE  daily[<<r, 1, w>>] + daily[<<r, 2, w>>] = passed[<<r, w>>]
        <4>1. daily[<<r, 1, w>>] \in Nat /\ daily[<<r, 2, w>>] \in Nat
          BY <2>1 DEF CountTypes, Days
        <4> QED
          BY <2>1, <3>1, <4>1 DEF DaysCounted
      <3> QED
        BY <3>2, <3>3, <3>4
    <2> QED
      BY <2>1, <2>2 DEF StatisticsFresh
  <1> QED
    BY <1>1, <1>2, CountStart, EditInvHolds, PTL DEF PassageSpec

-----------------------------------------------------------------------------
(***************************************************************************)
(* The settings of the carousels.                                          *)
(*                                                                         *)
(* Types.  A thread that is about to do something for a carousel has one.  *)
(***************************************************************************)

Pcs == {"idle", "publish", "bump", "rev", "check", "all", "replace", "find",
        "fallback", "rows", "load"}

ThreadJobs == [pc : Pcs, n : Carousels \cup {Gone}, rows : Rows, got : Nat]

SettingsTypeOK ==
  /\ table \in Rows /\ hash \in Rows /\ rev \in Nat
  /\ store \in Rows /\ local \in Nat /\ loaded \in BOOLEAN
  /\ job \in [Threads -> ThreadJobs]

HasCarousel ==
  \A t \in Threads :
    job[t].pc \notin {"idle", "rows", "load"} => job[t].n \in Carousels

\* Web workers only save and publish.
SaversPublish ==
  \A t \in Savers : job[t].pc \in {"idle", "publish", "bump"}

TypeInv == SettingsTypeOK /\ HasCarousel /\ SaversPublish

-----------------------------------------------------------------------------
(* What holds as long as nothing goes wrong that StoreIsCurrent does not   *)
(* withstand.                                                              *)

Calm == mishaps \cap {"overlap", "redis", "flush", "create"} = {}

\* A row is being published.
Dirty(n) == \E t \in Publishing : job[t].n = n

\* What is published is what is in the table.
Carried ==
  \A t \in Publishing : job[t].rows[job[t].n] = table[job[t].n]

\* Redis has the table, but for rows that are still to be written.
HashIsCurrent ==
  loaded => \A n \in Carousels :
    hash[n] = table[n] \/ \E t \in Threads : At(t, "publish") /\ job[t].n = n

\* The table as it was read is still the table.
LoadIsCurrent == \A t \in Lookers : At(t, "load") => job[t].rows = table

\* Rows that came with the present revision are those of the table.
ReplaceIsCurrent ==
  \A t \in Lookers : At(t, "replace") /\ job[t].got = rev =>
    \A n \in Carousels : job[t].rows[n] = table[n] \/ Dirty(n)

StoreFollows ==
  loaded /\ local = rev => \A n \in Carousels : store[n] = table[n] \/ Dirty(n)

\* Nobody is ahead of Redis.
Behind == local =< rev /\ \A t \in Threads : job[t].got =< rev

\* No row of the table is missing anywhere, so that no thread of the listener
\* publishes: it would give its whole copy a new revision for one row.
NothingMissing ==
  \A n \in Carousels : table[n] # Gone =>
    /\ loaded => hash[n] # Gone /\ store[n] # Gone
    /\ \A t \in Lookers : At(t, "replace") => job[t].rows[n] # Gone

LookersListen ==
  \A t \in Lookers :
    /\ job[t].pc \notin {"publish", "bump"}
    /\ job[t].pc \in {"rev", "check", "all", "replace", "find", "fallback"} => loaded
    /\ At(t, "fallback") => table[job[t].n] = Gone

Current ==
  /\ Carried /\ HashIsCurrent /\ LoadIsCurrent /\ ReplaceIsCurrent
  /\ StoreFollows /\ Behind /\ NothingMissing /\ LookersListen

SettingsInv == TypeInv /\ (Calm => Current)

-----------------------------------------------------------------------------
(* Types.                                                                  *)

LEMMA JobType ==
  ASSUME NEW pc \in Pcs, NEW n \in Carousels \cup {Gone}, NEW rows \in Rows,
         NEW got \in Nat
  PROVE  Job(pc, n, rows, got) \in ThreadJobs
  BY DEF Job, ThreadJobs

LEMMA RestType == Rest \in ThreadJobs
  BY DEF Rest, Job, ThreadJobs, Pcs, Rows, NoRows

\* What a thread may become: of the job before only its place changes, or all.
LEMMA JobStep ==
  ASSUME TypeInv, NEW t \in Threads, NEW j \in ThreadJobs,
         j.pc \notin {"idle", "rows", "load"} => j.n \in Carousels,
         t \in Savers => j.pc \in {"idle", "publish", "bump"},
         job' = [job EXCEPT ![t] = j]
  PROVE  /\ job' \in [Threads -> ThreadJobs]
         /\ HasCarousel' /\ SaversPublish'
  BY DEF TypeInv, SettingsTypeOK, HasCarousel, SaversPublish

LEMMA GoesType ==
  ASSUME TypeInv, NEW t \in Threads, NEW pc \in Pcs, Goes(t, pc),
         pc \notin {"idle", "rows", "load"} => job[t].n \in Carousels,
         t \in Savers => pc \in {"idle", "publish", "bump"}
  PROVE  /\ job' \in [Threads -> ThreadJobs]
         /\ HasCarousel' /\ SaversPublish'
  BY DEF TypeInv, SettingsTypeOK, HasCarousel, SaversPublish, Goes, ThreadJobs

LEMMA RestsType ==
  ASSUME TypeInv, NEW t \in Threads, Rests(t)
  PROVE  /\ job' \in [Threads -> ThreadJobs]
         /\ HasCarousel' /\ SaversPublish'
  <1>1. Rest.pc = "idle"
    BY DEF Rest, Job
  <1> QED
    BY <1>1, RestType, JobStep DEF Rests

LEMMA FindsType ==
  ASSUME TypeInv, NEW t \in Lookers, Finds(t), job[t].n \in Carousels
  PROVE  /\ job' \in [Threads -> ThreadJobs]
         /\ HasCarousel' /\ SaversPublish'
  <1> DEFINE j == Job("find", job[t].n, NoRows, 0)
  <1>1. t \in Threads /\ t \notin Savers
    BY SettingsActors DEF Threads
  <1>2. j \in ThreadJobs /\ j.pc = "find" /\ j.n = job[t].n
    BY DEF Job, ThreadJobs, Pcs, Rows, NoRows
  <1> HIDE DEF j
  <1> QED
    BY <1>1, <1>2, JobStep DEF Finds, j

LEMMA TypeUnchanged ==
  TypeInv /\ UNCHANGED settingsVars => TypeInv'
  BY DEF TypeInv, SettingsTypeOK, HasCarousel, SaversPublish, settingsVars

LEMMA ServesCarousel ==
  ASSUME TypeInv, NEW t \in Threads,
         job[t].pc \in {"rev", "check", "all", "replace", "find", "fallback", "load", "rows"}
  PROVE  t \in Lookers
  BY DEF TypeInv, SaversPublish, Threads

LEMMA TypeStep ==
  TypeInv /\ [SettingsNext]_<<mishapVars, settingsVars>> => TypeInv'
  <1> SUFFICES ASSUME TypeInv, [SettingsNext]_<<mishapVars, settingsVars>>
               PROVE  TypeInv'
    OBVIOUS
  <1> USE DEF TypeInv, SettingsTypeOK, redisVars, listenerVars
  <1>1. ASSUME NEW t \in Threads, NEW n \in Carousels, Save(t, n)
        PROVE  TypeInv'
    <2>1. PICK v \in Values \cup {Gone} :
            /\ table' = [table EXCEPT ![n] = v]
            /\ job' = [job EXCEPT ![t] = Job("publish", n, table', 0)]
      BY <1>1 DEF Save
    <2>2. table' \in Rows
      BY <2>1 DEF Rows
    <2>3. /\ Job("publish", n, table', 0) \in ThreadJobs
          /\ Job("publish", n, table', 0).pc = "publish"
          /\ Job("publish", n, table', 0).n = n
      BY <2>2 DEF Job, ThreadJobs, Pcs
    <2>4. job' \in [Threads -> ThreadJobs] /\ HasCarousel' /\ SaversPublish'
      BY <2>1, <2>3, JobStep
    <2> QED
      BY <1>1, <2>2, <2>4 DEF Save
  <1>2. ASSUME NEW t \in Threads, Publish(t) PROVE TypeInv'
    <2>1. job[t] \in ThreadJobs /\ job[t].n \in Carousels
      BY <1>2 DEF Publish, At, HasCarousel
    <2>2. job[t].rows[job[t].n] \in Values \cup {Gone}
      BY <2>1 DEF ThreadJobs, Rows
    <2>3. store' \in Rows /\ loaded' \in BOOLEAN /\ hash' \in Rows
      BY <1>2, <2>2 DEF Publish, Upsert, Rows
    <2>4. CASE Goes(t, "bump")
      <3>1. t \in Savers => "bump" \in {"idle", "publish", "bump"}
        OBVIOUS
      <3>2. job' \in [Threads -> ThreadJobs] /\ HasCarousel' /\ SaversPublish'
        BY <2>1, <2>4, <3>1, GoesType DEF Pcs
      <3> QED
        BY <1>2, <2>3, <3>2 DEF Publish
    <2>5. CASE Rests(t)
      BY <1>2, <2>3, <2>5, RestsType DEF Publish
    <2> QED
      BY <1>2, <2>4, <2>5 DEF Publish
  <1>3. ASSUME NEW t \in Threads, Bump(t) PROVE TypeInv'
    BY <1>3, RestsType DEF Bump
  <1>4. ASSUME NEW t \in Threads, NEW n \in Carousels, Look(t, n) PROVE TypeInv'
    <2>1. /\ Job("rev", n, NoRows, 0) \in ThreadJobs
          /\ Job("rev", n, NoRows, 0).pc = "rev" /\ Job("rev", n, NoRows, 0).n = n
      BY DEF Job, ThreadJobs, Pcs, Rows, NoRows
    <2>2. t \notin Savers
      BY <1>4, SettingsActors DEF Look
    <2>3. job' \in [Threads -> ThreadJobs] /\ HasCarousel' /\ SaversPublish'
      BY <1>4, <2>1, <2>2, JobStep DEF Look
    <2> QED
      BY <1>4, <2>3 DEF Look
  <1>5. ASSUME NEW t \in Threads, ReadRev(t) PROVE TypeInv'
    <2>1. t \in Lookers /\ t \notin Savers /\ job[t] \in ThreadJobs /\ job[t].n \in Carousels
      BY <1>5, ServesCarousel, SettingsActors DEF ReadRev, At, HasCarousel
    <2>2. CASE job' = [job EXCEPT ![t].pc = "check", ![t].got = rev]
      <3> DEFINE j == [job[t] EXCEPT !.pc = "check", !.got = rev]
      <3>1. j \in ThreadJobs /\ j.n = job[t].n /\ j.pc \in {"check", "replace", "publish"}
        BY <2>1 DEF ThreadJobs, Pcs
      <3>2. job' = [job EXCEPT ![t] = j]
        BY <2>2
      <3> HIDE DEF j
      <3>3. job' \in [Threads -> ThreadJobs] /\ HasCarousel' /\ SaversPublish'
        BY <2>1, <3>1, <3>2, JobStep
      <3> QED
        BY <1>5, <3>3 DEF ReadRev
    <2>3. CASE Finds(t)
      BY <1>5, <2>1, <2>3, FindsType DEF ReadRev
    <2> QED
      BY <1>5, <2>2, <2>3 DEF ReadRev
  <1>6. ASSUME NEW t \in Threads, Check(t) PROVE TypeInv'
    <2>1. t \in Lookers /\ t \notin Savers /\ job[t].n \in Carousels
      BY <1>6, ServesCarousel, SettingsActors DEF Check, At, HasCarousel
    <2>2. CASE Finds(t)
      BY <1>6, <2>1, <2>2, FindsType DEF Check
    <2>3. CASE Goes(t, "all")
      BY <1>6, <2>1, <2>3, GoesType DEF Check, Pcs
    <2> QED
      BY <1>6, <2>2, <2>3 DEF Check
  <1>7. ASSUME NEW t \in Threads, ReadAll(t) PROVE TypeInv'
    <2>1. t \in Lookers /\ t \notin Savers /\ job[t] \in ThreadJobs /\ job[t].n \in Carousels
      BY <1>7, ServesCarousel, SettingsActors DEF ReadAll, At, HasCarousel
    <2>2. CASE Finds(t)
      BY <1>7, <2>1, <2>2, FindsType DEF ReadAll
    <2>3. CASE Goes(t, "rows")
      BY <1>7, <2>1, <2>3, GoesType DEF ReadAll, Pcs
    <2>4. CASE job' = [job EXCEPT ![t].pc = "replace", ![t].rows = hash]
      <3> DEFINE j == [job[t] EXCEPT !.pc = "replace", !.rows = hash]
      <3>1. j \in ThreadJobs /\ j.n = job[t].n /\ j.pc \in {"check", "replace", "publish"}
        BY <2>1 DEF ThreadJobs, Pcs
      <3>2. job' = [job EXCEPT ![t] = j]
        BY <2>4
      <3> HIDE DEF j
      <3>3. job' \in [Threads -> ThreadJobs] /\ HasCarousel' /\ SaversPublish'
        BY <2>1, <3>1, <3>2, JobStep
      <3> QED
        BY <1>7, <3>3 DEF ReadAll
    <2> QED
      BY <1>7, <2>2, <2>3, <2>4 DEF ReadAll
  <1>8. ASSUME NEW t \in Threads, Replace(t) PROVE TypeInv'
    <2>1. t \in Lookers /\ job[t] \in ThreadJobs /\ job[t].n \in Carousels
      BY <1>8, ServesCarousel DEF Replace, At, HasCarousel
    <2>2. job[t].rows \in Rows /\ job[t].got \in Nat
      BY <2>1 DEF ThreadJobs
    <2> QED
      BY <1>8, <2>1, <2>2, FindsType DEF Replace
  <1>9. ASSUME NEW t \in Threads, Find(t) PROVE TypeInv'
    <2>1. t \in Lookers /\ t \notin Savers /\ job[t].n \in Carousels
      BY <1>9, ServesCarousel, SettingsActors DEF Find, At, HasCarousel
    <2>2. CASE Rests(t)
      BY <1>9, <2>2, RestsType DEF Find
    <2>3. CASE Goes(t, "fallback")
      BY <1>9, <2>1, <2>3, GoesType DEF Find, Pcs
    <2> QED
      BY <1>9, <2>2, <2>3 DEF Find
  <1>10. ASSUME NEW t \in Threads, Fallback(t) PROVE TypeInv'
    <2>1. t \in Lookers /\ t \notin Savers /\ job[t] \in ThreadJobs /\ job[t].n \in Carousels
      BY <1>10, ServesCarousel, SettingsActors DEF Fallback, At, HasCarousel
    <2>2. CASE Rests(t)
      BY <1>10, <2>2, RestsType DEF Fallback
    <2>3. CASE job' = [job EXCEPT ![t].pc = "publish", ![t].rows = table]
      <3> DEFINE j == [job[t] EXCEPT !.pc = "publish", !.rows = table]
      <3>1. j \in ThreadJobs /\ j.n = job[t].n /\ j.pc \in {"check", "replace", "publish"}
        BY <2>1 DEF ThreadJobs, Pcs
      <3>2. job' = [job EXCEPT ![t] = j]
        BY <2>3
      <3> HIDE DEF j
      <3>3. job' \in [Threads -> ThreadJobs] /\ HasCarousel' /\ SaversPublish'
        BY <2>1, <3>1, <3>2, JobStep
      <3> QED
        BY <1>10, <3>3 DEF Fallback
    <2> QED
      BY <1>10, <2>2, <2>3 DEF Fallback
  <1>11. ASSUME NEW t \in Threads, ReadRows(t) PROVE TypeInv'
    <2>1. t \in Lookers /\ t \notin Savers /\ job[t] \in ThreadJobs
      BY <1>11, ServesCarousel, SettingsActors DEF ReadRows, At
    <2> DEFINE j == [job[t] EXCEPT !.pc = "load", !.rows = table]
    <2>2. j \in ThreadJobs /\ j.pc = "load"
      BY <2>1 DEF ThreadJobs, Pcs
    <2>3. job' = [job EXCEPT ![t] = j]
      BY <1>11, <2>1 DEF ReadRows
    <2> HIDE DEF j
    <2>4. job' \in [Threads -> ThreadJobs] /\ HasCarousel' /\ SaversPublish'
      BY <2>1, <2>2, <2>3, JobStep
    <2> QED
      BY <1>11, <2>4 DEF ReadRows
  <1>12. ASSUME NEW t \in Threads, Load(t) PROVE TypeInv'
    <2>1. t \in Lookers /\ job[t].rows \in Rows /\ job[t].n \in Carousels \cup {Gone}
      BY <1>12, ServesCarousel DEF Load, At, ThreadJobs
    <2>2. job' \in [Threads -> ThreadJobs] /\ HasCarousel' /\ SaversPublish'
      <3>1. CASE Rests(t)
        BY <3>1, RestsType
      <3>2. CASE job[t].n # Gone /\ Finds(t)
        BY <2>1, <3>2, FindsType
      <3> QED
        BY <1>12, <3>1, <3>2 DEF Load, AfterLoad
    <2> QED
      BY <1>12, <2>1, <2>2 DEF Load
  <1>13. ASSUME NEW t \in Threads, Restart(t) PROVE TypeInv'
    <2>1. Job("rows", Gone, NoRows, 0) \in ThreadJobs /\ Job("rows", Gone, NoRows, 0).pc = "rows"
      BY DEF Job, ThreadJobs, Pcs, Rows, NoRows
    <2>2. Rest \in ThreadJobs /\ Rest.pc = "idle"
      BY RestType DEF Rest, Job
    <2>3. job' \in [Threads -> ThreadJobs] /\ HasCarousel' /\ SaversPublish'
      BY <1>13, <2>1, <2>2, SettingsActors DEF Restart, HasCarousel, SaversPublish, Threads
    <2>4. NoRows \in Rows
      BY DEF Rows, NoRows
    <2> QED
      BY <1>13, <2>3, <2>4 DEF Restart
  <1>14. CASE Flush
    BY <1>14 DEF Flush, HasCarousel, SaversPublish, Rows, NoRows
  <1>15. CASE UNCHANGED <<mishapVars, settingsVars>>
    BY <1>15, TypeUnchanged
  <1> QED
    BY <1>1, <1>2, <1>3, <1>4, <1>5, <1>6, <1>7, <1>8, <1>9, <1>10, <1>11,
       <1>12, <1>13, <1>14, <1>15 DEF SettingsNext, Works

-----------------------------------------------------------------------------
(* What follows from calm.                                                 *)

LEMMA SlipIsNotCalm ==
  ASSUME NEW kind \in {"overlap", "redis", "flush", "create"}, Slip(kind)
  PROVE  ~Calm'
  BY DEF Slip, Calm

LEMMA CalmBefore ==
  [SettingsNext]_<<mishapVars, settingsVars>> /\ Calm' => Calm
  <1>1. ASSUME NEW kind, Slip(kind), Calm' PROVE Calm
    BY <1>1 DEF Slip, Calm
  <1>2. Smooth /\ Calm' => Calm
    BY DEF Smooth, mishapVars, Calm
  <1>3. UNCHANGED <<mishapVars, settingsVars>> /\ Calm' => Calm
    BY DEF mishapVars, Calm
  <1>4. ASSUME NEW t \in Threads, Works(t), Calm' PROVE Calm
    BY <1>1, <1>2, <1>4
       DEF Works, Publish, Bump, ReadRev, Check, ReadAll, Replace, Find,
           Fallback, ReadRows, Load
  <1>5. ASSUME NEW t \in Threads, NEW n \in Carousels, Save(t, n) \/ Look(t, n), Calm'
        PROVE  Calm
    BY <1>1, <1>2, <1>5 DEF Save, Look
  <1>6. ASSUME NEW t \in Threads, Restart(t), Calm' PROVE Calm
    BY <1>1, <1>6 DEF Restart
  <1>7. Flush /\ Calm' => Calm
    BY <1>1 DEF Flush
  <1> QED
    BY <1>3, <1>4, <1>5, <1>6, <1>7 DEF SettingsNext

\* Where a thread of the listener moves and nothing else does.
LEMMA LookerMoves ==
  ASSUME TypeInv, Current, NEW t \in Lookers, NEW j \in ThreadJobs,
         job' = [job EXCEPT ![t] = j],
         UNCHANGED <<table, hash, rev, store, local, loaded>>,
         j.pc \notin {"publish", "bump"}, j.got =< rev,
         j.pc \in {"rev", "check", "all", "replace", "find", "fallback"} => loaded,
         j.pc = "fallback" => table[j.n] = Gone,
         j.pc = "load" => j.rows = table,
         j.pc = "replace" =>
           \A n \in Carousels :
             /\ j.got = rev => j.rows[n] = table[n] \/ Dirty(n)
             /\ table[n] # Gone => j.rows[n] # Gone
  PROVE  Current'
  <1>1. t \in Threads
    BY DEF Threads
  <1>2. /\ job'[t] = j
        /\ \A u \in Threads \ {t} : job'[u] = job[u]
    BY <1>1 DEF TypeInv, SettingsTypeOK
  <1>3. t \notin Publishing /\ Publishing' = Publishing
    BY <1>2 DEF Current, LookersListen, Publishing
  <1>4. \A n \in Carousels : Dirty(n)' <=> Dirty(n)
    BY <1>2, <1>3 DEF Dirty, Publishing
  <1>5. Carried'
    BY <1>2, <1>3 DEF Current, Carried, Publishing
  <1>6. HashIsCurrent'
    <2>1. ~At(t, "publish")
      BY DEF Current, LookersListen, At
    <2> QED
      BY <1>2, <2>1 DEF Current, HashIsCurrent, At
  <1>7. LoadIsCurrent'
    BY <1>1, <1>2 DEF Current, LoadIsCurrent, At, Threads
  <1>8. ReplaceIsCurrent'
    BY <1>1, <1>2, <1>4 DEF Current, ReplaceIsCurrent, At, Threads
  <1>9. StoreFollows'
    BY <1>4 DEF Current, StoreFollows
  <1>10. Behind'
    BY <1>2 DEF Current, Behind
  <1>11. NothingMissing'
    BY <1>2 DEF Current, NothingMissing, At, Threads
  <1>12. LookersListen'
    BY <1>2 DEF Current, LookersListen, At, Threads
  <1> QED
    BY <1>5, <1>6, <1>7, <1>8, <1>9, <1>10, <1>11, <1>12 DEF Current

\* To rest, or to look for the carousel.
LEMMA LookerRests ==
  ASSUME TypeInv, Current, NEW t \in Lookers,
         Rests(t) \/ (loaded /\ job[t].n \in Carousels /\ Finds(t)),
         UNCHANGED <<table, hash, rev, store, local, loaded>>
  PROVE  Current'
  <1>1. 0 =< rev
    BY DEF TypeInv, SettingsTypeOK
  <1>2. CASE Rests(t)
    BY <1>1, <1>2, RestType, LookerMoves DEF Rests, Rest, Job
  <1>3. CASE loaded /\ job[t].n \in Carousels /\ Finds(t)
    <2> DEFINE j == Job("find", job[t].n, NoRows, 0)
    <2>1. j \in ThreadJobs /\ j.pc = "find" /\ j.got = 0
      BY <1>3 DEF Job, ThreadJobs, Pcs, Rows, NoRows
    <2>2. job' = [job EXCEPT ![t] = j]
      BY <1>3 DEF Finds
    <2> HIDE DEF j
    <2> QED
      BY <1>1, <1>3, <2>1, <2>2, LookerMoves
  <1> QED
    BY <1>2, <1>3

-----------------------------------------------------------------------------
(* One lemma per action that writes.                                       *)

LEMMA SaveKeeps ==
  ASSUME TypeInv, Current, Calm', NEW t \in Threads, NEW n \in Carousels, Save(t, n)
  PROVE  Current'
  <1>1. PICK v \in Values \cup {Gone} :
          /\ table' = [table EXCEPT ![n] = v]
          /\ job' = [job EXCEPT ![t] = Job("publish", n, table', 0)]
    BY DEF Save
  <1>2. t \in Savers /\ t \notin Lookers /\ job[t].pc = "idle"
    BY SettingsActors DEF Save, At
  <1>3. ~Slip("create") /\ ~Slip("overlap")
    BY SlipIsNotCalm
  <1>4. /\ table[n] # Gone
        /\ \A u \in Publishing : job[u].n # n
        /\ \A u \in Lookers : ~At(u, "load")
    BY <1>3 DEF Save
  <1>5. /\ job'[t].pc = "publish" /\ job'[t].n = n
        /\ job'[t].rows = table' /\ job'[t].got = 0
        /\ \A u \in Threads \ {t} : job'[u] = job[u]
    BY <1>1 DEF TypeInv, SettingsTypeOK, Job
  <1>6. /\ table'[n] = v
        /\ \A m \in Carousels \ {n} : table'[m] = table[m]
    BY <1>1 DEF TypeInv, SettingsTypeOK, Rows
  <1>7. UNCHANGED <<hash, rev, store, local, loaded>>
    BY DEF Save, redisVars, listenerVars
  <1>8. Dirty(n)' /\ \A m \in Carousels : Dirty(m) => Dirty(m)'
    BY <1>2, <1>5 DEF Dirty, Publishing
  <1>9. Carried'
    <2> SUFFICES ASSUME NEW u \in Threads, u \in Publishing'
                 PROVE  job'[u].rows[job'[u].n] = table'[job'[u].n]
      BY DEF Carried, Publishing
    <2>1. CASE u = t
      BY <1>5, <2>1
    <2>2. CASE u # t
      <3>1. u \in Publishing /\ job[u].n # n /\ job[u].n \in Carousels
        BY <1>4, <1>5, <2>2 DEF Publishing, TypeInv, HasCarousel
      <3> QED
        BY <1>5, <1>6, <2>2, <3>1 DEF Current, Carried
    <2> QED
      BY <2>1, <2>2
  <1>10. HashIsCurrent'
    BY <1>2, <1>5, <1>6, <1>7 DEF Current, HashIsCurrent, At
  <1>11. LoadIsCurrent'
    BY <1>2, <1>4, <1>5 DEF LoadIsCurrent, At, Threads
  <1>12. ReplaceIsCurrent'
    <2> SUFFICES ASSUME NEW u \in Lookers, At(u, "replace")', job'[u].got = rev',
                        NEW m \in Carousels
                 PROVE  job'[u].rows[m] = table'[m] \/ Dirty(m)'
      BY DEF ReplaceIsCurrent
    <2>1. job'[u] = job[u] /\ At(u, "replace") /\ job[u].got = rev
      BY <1>2, <1>5, <1>7 DEF At, Threads
    <2>2. job[u].rows[m] = table[m] \/ Dirty(m)
      BY <2>1 DEF Current, ReplaceIsCurrent
    <2> QED
      BY <1>6, <1>8, <2>1, <2>2
  <1>13. StoreFollows'
    BY <1>6, <1>7, <1>8 DEF Current, StoreFollows
  <1>14. Behind'
    BY <1>5, <1>7 DEF Current, Behind, TypeInv, SettingsTypeOK
  <1>15. NothingMissing'
    BY <1>2, <1>4, <1>5, <1>6, <1>7 DEF Current, NothingMissing, At, Threads
  <1>16. LookersListen'
    <2>1. \A u \in Lookers : job'[u] = job[u]
      BY <1>2, <1>5 DEF Threads
    <2>2. ASSUME NEW u \in Lookers, At(u, "fallback") PROVE table'[job[u].n] = Gone
      <3>1. job[u].n \in Carousels /\ table[job[u].n] = Gone
        BY <2>2 DEF Current, LookersListen, TypeInv, HasCarousel, At, Threads
      <3> QED
        BY <1>4, <1>6, <3>1
    <2> QED
      BY <1>7, <2>1, <2>2 DEF Current, LookersListen, At
  <1> QED
    BY <1>9, <1>10, <1>11, <1>12, <1>13, <1>14, <1>15, <1>16 DEF Current

LEMMA PublishKeeps ==
  ASSUME TypeInv, Current, Calm', NEW t \in Threads, Publish(t)
  PROVE  Current'
  <1>1. t \in Savers /\ t \notin Lookers /\ t \in Publishing
    BY SettingsActors DEF Publish, At, Current, LookersListen, Threads, Publishing
  <1>2. ~Slip("redis")
    BY SlipIsNotCalm
  <1>3. /\ hash' = [hash EXCEPT ![job[t].n] = job[t].rows[job[t].n]]
        /\ job' = [job EXCEPT ![t].pc = "bump"]
        /\ UNCHANGED <<table, rev, store, local, loaded>>
    BY <1>1, <1>2 DEF Publish, Upsert, Goes
  <1>4. job[t] \in ThreadJobs /\ job[t].n \in Carousels
    BY <1>1 DEF TypeInv, SettingsTypeOK, HasCarousel, Publishing
  <1>5. /\ job'[t].pc = "bump" /\ job'[t].n = job[t].n
        /\ job'[t].rows = job[t].rows /\ job'[t].got = job[t].got
        /\ \A u \in Threads \ {t} : job'[u] = job[u]
    BY <1>3, <1>4 DEF TypeInv, SettingsTypeOK, ThreadJobs
  <1>6. /\ hash'[job[t].n] = table[job[t].n]
        /\ \A m \in Carousels \ {job[t].n} : hash'[m] = hash[m]
    BY <1>1, <1>3, <1>4 DEF TypeInv, SettingsTypeOK, Rows, Current, Carried
  <1>7. \A m \in Carousels : Dirty(m)' <=> Dirty(m)
    BY <1>1, <1>5 DEF Dirty, Publishing
  <1>8. \A u \in Lookers : job'[u] = job[u]
    BY <1>1, <1>5 DEF Threads
  <1>9. Carried'
    BY <1>1, <1>3, <1>5 DEF Current, Carried, Publishing
  <1>10. HashIsCurrent'
    <2> SUFFICES ASSUME loaded, NEW m \in Carousels, m # job[t].n
                 PROVE  \/ hash'[m] = table[m]
                        \/ \E u \in Threads : At(u, "publish")' /\ job'[u].n = m
      BY <1>3, <1>6 DEF HashIsCurrent
    <2>1. hash[m] = table[m] \/ \E u \in Threads \ {t} : At(u, "publish") /\ job[u].n = m
      BY DEF Current, HashIsCurrent
    <2> QED
      BY <1>5, <1>6, <2>1 DEF At
  <1>11. LoadIsCurrent'
    BY <1>3, <1>8 DEF Current, LoadIsCurrent, At
  <1>12. ReplaceIsCurrent'
    BY <1>3, <1>7, <1>8 DEF Current, ReplaceIsCurrent, At
  <1>13. StoreFollows'
    BY <1>3, <1>7 DEF Current, StoreFollows
  <1>14. Behind'
    BY <1>3, <1>5 DEF Current, Behind
  <1>15. NothingMissing'
    BY <1>3, <1>6, <1>8 DEF Current, NothingMissing, At
  <1>16. LookersListen'
    BY <1>3, <1>8 DEF Current, LookersListen, At
  <1> QED
    BY <1>9, <1>10, <1>11, <1>12, <1>13, <1>14, <1>15, <1>16 DEF Current

LEMMA BumpKeeps ==
  ASSUME TypeInv, Current, Calm', NEW t \in Threads, Bump(t)
  PROVE  Current'
  <1>1. t \in Savers /\ t \notin Lookers
    BY SettingsActors DEF Bump, At, Current, LookersListen, Threads
  <1>2. ~Slip("redis")
    BY SlipIsNotCalm
  <1>3. rev' = rev + 1 /\ UNCHANGED <<table, hash, store, local, loaded>>
    BY <1>1, <1>2 DEF Bump
  <1>4. /\ job'[t].pc = "idle" /\ job'[t].got = 0
        /\ \A u \in Threads \ {t} : job'[u] = job[u]
    BY DEF Bump, Rests, Rest, Job, TypeInv, SettingsTypeOK
  <1>5. \A u \in Lookers : job'[u] = job[u]
    BY <1>1, <1>4 DEF Threads
  <1>6. \A u \in Threads : job[u].got =< rev /\ job[u].got \in Nat
    BY DEF Current, Behind, TypeInv, SettingsTypeOK, ThreadJobs
  <1>7. local =< rev /\ local \in Nat /\ rev \in Nat
    BY DEF Current, Behind, TypeInv, SettingsTypeOK
  <1>8. Carried'
    BY <1>3, <1>4 DEF Current, Carried, Publishing
  <1>9. HashIsCurrent'
    <2> SUFFICES ASSUME loaded, NEW m \in Carousels
                 PROVE  \/ hash[m] = table[m]
                        \/ \E u \in Threads : At(u, "publish")' /\ job'[u].n = m
      BY <1>3 DEF HashIsCurrent
    <2>1. hash[m] = table[m] \/ \E u \in Threads \ {t} : At(u, "publish") /\ job[u].n = m
      BY DEF Current, HashIsCurrent, Bump, At
    <2> QED
      BY <1>4, <2>1 DEF At
  <1>10. LoadIsCurrent'
    BY <1>3, <1>5 DEF Current, LoadIsCurrent, At
  <1>11. ReplaceIsCurrent'
    <2>1. \A u \in Lookers : job'[u].got # rev'
      BY <1>3, <1>5, <1>6, <1>7 DEF Threads
    <2> QED
      BY <2>1 DEF ReplaceIsCurrent
  <1>12. StoreFollows'
    <2>1. local' # rev'
      BY <1>3, <1>7
    <2> QED
      BY <2>1 DEF StoreFollows
  <1>13. Behind'
    BY <1>3, <1>4, <1>6, <1>7 DEF Behind
  <1>14. NothingMissing'
    BY <1>3, <1>5 DEF Current, NothingMissing, At
  <1>15. LookersListen'
    BY <1>3, <1>5 DEF Current, LookersListen, At
  <1> QED
    BY <1>8, <1>9, <1>10, <1>11, <1>12, <1>13, <1>14, <1>15 DEF Current

LEMMA ReplaceKeeps ==
  ASSUME TypeInv, Current, NEW t \in Threads, Replace(t)
  PROVE  Current'
  <1>1. t \in Lookers /\ job[t].pc = "replace"
    BY ServesCarousel DEF Replace, At
  <1>2. /\ store' = job[t].rows /\ local' = job[t].got /\ loaded' = TRUE
        /\ UNCHANGED <<table, hash, rev>>
    BY DEF Replace, redisVars
  <1>3. /\ job'[t].pc = "find" /\ job'[t].got = 0
        /\ \A u \in Threads \ {t} : job'[u] = job[u]
    BY DEF Replace, Finds, Job, TypeInv, SettingsTypeOK
  <1>4. \A m \in Carousels : Dirty(m)' <=> Dirty(m)
    BY <1>1, <1>3 DEF Dirty, Publishing
  <1>5. Carried'
    BY <1>2, <1>3 DEF Current, Carried, Publishing
  <1>6. loaded
    BY <1>1 DEF Current, LookersListen
  <1>7. HashIsCurrent'
    BY <1>1, <1>2, <1>3, <1>6 DEF Current, HashIsCurrent, At
  <1>8. LoadIsCurrent'
    BY <1>2, <1>3 DEF Current, LoadIsCurrent, At, Threads
  <1>9. ReplaceIsCurrent'
    BY <1>2, <1>3, <1>4 DEF Current, ReplaceIsCurrent, At, Threads
  <1>10. StoreFollows'
    BY <1>1, <1>2, <1>4 DEF Current, ReplaceIsCurrent, StoreFollows, At
  <1>11. Behind'
    BY <1>2, <1>3 DEF Current, Behind, TypeInv, SettingsTypeOK
  <1>12. NothingMissing'
    BY <1>1, <1>2, <1>3, <1>6 DEF Current, NothingMissing, At, Threads
  <1>13. LookersListen'
    BY <1>2, <1>3 DEF Current, LookersListen, At, Threads
  <1> QED
    BY <1>5, <1>7, <1>8, <1>9, <1>10, <1>11, <1>12, <1>13 DEF Current

LEMMA LoadKeeps ==
  ASSUME TypeInv, Current, Calm', NEW t \in Threads, Load(t)
  PROVE  Current'
  <1>1. t \in Lookers /\ job[t].pc = "load" /\ job[t].rows = table
    BY ServesCarousel DEF Load, At, Current, LoadIsCurrent
  <1>2. ~Slip("redis")
    BY SlipIsNotCalm
  <1>3. /\ hash' = table /\ rev' = rev + 1 /\ local' = rev'
        /\ store' = table /\ loaded' = TRUE /\ table' = table
    BY <1>1, <1>2 DEF Load
  <1>4. /\ job'[t].pc \in {"idle", "find"} /\ job'[t].got = 0
        /\ \A u \in Threads \ {t} : job'[u] = job[u]
    BY DEF Load, AfterLoad, Rests, Finds, Rest, Job, TypeInv, SettingsTypeOK
  <1>5. \A u \in Threads : job[u].got =< rev /\ job[u].got \in Nat
    BY DEF Current, Behind, TypeInv, SettingsTypeOK, ThreadJobs
  <1>6. rev \in Nat
    BY DEF TypeInv, SettingsTypeOK
  <1>7. Carried'
    BY <1>3, <1>4 DEF Current, Carried, Publishing
  <1>8. HashIsCurrent'
    BY <1>3 DEF HashIsCurrent
  <1>9. LoadIsCurrent'
    BY <1>3, <1>4 DEF Current, LoadIsCurrent, At, Threads
  <1>10. ReplaceIsCurrent'
    <2>1. \A u \in Threads : job'[u].got # rev'
      BY <1>3, <1>4, <1>5, <1>6
    <2> QED
      BY <2>1 DEF ReplaceIsCurrent, Threads
  <1>11. StoreFollows'
    BY <1>3 DEF StoreFollows
  <1>12. Behind'
    BY <1>3, <1>4, <1>5, <1>6 DEF Behind
  <1>13. NothingMissing'
    BY <1>3, <1>4 DEF Current, NothingMissing, At, Threads
  <1>14. LookersListen'
    BY <1>3, <1>4 DEF Current, LookersListen, At, Threads
  <1> QED
    BY <1>7, <1>8, <1>9, <1>10, <1>11, <1>12, <1>13, <1>14 DEF Current

LEMMA RestartKeeps ==
  ASSUME TypeInv, Current, NEW t \in Threads, Restart(t)
  PROVE  Current'
  <1>1. /\ local' = 0 /\ loaded' = FALSE
        /\ UNCHANGED <<table, hash, rev>>
    BY DEF Restart, redisVars
  <1>2. \A u \in Lookers : job'[u].pc \in {"idle", "rows"} /\ job'[u].got = 0
    BY DEF Restart, Rest, Job, Threads
  <1>3. \A u \in Savers : job'[u] = job[u]
    BY SettingsActors DEF Restart, Threads
  <1>4. rev \in Nat
    BY DEF TypeInv, SettingsTypeOK
  <1>5. Carried'
    BY <1>1, <1>2, <1>3 DEF Current, Carried, Publishing, Threads
  <1>6. HashIsCurrent' /\ StoreFollows'
    BY <1>1 DEF HashIsCurrent, StoreFollows
  <1>7. LoadIsCurrent' /\ ReplaceIsCurrent'
    BY <1>2 DEF LoadIsCurrent, ReplaceIsCurrent, At
  <1>8. Behind'
    BY <1>1, <1>2, <1>3, <1>4 DEF Current, Behind, Threads
  <1>9. NothingMissing' /\ LookersListen'
    BY <1>1, <1>2 DEF NothingMissing, LookersListen, At
  <1> QED
    BY <1>5, <1>6, <1>7, <1>8, <1>9 DEF Current

LEMMA ListenerKeeps ==
  ASSUME TypeInv, Current, Calm', NEW t \in Threads,
         \/ ReadRev(t) \/ Check(t) \/ ReadAll(t) \/ Find(t) \/ Fallback(t)
         \/ ReadRows(t) \/ \E n \in Carousels : Look(t, n)
  PROVE  Current'
  <1> DEFINE Rested == UNCHANGED <<table, hash, rev, store, local, loaded>>
  <1>1. t \in Lookers /\ job[t] \in ThreadJobs /\ Rested
    BY ServesCarousel
       DEF ReadRev, Check, ReadAll, Find, Fallback, ReadRows, Look, At, redisVars,
           listenerVars, TypeInv, SettingsTypeOK
  <1>2. job[t].got =< rev /\ 0 =< rev /\ rev =< rev
    BY DEF Current, Behind, TypeInv, SettingsTypeOK
  <1>3. job[t].pc \in {"rev", "check", "all", "find", "fallback"}
          => loaded /\ job[t].n \in Carousels
    BY <1>1 DEF Current, LookersListen, TypeInv, HasCarousel, Threads
  <1>4. ~Slip("redis")
    BY SlipIsNotCalm
  \* Where only the place changes.
  <1>5. ASSUME NEW pc \in {"all", "rows", "fallback"}, Goes(t, pc),
               pc # "rows" => loaded,
               pc = "fallback" => table[job[t].n] = Gone
        PROVE  Current'
    <2> DEFINE j == [job[t] EXCEPT !.pc = pc]
    <2>1. j \in ThreadJobs /\ j.pc = pc /\ j.n = job[t].n /\ j.got = job[t].got
      BY <1>1 DEF ThreadJobs, Pcs
    <2>2. job' = [job EXCEPT ![t] = j]
      BY <1>5 DEF Goes
    <2> HIDE DEF j
    <2> QED
      BY <1>1, <1>2, <1>5, <2>1, <2>2, LookerMoves
  <1>6. CASE ReadRev(t)
    <2> DEFINE j == [job[t] EXCEPT !.pc = "check", !.got = rev]
    <2>1. j \in ThreadJobs /\ j.pc = "check" /\ j.got = rev
      BY <1>1 DEF ThreadJobs, Pcs, TypeInv, SettingsTypeOK
    <2>2. job' = [job EXCEPT ![t] = j]
      BY <1>4, <1>6 DEF ReadRev
    <2>3. loaded
      BY <1>3, <1>6 DEF ReadRev, At
    <2> HIDE DEF j
    <2> QED
      BY <1>1, <1>2, <2>1, <2>2, <2>3, LookerMoves
  <1>7. CASE Check(t)
    <2>1. loaded /\ job[t].n \in Carousels
      BY <1>3, <1>7 DEF Check, At
    <2>2. Finds(t) \/ Goes(t, "all")
      BY <1>7 DEF Check
    <2> QED
      BY <1>1, <1>5, <2>1, <2>2, LookerRests
  <1>8. CASE ReadAll(t)
    <2>1. loaded
      BY <1>3, <1>8 DEF ReadAll, At
    <2>2. CASE Goes(t, "rows")
      BY <1>5, <2>2
    <2>3. CASE job' = [job EXCEPT ![t].pc = "replace", ![t].rows = hash]
      <3> DEFINE j == [job[t] EXCEPT !.pc = "replace", !.rows = hash]
      <3>1. j \in ThreadJobs /\ j.pc = "replace" /\ j.rows = hash /\ j.got = job[t].got
        BY <1>1 DEF ThreadJobs, Pcs, TypeInv, SettingsTypeOK
      <3>2. job' = [job EXCEPT ![t] = j]
        BY <2>3
      <3>3. \A n \in Carousels :
              (hash[n] = table[n] \/ Dirty(n)) /\ (table[n] # Gone => hash[n] # Gone)
        BY <2>1 DEF Current, HashIsCurrent, NothingMissing, Dirty, Publishing, At
      <3> HIDE DEF j
      <3> QED
        BY <1>1, <1>2, <2>1, <3>1, <3>2, <3>3, LookerMoves
    <2> QED
      BY <1>4, <1>8, <2>2, <2>3 DEF ReadAll
  <1>9. CASE Find(t)
    <2>1. loaded /\ job[t].n \in Carousels
      BY <1>3, <1>9 DEF Find, At
    <2>2. CASE Rests(t)
      BY <1>1, <2>2, LookerRests
    <2>3. CASE store[job[t].n] = Gone /\ Goes(t, "fallback")
      <3>1. table[job[t].n] = Gone
        BY <2>1, <2>3 DEF Current, NothingMissing
      <3> QED
        BY <1>5, <2>1, <2>3, <3>1
    <2> QED
      BY <1>9, <2>2, <2>3 DEF Find
  <1>10. CASE Fallback(t)
    <2>1. Rests(t)
      BY <1>1, <1>10 DEF Fallback, Current, LookersListen
    <2> QED
      BY <1>1, <2>1, LookerRests
  <1>11. CASE ReadRows(t)
    <2> DEFINE j == [job[t] EXCEPT !.pc = "load", !.rows = table]
    <2>1. j \in ThreadJobs /\ j.pc = "load" /\ j.rows = table /\ j.got = job[t].got
      BY <1>1 DEF ThreadJobs, Pcs, TypeInv, SettingsTypeOK
    <2>2. job' = [job EXCEPT ![t] = j]
      BY <1>11 DEF ReadRows
    <2> HIDE DEF j
    <2> QED
      BY <1>1, <1>2, <2>1, <2>2, LookerMoves
  <1>12. ASSUME NEW n \in Carousels, Look(t, n) PROVE Current'
    <2> DEFINE j == Job("rev", n, NoRows, 0)
    <2>1. j \in ThreadJobs /\ j.pc = "rev" /\ j.got = 0
      BY DEF Job, ThreadJobs, Pcs, Rows, NoRows
    <2>2. job' = [job EXCEPT ![t] = j] /\ loaded
      BY <1>12 DEF Look
    <2> HIDE DEF j
    <2> QED
      BY <1>1, <1>2, <2>1, <2>2, LookerMoves
  <1> QED
    BY <1>6, <1>7, <1>8, <1>9, <1>10, <1>11, <1>12

-----------------------------------------------------------------------------
LEMMA CurrentStep ==
  ASSUME TypeInv, Current, Calm', [SettingsNext]_<<mishapVars, settingsVars>>
  PROVE  Current'
  <1>1. ~Flush
    BY SlipIsNotCalm DEF Flush
  <1>2. CASE UNCHANGED <<mishapVars, settingsVars>>
    BY <1>2 DEF settingsVars, Current, Carried, HashIsCurrent, LoadIsCurrent,
                ReplaceIsCurrent, StoreFollows, Behind, NothingMissing,
                LookersListen, Dirty, Publishing, At
  <1>3. ASSUME NEW t \in Threads, Works(t) PROVE Current'
    BY <1>3, PublishKeeps, BumpKeeps, ReplaceKeeps, LoadKeeps, ListenerKeeps DEF Works
  <1> QED
    BY <1>1, <1>2, <1>3, SaveKeeps, RestartKeeps, ListenerKeeps DEF SettingsNext

LEMMA InitHolds == MishapInit /\ SettingsInit => SettingsInv
  <1> SUFFICES ASSUME MishapInit, SettingsInit PROVE SettingsInv
    OBVIOUS
  <1>1. PICK t \in Lookers :
          job = [u \in Threads |-> IF u = t THEN Job("rows", Gone, NoRows, 0) ELSE Rest]
    BY DEF SettingsInit
  <1>2. Job("rows", Gone, NoRows, 0) \in ThreadJobs /\ Rest \in ThreadJobs
    BY RestType DEF Job, ThreadJobs, Pcs, Rows, NoRows
  <1>3. \A u \in Threads : job[u].pc \in {"idle", "rows"} /\ job[u].got = 0
    BY <1>1 DEF Rest, Job
  <1>4. \A u \in Savers : job[u].pc = "idle"
    BY <1>1, SettingsActors DEF Rest, Job, Threads
  <1>5. TypeInv
    BY <1>1, <1>2, <1>3, <1>4
       DEF TypeInv, SettingsTypeOK, HasCarousel, SaversPublish, SettingsInit, Rows, NoRows
  <1>6. Current
    BY <1>3 DEF SettingsInit, Current, Carried, HashIsCurrent, LoadIsCurrent,
                ReplaceIsCurrent, StoreFollows, Behind, NothingMissing,
                LookersListen, Publishing, At, Threads
  <1> QED
    BY <1>5, <1>6 DEF SettingsInv

\* When the listener knows the revision that is in Redis, its settings are those
\* of the table but for rows that are being published, however many web workers
\* save (a row at a time) and however often the listener restarts: the revision
\* is read before the rows and raised after them.
THEOREM StoreIsCurrentHolds == SettingsSpec => []StoreIsCurrent
  <1>1. SettingsInv /\ [SettingsNext]_<<mishapVars, settingsVars>> => SettingsInv'
    BY TypeStep, CalmBefore, CurrentStep DEF SettingsInv
  <1>2. SettingsInv => StoreIsCurrent
    BY DEF SettingsInv, Current, StoreFollows, StoreIsCurrent, Calm, Dirty
  <1> QED
    BY <1>1, <1>2, InitHolds, PTL DEF SettingsSpec
=============================================================================
