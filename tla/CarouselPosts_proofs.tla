------------------------ MODULE CarouselPosts_proofs ------------------------
(***************************************************************************)
(* Theorems about CarouselPosts, for every number of balloons, posts and   *)
(* repetitions, all settings and passports.                                *)
(***************************************************************************)
EXTENDS CarouselPosts, ReaderEvents_proofs

\* Which fields there are; what is in them does not matter here.
PostShape ==
  \E V : post \in [Posts -> [b : V, stage : V, sends : V, told : V]]

Fillings(V) == [post : V, size : V, owner : V, pass : V, full : V]
RowShape == \E V : rows \in Seq(Fillings(V))

\* Only an empty weight is answered, and with the passport that was taken.
TaskShape ==
  /\ task.pc \in {"decide", "answer"} => task.frame.type = "0x7a"
  /\ task.pc = "answer" => task.answer # NoAnswer /\ task.answer.pass = task.pass

Stored(p, pass) == \E i \in DOMAIN rows : rows[i].post = p /\ rows[i].pass = pass

Storing(p, pass) ==
  /\ task.pc = "store" /\ task.frame.type = "0x7a"
  /\ task.frame.post = p /\ task.pass = pass

Answering(p, answer) ==
  task.pc = "answer" /\ task.frame.post = p /\ task.answer = answer

ToldIsStored ==
  \A p \in Posts : LET told == post[p].told IN
    told # NoAnswer => Stored(p, told.pass) \/ Storing(p, told.pass)

\* An answer in the cache of a task that runs will be stored, if it is not
\* yet; a task that has failed forgets its cache before it reads again.
CachedIsStored ==
  task.pc # "down" =>
    \A e \in cache : e.answer # NoAnswer =>
      \/ Stored(e.post, e.answer.pass) \/ Storing(e.post, e.answer.pass)
      \/ Answering(e.post, e.answer)

Intact == mishaps \cap {"killed", "database"} = {}

RecordInv ==
  /\ PostShape /\ RowShape /\ TaskShape
  /\ Intact => ToldIsStored /\ CachedIsStored

-----------------------------------------------------------------------------
LEMMA ToldStep ==
  ASSUME PostShape, NEW p, NEW answer, post' = Told(p, answer)
  PROVE  /\ PostShape'
         /\ \A q \in Posts : \/ post'[q].told = post[q].told
                             \/ q = p /\ post'[q].told = answer
  <1>1. PICK V : post \in [Posts -> [b : V, stage : V, sends : V, told : V]]
    BY DEF PostShape
  <1> DEFINE W == V \cup {answer}
  <1>2. post \in [Posts -> [b : W, stage : W, sends : W, told : W]] /\ answer \in W
    BY <1>1
  <1> HIDE DEF W
  <1>3. CASE post' = post
    BY <1>3 DEF PostShape
  <1>4. CASE post' = [post EXCEPT ![p].told = answer]
    <2>1. post' \in [Posts -> [b : W, stage : W, sends : W, told : W]]
      BY <1>2, <1>4
    <2>2. \A q \in Posts : \/ post'[q].told = post[q].told
                           \/ q = p /\ post'[q].told = answer
      BY <1>2, <1>4
    <2> QED
      BY <2>1, <2>2 DEF PostShape
  <1> QED
    BY <1>3, <1>4 DEF Told

\* What posts and belt do: an answer is heard from the listener only.
LEMMA PostStepTold ==
  ASSUME PostShape, NEW p \in Posts, PostStep(p)
  PROVE  /\ PostShape' /\ cache' \subseteq cache /\ UNCHANGED <<task, rows>>
         /\ \A q \in Posts : post'[q].told \in {post[q].told, NoAnswer}
  <1>1. PICK V : post \in [Posts -> [b : V, stage : V, sends : V, told : V]]
    BY DEF PostShape
  <1>2. cache' \subseteq cache /\ UNCHANGED <<task, rows>>
    BY DEF PostStep, Land, SendEmpty, SendFull, Send, Fill, Leave, Forget
  <1>3. ASSUME NEW row, post' = [post EXCEPT ![p] = row], NEW W,
               row \in [b : W, stage : W, sends : W, told : W],
               row.told \in {post[p].told, NoAnswer}
        PROVE  /\ PostShape'
               /\ \A q \in Posts : post'[q].told \in {post[q].told, NoAnswer}
    <2> DEFINE U == V \cup W
    <2>1. /\ post \in [Posts -> [b : U, stage : U, sends : U, told : U]]
          /\ row \in [b : U, stage : U, sends : U, told : U]
      BY <1>1, <1>3
    <2> HIDE DEF U
    <2>2. post' \in [Posts -> [b : U, stage : U, sends : U, told : U]]
      BY <1>3, <2>1
    <2>3. \A q \in Posts : post'[q].told \in {post[q].told, NoAnswer}
      BY <1>1, <1>3
    <2> QED
      BY <2>2, <2>3 DEF PostShape
  <1>4. post[p] \in [b : V, stage : V, sends : V, told : V]
    BY <1>1
  <1>5. CASE post' = post
    BY <1>1, <1>2, <1>5 DEF PostShape
  <1>6. CASE Leave(p)
    <2>1. post' = [post EXCEPT ![p] = Free] /\ Free.told = NoAnswer
      BY <1>6 DEF Leave, Free
    <2> DEFINE W == {0, "free", NoAnswer}
    <2>2. Free \in [b : W, stage : W, sends : W, told : W]
      BY DEF Free
    <2>3. Free.told \in {post[p].told, NoAnswer}
      BY <2>1
    <2> HIDE DEF W
    <2> QED
      BY <1>2, <1>3, <2>1, <2>2, <2>3
  <1>7. CASE Land(p) /\ post' # post
    <2> DEFINE row == [post[p] EXCEPT !.b = landed', !.stage = "empty"]
               W == V \cup {landed', "empty"}
    <2>1. post' = [post EXCEPT ![p] = row]
      BY <1>7 DEF Land
    <2>2. row \in [b : W, stage : W, sends : W, told : W] /\ row.told = post[p].told
      BY <1>4
    <2> QED
      BY <1>2, <1>3, <2>1, <2>2
  <1>8. CASE SendEmpty(p) \/ SendFull(p)
    <2> DEFINE row == [post[p] EXCEPT !.sends = @ + 1]
               W == V \cup {post[p].sends + 1}
    <2>1. post' = [post EXCEPT ![p] = row]
      BY <1>8 DEF SendEmpty, SendFull, Send
    <2>2. row \in [b : W, stage : W, sends : W, told : W] /\ row.told = post[p].told
      BY <1>4
    <2> QED
      BY <1>2, <1>3, <2>1, <2>2
  <1>9. CASE Fill(p)
    <2> DEFINE row == [post[p] EXCEPT !.stage = "full", !.sends = 0]
               W == V \cup {"full", 0}
    <2>1. post' = [post EXCEPT ![p] = row]
      BY <1>9 DEF Fill
    <2>2. row \in [b : W, stage : W, sends : W, told : W] /\ row.told = post[p].told
      BY <1>4
    <2> QED
      BY <1>2, <1>3, <2>1, <2>2
  <1> QED
    BY <1>2, <1>5, <1>6, <1>7, <1>8, <1>9 DEF PostStep

\* A row keeps its post and its passport.
LEMMA StoreStep ==
  ASSUME RowShape, task.pc = "store",
         rows' \in ProcessCarouselData(task.frame, task.pass)
  PROVE  /\ RowShape'
         /\ \A p, pass : Stored(p, pass) => Stored(p, pass)'
         /\ \A p, pass : Storing(p, pass) => Stored(p, pass)'
  <1>1. PICK V : rows \in Seq(Fillings(V))
    BY DEF RowShape
  <1>2. CASE task.frame.type = "0x7a"
    <2> DEFINE row == NewRow(task.frame, task.pass)
               W == V \cup {row.post, row.size, row.owner, row.pass, row.full}
    <2>1. rows' = Append(rows, row)
      BY <1>2 DEF ProcessCarouselData
    <2>2. row.post = task.frame.post /\ row.pass = task.pass
      BY DEF NewRow
    <2>3. row \in Fillings(W)
      BY DEF NewRow, Fillings
    <2>4. Fillings(V) \subseteq Fillings(W)
      BY DEF Fillings
    <2> HIDE DEF row, W
    <2>5. rows \in Seq(Fillings(W))
      BY <1>1, <2>4
    <2>6. /\ Append(rows, row) \in Seq(Fillings(W))
          /\ Len(Append(rows, row)) = Len(rows) + 1
          /\ \A i \in 1 .. Len(rows) : Append(rows, row)[i] = rows[i]
          /\ Append(rows, row)[Len(rows) + 1] = row
      BY <2>3, <2>5, AppendProperties
    <2>7. /\ Len(rows) \in Nat /\ DOMAIN rows = 1 .. Len(rows)
          /\ DOMAIN rows' = 1 .. Len(rows) + 1
      BY <2>1, <2>5, <2>6
    <2>8. RowShape'
      BY <2>1, <2>6 DEF RowShape
    <2>9. \A i \in DOMAIN rows : i \in DOMAIN rows' /\ rows'[i] = rows[i]
      BY <2>1, <2>6, <2>7
    <2>10. Len(rows) + 1 \in DOMAIN rows' /\ rows'[Len(rows) + 1] = row
      BY <2>1, <2>6, <2>7
    <2>11. \A p, pass : Stored(p, pass) => Stored(p, pass)'
      BY <2>9 DEF Stored
    <2>12. \A p, pass : Storing(p, pass) => Stored(p, pass)'
      BY <2>2, <2>10 DEF Stored, Storing
    <2> QED
      BY <2>8, <2>11, <2>12
  <1>3. CASE task.frame.type # "0x7a"
    <2> DEFINE k == LastOf(task.frame.post)
               x == task.frame.b
               W == V \cup {x}
    <2>1. rows' = [rows EXCEPT ![k].full = x]
      BY <1>3 DEF ProcessCarouselData
    <2> HIDE DEF k, x
    <2>2. rows \in [1 .. Len(rows) -> Fillings(V)] /\ Len(rows) \in Nat
          /\ DOMAIN rows = 1 .. Len(rows)
      BY <1>1
    <2>3. \A i \in DOMAIN rows :
            /\ [rows[i] EXCEPT !.full = x] \in Fillings(W) /\ rows[i] \in Fillings(W)
            /\ [rows[i] EXCEPT !.full = x].post = rows[i].post
            /\ [rows[i] EXCEPT !.full = x].pass = rows[i].pass
      BY <2>2 DEF Fillings
    <2> HIDE DEF W
    <2>4. /\ DOMAIN rows' = 1 .. Len(rows)
          /\ \A i \in DOMAIN rows :
               rows'[i] \in {rows[i], [rows[i] EXCEPT !.full = x]}
      BY <2>1, <2>2
    <2>5. rows' \in [1 .. Len(rows) -> Fillings(W)]
      BY <2>1, <2>2, <2>3, <2>4
    <2>6. RowShape'
      BY <2>2, <2>5 DEF RowShape
    <2>7. \A i \in DOMAIN rows : /\ i \in DOMAIN rows'
                                 /\ rows'[i].post = rows[i].post
                                 /\ rows'[i].pass = rows[i].pass
      BY <2>2, <2>3, <2>4
    <2>8. \A p, pass : Stored(p, pass) => Stored(p, pass)'
      BY <2>7 DEF Stored
    <2>9. \A p, pass : ~Storing(p, pass)
      BY <1>3 DEF Storing
    <2> QED
      BY <2>6, <2>8, <2>9
  <1> QED
    BY <1>2, <1>3

-----------------------------------------------------------------------------
\* A step that takes nothing from the rows, and leaves the task or lets it
\* forget what it had.
LEMMA NothingNew ==
  ASSUME RecordInv, UNCHANGED <<mishaps, task, rows>>, cache' \subseteq cache,
         PostShape', \A q \in Posts : post'[q].told \in {post[q].told, NoAnswer}
  PROVE  RecordInv'
  <1>1. RowShape' /\ TaskShape' /\ Intact' = Intact
    BY DEF RecordInv, RowShape, TaskShape, Intact
  <1>2. /\ \A p, pass : Stored(p, pass)' = Stored(p, pass)
        /\ \A p, pass : Storing(p, pass)' = Storing(p, pass)
        /\ \A p, answer : Answering(p, answer)' = Answering(p, answer)
    BY DEF Stored, Storing, Answering
  <1>3. ToldIsStored => ToldIsStored'
    BY <1>2 DEF ToldIsStored
  <1>4. CachedIsStored => CachedIsStored'
    BY <1>2 DEF CachedIsStored
  <1> QED
    BY <1>1, <1>3, <1>4 DEF RecordInv

LEMMA TaskStep ==
  ASSUME RecordInv, UNCHANGED <<mishaps, post, rows>>, TaskShape',
         task.pc # "store" \/ ~Intact,
         Intact => CachedIsStored'
  PROVE  RecordInv'
  <1>1. PostShape' /\ RowShape' /\ Intact' = Intact
    BY DEF RecordInv, PostShape, RowShape, Intact
  <1>2. \A p, pass : Stored(p, pass)' = Stored(p, pass)
    BY DEF Stored
  <1>3. Intact => \A p, pass : ~Storing(p, pass)
    BY DEF Storing
  <1>4. Intact /\ ToldIsStored => ToldIsStored'
    BY <1>2, <1>3 DEF ToldIsStored
  <1> QED
    BY <1>1, <1>4 DEF RecordInv

LEMMA ConnectRecords ==
  ASSUME RecordInv, mishaps' = mishaps, Connect
  PROVE  RecordInv'
  <1>1. task.pc = "down" /\ task' = [pc |-> "read"] /\ cache' = {}
        /\ UNCHANGED <<post, rows>>
    BY DEF Connect, Reading
  <1>2. TaskShape' /\ CachedIsStored'
    BY <1>1 DEF TaskShape, CachedIsStored
  <1> QED
    BY <1>1, <1>2, TaskStep

LEMMA BreakRecords ==
  ASSUME RecordInv, mishaps' = mishaps, Break
  PROVE  RecordInv'
  <1>1. task' = [pc |-> "down"] /\ UNCHANGED <<post, rows>>
        /\ (task.pc = "read" \/ ~Intact)
    BY DEF Break, Down, Intact
  <1>2. TaskShape' /\ CachedIsStored'
    BY <1>1 DEF TaskShape, CachedIsStored
  <1> QED
    BY <1>1, <1>2, TaskStep

LEMMA DecideRecords ==
  ASSUME RecordInv, mishaps' = mishaps, Decide
  PROVE  RecordInv'
  <1>1. task.pc = "decide" /\ task.frame.type = "0x7a" /\ UNCHANGED <<post, rows>>
    BY DEF Decide, RecordInv, TaskShape
  <1>2. \A p, pass : Stored(p, pass)' = Stored(p, pass) /\ ~Storing(p, pass)
    BY <1>1 DEF Stored, Storing
  <1>3. \A p, answer : ~Answering(p, answer)
    BY <1>1 DEF Answering
  <1>4. ASSUME NEW answer, cache' = CacheResult(task.frame, answer),
               answer = NoAnswer \/ answer.pass = task.pass,
               task' = [pc |-> IF answer = NoAnswer THEN "store" ELSE "answer",
                        frame |-> task.frame, pass |-> task.pass, answer |-> answer]
        PROVE  TaskShape' /\ (Intact => CachedIsStored')
    <2>1. TaskShape'
      BY <1>1, <1>4 DEF TaskShape
    <2>2. answer # NoAnswer => Answering(task.frame.post, answer)'
      BY <1>4 DEF Answering
    <2>3. ASSUME NEW e \in cache', e.answer # NoAnswer, CachedIsStored
          PROVE  \/ Stored(e.post, e.answer.pass)'
                 \/ Answering(e.post, e.answer)'
      <3>1. CASE e \in cache
        BY <1>1, <1>2, <1>3, <2>3, <3>1 DEF CachedIsStored
      <3>2. CASE e \notin cache
        <4>1. e.post = task.frame.post /\ e.answer = answer
          BY <1>4, <3>2 DEF CacheResult
        <4> QED
          BY <1>4, <2>3, <4>1 DEF Answering
      <3> QED
        BY <3>1, <3>2
    <2> QED
      BY <2>1, <2>3 DEF CachedIsStored, RecordInv
  <1>5. CASE task' = Down
    BY <1>1, <1>5, TaskStep DEF TaskShape, CachedIsStored, Down
  <1>6. CASE task' # Down
    <2>1. PICK answer :
            /\ cache' = CacheResult(task.frame, answer)
            /\ answer = NoAnswer \/ answer.pass = task.pass
            /\ task' = [pc |-> IF answer = NoAnswer THEN "store" ELSE "answer",
                        frame |-> task.frame, pass |-> task.pass, answer |-> answer]
      BY <1>6 DEF Decide, BuildResponsePacket
    <2>2. TaskShape' /\ (Intact => CachedIsStored')
      BY <1>4, <2>1
    <2> QED
      BY <1>1, <2>2, TaskStep
  <1> QED
    BY <1>5, <1>6

LEMMA ReadRecords ==
  ASSUME RecordInv, mishaps' = mishaps, Read
  PROVE  RecordInv'
  <1>1. task.pc = "read" /\ rows' = rows
    BY DEF Read
  <1>2. /\ \A p, pass : Stored(p, pass)' = Stored(p, pass) /\ ~Storing(p, pass)
        /\ \A p, answer : ~Answering(p, answer)
    BY <1>1 DEF Stored, Storing, Answering
  <1>3. ASSUME NEW e \in cache, e.post = Head(wire).post,
               post' = Told(Head(wire).post, e.answer), UNCHANGED <<task, cache>>
        PROVE  RecordInv'
    <2>1. /\ PostShape'
          /\ \A q \in Posts : \/ post'[q].told = post[q].told
                              \/ q = e.post /\ post'[q].told = e.answer
      BY <1>3, ToldStep DEF RecordInv
    <2>2. RowShape' /\ TaskShape' /\ Intact' = Intact
      BY <1>1, <1>3 DEF RecordInv, RowShape, TaskShape, Intact
    <2>3. Intact => \A d \in cache : d.answer # NoAnswer => Stored(d.post, d.answer.pass)
      BY <1>1, <1>2 DEF RecordInv, CachedIsStored
    <2>4. Intact => CachedIsStored'
      BY <1>2, <1>3, <2>3 DEF CachedIsStored
    <2>5. Intact => ToldIsStored'
      BY <1>2, <1>3, <2>1, <2>3 DEF RecordInv, ToldIsStored
    <2> QED
      BY <2>1, <2>2, <2>4, <2>5 DEF RecordInv
  <1>4. ASSUME cache' = cache \/ cache' = CacheResult(Head(wire), NoAnswer),
               post' = post, task'.pc \in {"decide", "store"},
               task'.pc = "decide" => task'.frame.type = "0x7a"
        PROVE  RecordInv'
    <2>1. TaskShape'
      BY <1>4 DEF TaskShape
    <2>2. \A e \in cache' : e.answer # NoAnswer => e \in cache
      BY <1>4 DEF CacheResult
    <2>3. Intact => CachedIsStored'
      BY <1>1, <1>2, <2>2 DEF RecordInv, CachedIsStored
    <2> QED
      BY <1>1, <1>4, <2>1, <2>3, TaskStep
  <1>5. CASE \E e \in Cached(Head(wire)) : /\ post' = Told(Head(wire).post, e.answer)
                                           /\ UNCHANGED <<task, cache>>
    BY <1>3, <1>5 DEF Cached
  <1>6. CASE /\ cache' = CacheResult(Head(wire), NoAnswer) /\ post' = post
             /\ task' = [pc |-> "store", frame |-> Head(wire), pass |-> 0]
    BY <1>4, <1>6
  <1>7. CASE /\ Head(wire).type = "0x7a" /\ UNCHANGED <<post, cache>>
             /\ TakePassport(Head(wire))
    BY <1>4, <1>7 DEF TakePassport
  <1> QED
    BY <1>5, <1>6, <1>7 DEF Read

LEMMA AnswerRecords ==
  ASSUME RecordInv, mishaps' = mishaps, Answer
  PROVE  RecordInv'
  <1>1. /\ task.pc = "answer" /\ task.frame.type = "0x7a"
        /\ task.answer.pass = task.pass /\ UNCHANGED <<cache, rows>>
    BY DEF Answer, RecordInv, TaskShape
  <1>2. CASE task' = Down /\ post' = post
    BY <1>1, <1>2, TaskStep DEF TaskShape, CachedIsStored, Down
  <1>3. CASE /\ post' = Told(task.frame.post, task.answer)
             /\ task' = [pc |-> "store", frame |-> task.frame, pass |-> task.pass]
    <2>1. /\ PostShape'
          /\ \A q \in Posts : \/ post'[q].told = post[q].told
                              \/ q = task.frame.post /\ post'[q].told = task.answer
      BY <1>3, ToldStep DEF RecordInv
    <2>2. RowShape' /\ TaskShape' /\ Intact' = Intact
      BY <1>1, <1>3 DEF RecordInv, RowShape, TaskShape, Intact
    <2>3. \A p, pass : Stored(p, pass)' = Stored(p, pass) /\ ~Storing(p, pass)
      BY <1>1, <1>3 DEF Stored, Storing
    <2>4. \A p, pass : p = task.frame.post /\ pass = task.answer.pass
                         => Storing(p, pass)'
      BY <1>1, <1>3 DEF Storing
    <2>5. ToldIsStored => ToldIsStored'
      BY <2>1, <2>3, <2>4 DEF ToldIsStored
    <2>6. CachedIsStored => CachedIsStored'
      BY <1>1, <2>3, <2>4 DEF CachedIsStored, Answering
    <2> QED
      BY <2>1, <2>2, <2>5, <2>6 DEF RecordInv
  <1> QED
    BY <1>2, <1>3 DEF Answer

LEMMA StoreRecords ==
  ASSUME RecordInv, mishaps' = mishaps, Store
  PROVE  RecordInv'
  <1>1. /\ task.pc = "store" /\ task' = [pc |-> "read"] /\ UNCHANGED <<post, cache>>
    BY DEF Store, Reading
  <1>2. PostShape' /\ TaskShape' /\ Intact' = Intact
    BY <1>1 DEF RecordInv, PostShape, TaskShape, Intact
  <1>3. \A p, answer : ~Answering(p, answer)
    BY <1>1 DEF Answering
  <1>4. ASSUME RowShape', Intact => \A p, pass : Stored(p, pass) \/ Storing(p, pass)
                                                  => Stored(p, pass)'
        PROVE  RecordInv'
    <2>1. Intact /\ ToldIsStored => ToldIsStored'
      BY <1>1, <1>4 DEF ToldIsStored
    <2>2. Intact /\ CachedIsStored => CachedIsStored'
      BY <1>1, <1>3, <1>4 DEF CachedIsStored
    <2> QED
      BY <1>2, <1>4, <2>1, <2>2 DEF RecordInv
  <1>5. CASE rows' \in ProcessCarouselData(task.frame, task.pass)
    BY <1>1, <1>4, <1>5, StoreStep DEF RecordInv
  <1>6. CASE /\ rows' = rows
             /\ "database" \in mishaps \/ ProcessCarouselData(task.frame, task.pass) = {}
    <2>1. RowShape'
      BY <1>6 DEF RecordInv, RowShape
    <2>2. Intact => task.frame.type # "0x7a"
      BY <1>6 DEF Intact, ProcessCarouselData
    <2>3. Intact => \A p, pass : Stored(p, pass) \/ Storing(p, pass) => Stored(p, pass)'
      BY <1>6, <2>2 DEF Stored, Storing
    <2> QED
      BY <1>4, <2>1, <2>3
  <1> QED
    BY <1>5, <1>6 DEF Store

-----------------------------------------------------------------------------
\* A post that fills to the weight of a passport has a row with it, for every
\* number of posts, balloons and repetitions, every setting, and whatever
\* becomes of connections, frames and readers.
THEOREM AnswerIsRecordedHolds == Spec => []AnswerIsRecorded
  <1>1. Init => RecordInv
    <2> SUFFICES ASSUME Init PROVE RecordInv
      OBVIOUS
    <2>1. /\ post = [p \in Posts |-> Free] /\ task = [pc |-> "read"]
          /\ cache = {} /\ rows = <<>>
      BY DEF Init, Reading
    <2> DEFINE V == {0, "free", NoAnswer}
    <2>2. Free \in [b : V, stage : V, sends : V, told : V] /\ Free.told = NoAnswer
      BY DEF Free
    <2>3. post \in [Posts -> [b : V, stage : V, sends : V, told : V]]
      BY <2>1, <2>2
    <2>4. PostShape
      BY <2>3 DEF PostShape
    <2>5. RowShape
      BY <2>1 DEF RowShape
    <2>6. TaskShape /\ CachedIsStored
      BY <2>1 DEF TaskShape, CachedIsStored
    <2>7. ToldIsStored
      BY <2>1, <2>2 DEF ToldIsStored
    <2> QED
      BY <2>4, <2>5, <2>6, <2>7 DEF RecordInv
  <1>2. RecordInv /\ [Next]_vars => RecordInv'
    <2> SUFFICES ASSUME RecordInv, [Next]_vars PROVE RecordInv'
      OBVIOUS
    <2>1. ASSUME UNCHANGED <<mishaps, post, task, rows>>, cache' \subseteq cache
          PROVE  RecordInv'
      <3>1. PostShape'
        BY <2>1 DEF RecordInv, PostShape
      <3> QED
        BY <2>1, <3>1, NothingNew
    <2>2. CASE UNCHANGED vars
      BY <2>1, <2>2 DEF vars, postVars
    <2>3. CASE Next
      <3>1. mishaps' = mishaps
        BY <2>3 DEF Next
      <3>2. CASE UNCHANGED postVars
        BY <2>1, <3>1, <3>2 DEF postVars
      <3>3. CASE Listen
        BY <3>1, <3>3, ConnectRecords, DecideRecords, AnswerRecords, StoreRecords
           DEF Listen
      <3>4. ASSUME NEW p \in Posts, PostStep(p) PROVE RecordInv'
        <4>1. /\ PostShape' /\ cache' \subseteq cache /\ UNCHANGED <<task, rows>>
              /\ \A q \in Posts : post'[q].told \in {post[q].told, NoAnswer}
          BY <3>4, PostStepTold DEF RecordInv
        <4> QED
          BY <3>1, <4>1, NothingNew
      <3>5. CASE Read
        BY <3>1, <3>5, ReadRecords
      <3>6. CASE Expire
        <4>1. UNCHANGED <<post, task, rows>> /\ cache' \subseteq cache
          BY <3>6 DEF Expire
        <4> QED
          BY <2>1, <3>1, <4>1
      <3>7. CASE Break
        BY <3>1, <3>7, BreakRecords
      <3> QED
        BY <2>3, <3>2, <3>3, <3>4, <3>5, <3>6, <3>7 DEF Next
    <2> QED
      BY <2>2, <2>3
  <1>3. RecordInv => AnswerIsRecorded
    BY DEF RecordInv, Intact, ToldIsStored, Stored, Storing, AnswerIsRecorded
  <1> QED
    BY <1>1, <1>2, <1>3, PTL DEF Spec

-----------------------------------------------------------------------------
(***************************************************************************)
(* Types, and the reader's invariant in every step of the carousel.        *)
(***************************************************************************)
Posting == [b : Passes, stage : {"free", "empty", "full"}, sends : 0 .. MaxSends,
            told : Answers]
Tasks == {Down, Reading}
  \cup [pc : {"decide", "store"}, frame : Frames, pass : Passes]
  \cup [pc : {"answer", "store"}, frame : Frames, pass : Passes, answer : Answers]
Entries == [type : {"0x7a", "0x70"}, post : Posts, weight : Int, answer : Answers]
FillingRows == [post : Posts, size : {27, 50}, owner : Balloons, pass : Passes,
                full : Passes]

\* A post that is not free has a balloon.
PostShapes == \A p \in Posts :
  /\ post[p].stage = "free" => post[p] = Free
  /\ post[p].stage # "free" => post[p].b \in Balloons

BeltTypes ==
  /\ cfg \in Configs /\ landed \in 0 .. Last
  /\ post \in [Posts -> Posting] /\ PostShapes

ListenerTypes ==
  /\ wire \in Seq(Frames) /\ task \in Tasks /\ cache \subseteq Entries
  /\ rows \in Seq(FillingRows)

CarouselInv == ReaderInv /\ mishaps \in MishapSets /\ BeltTypes /\ ListenerTypes

LEMMA AnswersExist == NoAnswer \in Answers /\ Free \in Posting /\ Free.stage = "free"
  <1>1. 0 \in Passes
    BY ReaderBounds DEF Passes
  <1>2. NoAnswer \in Answers
    BY <1>1 DEF NoAnswer, Answers
  <1>3. 0 \in 0 .. MaxSends
    BY PostBounds
  <1> QED
    BY <1>1, <1>2, <1>3 DEF Free, Posting

\* What the task has while it is not reading.
LEMMA TaskFacts ==
  ASSUME ListenerTypes
  PROVE  /\ task.pc \in {"decide", "answer", "store"}
              => task.frame \in Frames /\ task.pass \in Passes
         /\ task.pc = "answer" => task.answer \in Answers
         /\ task.pc \in {"down", "read", "decide", "answer", "store"}
         /\ task.pc = "read" => task = Reading
         /\ task.pc = "down" => task = Down
  BY DEF ListenerTypes, Tasks, Down, Reading

\* One row of the table of posts changes.
LEMMA OnePost ==
  ASSUME BeltTypes, NEW p \in Posts, NEW row \in Posting,
         row.stage = "free" => row = Free,
         row.stage # "free" => row.b \in Balloons,
         post' = [post EXCEPT ![p] = row]
  PROVE  /\ post' \in [Posts -> Posting] /\ PostShapes'
         /\ post'[p] = row /\ \A q \in Posts : q # p => post'[q] = post[q]
  <1>1. post \in [Posts -> Posting]
    BY DEF BeltTypes
  <1>2. post' \in [Posts -> Posting]
    BY <1>1
  <1>3. post'[p] = row /\ \A q \in Posts : q # p => post'[q] = post[q]
    BY <1>1
  <1>4. PostShapes'
    BY <1>3 DEF BeltTypes, PostShapes
  <1> QED
    BY <1>2, <1>3, <1>4

LEMMA ToldTypes ==
  ASSUME BeltTypes, NEW p \in Posts, NEW answer \in Answers, post' = Told(p, answer)
  PROVE  /\ post' \in [Posts -> Posting] /\ PostShapes'
         /\ \A q \in Posts : /\ post'[q].b = post[q].b /\ post'[q].stage = post[q].stage
                             /\ post'[q].sends = post[q].sends
                             /\ post[q] = Free => post'[q] = Free
  <1>1. CASE post' = post
    BY <1>1 DEF BeltTypes, PostShapes
  <1>2. CASE post' = [post EXCEPT ![p].told = answer] /\ post[p].stage = "empty"
    <2> DEFINE row == [post[p] EXCEPT !.told = answer]
    <2>1. post[p] \in Posting /\ post[p].b \in Balloons
      BY <1>2 DEF BeltTypes, PostShapes
    <2>2. row \in Posting /\ row.stage = post[p].stage /\ row.b = post[p].b
          /\ row.sends = post[p].sends
      BY <2>1 DEF Posting
    <2>3. post' = [post EXCEPT ![p] = row]
      BY <1>2
    <2>4. post[p] # Free
      BY <1>2 DEF Free
    <2> HIDE DEF row
    <2>5. /\ post' \in [Posts -> Posting] /\ PostShapes'
          /\ post'[p] = row /\ \A q \in Posts : q # p => post'[q] = post[q]
      BY <1>2, <2>1, <2>2, <2>3, OnePost
    <2> QED
      BY <2>2, <2>4, <2>5
  <1> QED
    BY <1>1, <1>2 DEF Told

\* What each step of belt and posts does.
LEMMA LandTypes ==
  ASSUME CarouselInv, NEW p \in Posts, Land(p)
  PROVE  /\ landed' = landed + 1 /\ landed' \in Balloons
         /\ post' \in [Posts -> Posting] /\ PostShapes'
         /\ \/ post' = post
            \/ /\ post[p] = Free /\ post'[p].b = landed' /\ post'[p].stage = "empty"
               /\ post'[p].sends = 0
               /\ \A q \in Posts : q # p => post'[q] = post[q]
  <1>1. landed' = landed + 1 /\ landed' \in Balloons
    BY ReaderBounds DEF Land, CarouselInv, BeltTypes, ReaderInv, ReaderShape, ReaderTypeOK,
                        Balloons
  <1>2. CASE post' = post
    BY <1>1, <1>2 DEF CarouselInv, BeltTypes, PostShapes
  <1>3. CASE /\ post[p] = Free
             /\ post' = [post EXCEPT ![p].b = landed', ![p].stage = "empty"]
    <2> DEFINE row == [Free EXCEPT !.b = landed', !.stage = "empty"]
    <2>1. post' = [post EXCEPT ![p] = row]
      BY <1>3 DEF CarouselInv, BeltTypes
    <2>2. landed' \in Passes
      BY <1>1, ReaderBounds DEF Balloons, Passes
    <2>3. row \in Posting /\ row.b = landed' /\ row.stage = "empty" /\ row.sends = 0
      BY <2>2, AnswersExist DEF Posting, Free
    <2> HIDE DEF row
    <2>4. /\ post' \in [Posts -> Posting] /\ PostShapes'
          /\ post'[p] = row /\ \A q \in Posts : q # p => post'[q] = post[q]
      BY <1>1, <2>1, <2>3, OnePost DEF CarouselInv
    <2> QED
      BY <1>1, <1>3, <2>3, <2>4
  <1> QED
    BY <1>2, <1>3 DEF Land

LEMMA FrameTypes ==
  ASSUME BeltTypes, NEW p \in Posts, post[p].stage # "free", NEW type \in {"0x7a", "0x70"}
  PROVE  /\ Frame(p, type) \in Frames
         /\ Frame(p, type).post = p /\ Frame(p, type).b = post[p].b
         /\ Frame(p, type).type = type /\ Frame(p, type).weight = Weight[post[p].b]
  <1>1. post[p].b \in Balloons
    BY DEF BeltTypes, PostShapes
  <1>2. Weight[post[p].b] \in Int
    BY <1>1, WeightsAreNumbers
  <1> QED
    BY <1>1, <1>2 DEF Frame, Frames

LEMMA SendTypes ==
  ASSUME CarouselInv, NEW p \in Posts, SendEmpty(p) \/ SendFull(p)
  PROVE  /\ post' \in [Posts -> Posting] /\ PostShapes'
         /\ post[p].stage \in {"empty", "full"}
         /\ post'[p].b = post[p].b /\ post'[p].stage = post[p].stage
         /\ post'[p].sends > 0 /\ \A q \in Posts : q # p => post'[q] = post[q]
         /\ wire' \in Seq(Frames)
         /\ \/ /\ wire' = Append(wire, Frame(p, IF post[p].stage = "empty" THEN "0x7a"
                                                ELSE "0x70"))
               /\ task.pc # "down"
            \/ (task.pc = "down" \/ "garbled" \in mishaps) /\ wire' = wire
  <1> DEFINE type == IF post[p].stage = "empty" THEN "0x7a" ELSE "0x70"
             row == [post[p] EXCEPT !.sends = @ + 1]
  <1>1. /\ post[p].stage \in {"empty", "full"} /\ MaySend(p) /\ Send(p, type)
    BY DEF SendEmpty, SendFull
  <1>2. post[p] \in Posting
    BY DEF CarouselInv, BeltTypes
  <1>3. post[p].sends \in 0 .. MaxSends /\ post[p].sends + 1 \in 0 .. MaxSends
    BY <1>1, <1>2, PostBounds DEF MaySend, Posting
  <1>4. /\ row \in Posting /\ row.b = post[p].b /\ row.stage = post[p].stage
        /\ row.sends > 0
    BY <1>2, <1>3 DEF Posting
  <1>5. post' = [post EXCEPT ![p] = row]
    BY <1>1 DEF Send
  <1>6. post[p].b \in Balloons
    BY <1>1 DEF CarouselInv, BeltTypes, PostShapes
  <1>7. /\ \/ wire' = Append(wire, Frame(p, type)) /\ task.pc # "down"
           \/ (task.pc = "down" \/ "garbled" \in mishaps) /\ wire' = wire
    BY <1>1 DEF Send
  <1>8. Frame(p, type) \in Frames
    BY <1>1, FrameTypes DEF CarouselInv
  <1>9. wire \in Seq(Frames)
    BY DEF CarouselInv, ListenerTypes
  <1>10. wire' \in Seq(Frames)
    BY <1>7, <1>8, <1>9, Appended
  <1> HIDE DEF row
  <1>11. /\ post' \in [Posts -> Posting] /\ PostShapes'
         /\ post'[p] = row /\ \A q \in Posts : q # p => post'[q] = post[q]
    BY <1>1, <1>4, <1>5, <1>6, OnePost DEF CarouselInv
  <1> QED
    BY <1>1, <1>4, <1>7, <1>10, <1>11

LEMMA FillTypes ==
  ASSUME CarouselInv, NEW p \in Posts, Fill(p)
  PROVE  /\ post' \in [Posts -> Posting] /\ PostShapes'
         /\ post'[p].b = post[p].b /\ post'[p].stage = "full"
         /\ \A q \in Posts : q # p => post'[q] = post[q]
  <1> DEFINE row == [post[p] EXCEPT !.stage = "full", !.sends = 0]
  <1>1. post[p] \in Posting /\ post[p].b \in Balloons
    BY DEF CarouselInv, BeltTypes, PostShapes, Fill
  <1>2. row \in Posting /\ row.b = post[p].b /\ row.stage = "full"
    <2>1. 0 \in 0 .. MaxSends
      BY PostBounds
    <2> QED
      BY <1>1, <2>1 DEF Posting
  <1>3. post' = [post EXCEPT ![p] = row]
    BY DEF Fill
  <1> HIDE DEF row
  <1>4. /\ post' \in [Posts -> Posting] /\ PostShapes'
        /\ post'[p] = row /\ \A q \in Posts : q # p => post'[q] = post[q]
    BY <1>1, <1>2, <1>3, OnePost DEF CarouselInv
  <1> QED
    BY <1>2, <1>4

LEMMA LeaveTypes ==
  ASSUME CarouselInv, NEW p \in Posts, Leave(p)
  PROVE  /\ post' \in [Posts -> Posting] /\ PostShapes'
         /\ post'[p] = Free /\ \A q \in Posts : q # p => post'[q] = post[q]
  BY AnswersExist, OnePost DEF CarouselInv, Leave

\* What each step of the listener does.
LEMMA CacheTypes ==
  ASSUME ListenerTypes, NEW f \in Frames, NEW answer \in Answers
  PROVE  CacheResult(f, answer) \subseteq Entries
  BY DEF ListenerTypes, CacheResult, Frames, Entries

LEMMA ReadTypes ==
  ASSUME CarouselInv, Read
  PROVE  /\ wire # <<>> /\ Head(wire) \in Frames
         /\ wire' = Tail(wire) /\ wire' \in Seq(Frames)
         /\ task' \in Tasks /\ cache' \subseteq Entries
         /\ post' \in [Posts -> Posting] /\ PostShapes'
         /\ \A q \in Posts : /\ post'[q].b = post[q].b /\ post'[q].stage = post[q].stage
                             /\ post'[q].sends = post[q].sends
                             /\ post[q] = Free => post'[q] = Free
         /\ task.pc = "read" /\ UNCHANGED <<cfg, landed, rows>>
         /\ \/ Cached(Head(wire)) # {} /\ UNCHANGED <<task, cache, queue>>
            \/ /\ Cached(Head(wire)) = {} /\ Head(wire).type = "0x70"
               /\ cache' = CacheResult(Head(wire), NoAnswer) /\ queue' = queue
               /\ task' = [pc |-> "store", frame |-> Head(wire), pass |-> 0]
            \/ /\ Cached(Head(wire)) = {} /\ Head(wire).type = "0x7a"
               /\ cache' = cache /\ task'.pc = "decide" /\ task'.frame = Head(wire)
               /\ \/ queue # <<>> /\ queue' = Tail(queue) /\ task'.pass = Head(queue)
                  \/ queue' = queue /\ task'.pass = 0
  <1> DEFINE f == Head(wire)
  <1>1. wire # <<>> /\ task.pc = "read" /\ wire' = Tail(wire)
        /\ UNCHANGED <<cfg, landed, rows>>
    BY DEF Read
  <1>2. wire \in Seq(Frames) /\ cache \subseteq Entries /\ task \in Tasks
    BY DEF CarouselInv, ListenerTypes
  <1>3. f \in Frames /\ wire' \in Seq(Frames)
    BY <1>1, <1>2, Shortened
  <1>4. /\ post \in [Posts -> Posting] /\ PostShapes /\ f.post \in Posts
    BY <1>3 DEF CarouselInv, BeltTypes, Frames
  <1>5. 0 \in Passes /\ Balloons \subseteq Passes
    BY ReaderBounds DEF Passes, Balloons
  <1>6. post' = post => post' \in [Posts -> Posting] /\ PostShapes'
    BY <1>4 DEF PostShapes
  <1>7. CASE \E e \in Cached(f) : post' = Told(f.post, e.answer)
                                   /\ UNCHANGED <<task, cache, queue>>
    <2>1. PICK e \in Cached(f) : post' = Told(f.post, e.answer)
      BY <1>7
    <2>2. e.answer \in Answers
      BY <1>2 DEF Cached, Entries
    <2>3. /\ post' \in [Posts -> Posting] /\ PostShapes'
          /\ \A q \in Posts : /\ post'[q].b = post[q].b /\ post'[q].stage = post[q].stage
                              /\ post'[q].sends = post[q].sends
                              /\ post[q] = Free => post'[q] = Free
      BY <1>4, <2>1, <2>2, ToldTypes DEF CarouselInv
    <2> QED
      BY <1>1, <1>2, <1>3, <1>7, <2>3
  <1>8. CASE /\ Cached(f) = {} /\ f.type = "0x70"
             /\ cache' = CacheResult(f, NoAnswer) /\ UNCHANGED <<post, queue>>
             /\ task' = [pc |-> "store", frame |-> f, pass |-> 0]
    <2>1. cache' \subseteq Entries
      BY <1>3, <1>8, AnswersExist, CacheTypes DEF CarouselInv
    <2>2. task' \in Tasks
      BY <1>3, <1>5, <1>8 DEF Tasks
    <2> QED
      BY <1>1, <1>3, <1>6, <1>8, <2>1, <2>2
  <1>9. CASE /\ Cached(f) = {} /\ f.type = "0x7a"
             /\ TakePassport(f) /\ UNCHANGED <<post, cache>>
    <2>1. PICK pass \in Passes :
            /\ task' = [pc |-> "decide", frame |-> f, pass |-> pass]
            /\ \/ queue # <<>> /\ queue' = Tail(queue) /\ pass = Head(queue)
               \/ queue' = queue /\ pass = 0
      <3>1. CASE queue # <<>> /\ queue' = Tail(queue)
                 /\ task' = [pc |-> "decide", frame |-> f, pass |-> Head(queue)]
        <4>1. queue \in Seq(Balloons)
          BY DEF CarouselInv, ReaderInv, ReaderShape, ReaderTypeOK
        <4>2. Head(queue) \in Passes
          BY <1>5, <3>1, <4>1, Shortened
        <4> QED
          BY <3>1, <4>2
      <3>2. CASE queue' = queue /\ task' = [pc |-> "decide", frame |-> f, pass |-> 0]
        BY <1>5, <3>2
      <3> QED
        BY <1>9, <3>1, <3>2 DEF TakePassport
    <2>2. task' \in Tasks
      BY <1>3, <2>1 DEF Tasks
    <2>3. task'.pc = "decide" /\ task'.frame = f /\ task'.pass = pass
      BY <2>1
    <2> QED
      BY <1>1, <1>2, <1>3, <1>6, <1>9, <2>1, <2>2, <2>3
  <1> QED
    BY <1>7, <1>8, <1>9 DEF Read

LEMMA DecideTypes ==
  ASSUME CarouselInv, Decide
  PROVE  /\ task.pc = "decide" /\ task.frame \in Frames /\ task' \in Tasks
         /\ cache' \subseteq Entries /\ UNCHANGED <<cfg, landed, post, wire, rows>>
         /\ \/ /\ task'.pc \in {"answer", "store"} /\ task'.frame = task.frame
               /\ task'.pass = task.pass
               /\ \E answer \in Answers : cache' = CacheResult(task.frame, answer)
            \/ /\ task' = Down /\ cache' = cache
               /\ \E g \in RequestProcessing(task.pass, task.frame.post) :
                    BuildResponsePacket(task.pass, g) = {}
  <1>1. /\ task.pc = "decide" /\ task.frame \in Frames /\ task.pass \in Passes
        /\ cache \subseteq Entries /\ UNCHANGED <<cfg, landed, post, wire, rows>>
    BY TaskFacts DEF CarouselInv, ListenerTypes, Decide
  <1>2. ASSUME NEW answer \in Answers, cache' = CacheResult(task.frame, answer),
               task' = [pc |-> IF answer = NoAnswer THEN "store" ELSE "answer",
                        frame |-> task.frame, pass |-> task.pass, answer |-> answer]
        PROVE  /\ task' \in Tasks /\ cache' \subseteq Entries
               /\ task'.pc \in {"answer", "store"} /\ task'.frame = task.frame
               /\ task'.pass = task.pass
    <2>1. cache' \subseteq Entries
      BY <1>1, <1>2, CacheTypes DEF CarouselInv
    <2>2. task' \in [pc : {"answer", "store"}, frame : Frames, pass : Passes,
                     answer : Answers]
      BY <1>1, <1>2
    <2> QED
      BY <1>2, <2>1, <2>2 DEF Tasks
  <1>3. ASSUME NEW g, NEW answer \in BuildResponsePacket(task.pass, g)
        PROVE  answer \in Answers
    BY <1>1, <1>3 DEF BuildResponsePacket, Answers
  <1>4. CASE task' = Down /\ cache' = cache
             /\ \E g \in RequestProcessing(task.pass, task.frame.post) :
                  BuildResponsePacket(task.pass, g) = {}
    BY <1>1, <1>4 DEF Tasks
  <1>5. CASE \E answer \in Answers :
               /\ cache' = CacheResult(task.frame, answer)
               /\ task' = [pc |-> IF answer = NoAnswer THEN "store" ELSE "answer",
                           frame |-> task.frame, pass |-> task.pass, answer |-> answer]
    BY <1>1, <1>2, <1>5
  <1> QED
    BY <1>3, <1>4, <1>5, AnswersExist DEF Decide

LEMMA AnswerTypes ==
  ASSUME CarouselInv, Answer
  PROVE  /\ task.pc = "answer" /\ task.frame \in Frames /\ task' \in Tasks
         /\ post' \in [Posts -> Posting] /\ PostShapes'
         /\ \A q \in Posts : /\ post'[q].b = post[q].b /\ post'[q].stage = post[q].stage
                             /\ post'[q].sends = post[q].sends
                             /\ post[q] = Free => post'[q] = Free
         /\ UNCHANGED <<cfg, landed, wire, cache, rows>>
         /\ \/ task' = Down /\ "broken" \in mishaps
            \/ task' = [pc |-> "store", frame |-> task.frame, pass |-> task.pass]
  <1>1. /\ task.pc = "answer" /\ task.frame \in Frames /\ task.pass \in Passes
        /\ task.answer \in Answers /\ UNCHANGED <<cfg, landed, wire, cache, rows>>
    BY TaskFacts DEF CarouselInv, Answer
  <1>2. task.frame.post \in Posts
    BY <1>1 DEF Frames
  <1>3. CASE task' = Down /\ "broken" \in mishaps /\ post' = post
    BY <1>1, <1>3 DEF CarouselInv, BeltTypes, PostShapes, Tasks
  <1>4. CASE /\ post' = Told(task.frame.post, task.answer)
             /\ task' = [pc |-> "store", frame |-> task.frame, pass |-> task.pass]
    <2>1. /\ post' \in [Posts -> Posting] /\ PostShapes'
          /\ \A q \in Posts : /\ post'[q].b = post[q].b /\ post'[q].stage = post[q].stage
                              /\ post'[q].sends = post[q].sends
                              /\ post[q] = Free => post'[q] = Free
      BY <1>1, <1>2, <1>4, ToldTypes DEF CarouselInv
    <2>2. task' \in Tasks
      BY <1>1, <1>4 DEF Tasks
    <2> QED
      BY <1>1, <1>4, <2>1, <2>2
  <1> QED
    BY <1>3, <1>4 DEF Answer

\* The last row of a post.
LEMMA LastRow ==
  ASSUME ListenerTypes, NEW i \in DOMAIN rows,
         \A j \in DOMAIN rows : rows[j].post = rows[i].post => j <= i
  PROVE  LastOf(rows[i].post) = i
  <1> DEFINE mine == {k \in DOMAIN rows : rows[k].post = rows[i].post}
  <1>1. DOMAIN rows \subseteq Nat
    BY DEF ListenerTypes
  <1>2. i \in mine /\ \A j \in mine : j <= i
    OBVIOUS
  <1>3. \A k \in mine : (\A j \in mine : j <= k) => k = i
    BY <1>1, <1>2
  <1>4. LastOf(rows[i].post) = CHOOSE k \in mine : \A j \in mine : j <= k
    BY <1>2 DEF LastOf
  <1> HIDE DEF mine
  <1> QED
    BY <1>2, <1>3, <1>4

LEMMA StoreTypes ==
  ASSUME CarouselInv, Store
  PROVE  /\ task.pc = "store" /\ task.frame \in Frames /\ task.pass \in Passes
         /\ task' = Reading /\ task' \in Tasks
         /\ UNCHANGED <<cfg, landed, post, wire, cache>>
         /\ rows' \in Seq(FillingRows)
         /\ \/ /\ task.frame.type = "0x7a"
               /\ rows' = Append(rows, NewRow(task.frame, task.pass))
               /\ NewRow(task.frame, task.pass) \in FillingRows
            \/ /\ task.frame.type = "0x70"
               /\ rows' = [rows EXCEPT ![LastOf(task.frame.post)].full = task.frame.b]
               /\ DOMAIN rows' = DOMAIN rows
               /\ \A i \in DOMAIN rows :
                    /\ rows'[i].post = rows[i].post /\ rows'[i].owner = rows[i].owner
                    /\ rows'[i].pass = rows[i].pass
                    /\ rows'[i].full = IF i = LastOf(task.frame.post)
                                       THEN task.frame.b ELSE rows[i].full
            \/ /\ rows' = rows
               /\ "database" \in mishaps \/ task.frame.type = "0x70"
  <1>1. /\ task.pc = "store" /\ task.frame \in Frames /\ task.pass \in Passes
        /\ task' = Reading /\ task' \in Tasks
        /\ UNCHANGED <<cfg, landed, post, wire, cache>> /\ rows \in Seq(FillingRows)
    BY TaskFacts DEF CarouselInv, ListenerTypes, Store, Tasks
  <1>2. task.frame.b \in Balloons /\ task.frame.b \in Passes /\ 0 \in Passes
        /\ task.frame.post \in Posts /\ task.frame.type \in {"0x7a", "0x70"}
    BY <1>1, ReaderBounds DEF Frames, Passes, Balloons
  <1>3. CASE task.frame.type = "0x7a"
             /\ rows' = Append(rows, NewRow(task.frame, task.pass))
    <2>1. NewRow(task.frame, task.pass) \in FillingRows
      BY <1>1, <1>2 DEF NewRow, FillingRows, BalloonSize
    <2>2. rows' \in Seq(FillingRows)
      BY <1>1, <1>3, <2>1, Appended
    <2> QED
      BY <1>1, <1>3, <2>1, <2>2
  <1>4. CASE task.frame.type = "0x70"
             /\ rows' = [rows EXCEPT ![LastOf(task.frame.post)].full = task.frame.b]
    <2> DEFINE k == LastOf(task.frame.post)
               x == task.frame.b
    <2>1. rows' = [rows EXCEPT ![k].full = x] /\ x \in Passes
      BY <1>2, <1>4
    <2> HIDE DEF k, x
    <2>2. rows \in [1 .. Len(rows) -> FillingRows] /\ Len(rows) \in Nat
          /\ DOMAIN rows = 1 .. Len(rows)
      BY <1>1
    <2>3. \A i \in DOMAIN rows :
            /\ [rows[i] EXCEPT !.full = x] \in FillingRows
            /\ [rows[i] EXCEPT !.full = x].post = rows[i].post
            /\ [rows[i] EXCEPT !.full = x].pass = rows[i].pass
            /\ [rows[i] EXCEPT !.full = x].owner = rows[i].owner
            /\ [rows[i] EXCEPT !.full = x].full = x
      BY <2>1, <2>2 DEF FillingRows
    <2>4. /\ DOMAIN rows' = 1 .. Len(rows)
          /\ \A i \in DOMAIN rows :
               rows'[i] = IF i = k THEN [rows[i] EXCEPT !.full = x] ELSE rows[i]
      BY <2>1, <2>2
    <2>5. rows' \in [1 .. Len(rows) -> FillingRows]
      BY <2>1, <2>2, <2>3, <2>4
    <2>6. rows' \in Seq(FillingRows)
      BY <2>2, <2>5
    <2>7. \A i \in DOMAIN rows :
             /\ rows'[i].post = rows[i].post /\ rows'[i].owner = rows[i].owner
             /\ rows'[i].pass = rows[i].pass
             /\ rows'[i].full = IF i = k THEN x ELSE rows[i].full
      BY <2>3, <2>4
    <2> QED
      BY <1>1, <1>4, <2>2, <2>4, <2>6, <2>7 DEF k, x
  <1>5. CASE /\ rows' = rows
             /\ "database" \in mishaps \/ ProcessCarouselData(task.frame, task.pass) = {}
    BY <1>1, <1>2, <1>5 DEF ProcessCarouselData
  <1>6. \/ rows' \in ProcessCarouselData(task.frame, task.pass)
        \/ /\ rows' = rows
           /\ "database" \in mishaps \/ ProcessCarouselData(task.frame, task.pass) = {}
    BY DEF Store
  <1> QED
    BY <1>2, <1>3, <1>4, <1>5, <1>6 DEF ProcessCarouselData

LEMMA ConnectTypes ==
  ASSUME Connect
  PROVE  /\ task.pc = "down" /\ task' = Reading /\ task' \in Tasks
         /\ wire' = <<>> /\ wire' \in Seq(Frames) /\ cache' = {} /\ cache' \subseteq Entries
         /\ UNCHANGED <<cfg, landed, post, rows>>
  BY DEF Connect, Tasks

\* Every step of the carousel keeps the types and the invariant of the reader.
LEMMA CarouselStep ==
  ASSUME CarouselInv, [Next]_vars
  PROVE  CarouselInv'
  <1>0. /\ ReaderInv /\ mishaps \in MishapSets /\ BeltTypes /\ ListenerTypes
    BY DEF CarouselInv
  <1>1. ASSUME UNCHANGED <<mishaps, readerVars>> PROVE ReaderInv'
    <2>1. drops \in 0 .. MaxDrops
      BY <1>0 DEF ReaderInv, ReaderShape, ReaderTypeOK
    <2> QED
      BY <1>0, <1>1, <2>1, OthersStep DEF readerVars
  <1>2. ASSUME UNCHANGED postVars PROVE BeltTypes' /\ ListenerTypes'
    BY <1>0, <1>2 DEF postVars, BeltTypes, ListenerTypes, PostShapes
  <1>3. CASE UNCHANGED vars
    BY <1>0, <1>1, <1>2, <1>3 DEF vars, CarouselInv
  <1>4. CASE Next
    <2>1. mishaps' = mishaps /\ mishaps' \in MishapSets
      BY <1>0, <1>4 DEF Next
    <2>2. CASE ReaderNext /\ UNCHANGED postVars
      BY <1>0, <1>2, <2>1, <2>2, ReaderStep DEF CarouselInv
    <2>3. CASE Listen /\ UNCHANGED readerVars
      <3>1. ReaderInv'
        BY <1>1, <2>1, <2>3
      <3>2. CASE Connect
        BY <1>0, <2>1, <3>1, <3>2, ConnectTypes
           DEF CarouselInv, BeltTypes, ListenerTypes, PostShapes
      <3>3. CASE Decide
        BY <1>0, <2>1, <3>1, <3>3, DecideTypes
           DEF CarouselInv, BeltTypes, ListenerTypes, PostShapes
      <3>4. CASE Answer
        <4>1. BeltTypes'
          BY <1>0, <3>4, AnswerTypes DEF BeltTypes
        <4>2. ListenerTypes'
          BY <1>0, <3>4, AnswerTypes DEF ListenerTypes
        <4> QED
          BY <2>1, <3>1, <4>1, <4>2 DEF CarouselInv
      <3>5. CASE Store
        <4>1. BeltTypes'
          BY <1>0, <3>5, StoreTypes DEF BeltTypes, PostShapes
        <4>2. ListenerTypes'
          BY <1>0, <3>5, StoreTypes DEF ListenerTypes
        <4> QED
          BY <2>1, <3>1, <4>1, <4>2 DEF CarouselInv
      <3> QED
        BY <2>3, <3>2, <3>3, <3>4, <3>5 DEF Listen
    <2>4. ASSUME NEW p \in Posts, PostStep(p), UNCHANGED readerVars
          PROVE  CarouselInv'
      <3>1. ReaderInv'
        BY <1>1, <2>1, <2>4
      <3>2. /\ cfg' = cfg /\ UNCHANGED <<task, rows>> /\ cache' \subseteq cache
        BY <2>4 DEF PostStep, Land, SendEmpty, SendFull, Send, Fill, Leave, Forget
      <3>3. CASE Land(p)
        <4>1. landed' \in 0 .. Last /\ UNCHANGED <<wire, cache>>
          BY <3>3, LandTypes, ReaderBounds DEF Balloons, Land
        <4>2. post' \in [Posts -> Posting] /\ PostShapes'
          BY <3>3, LandTypes
        <4> QED
          BY <1>0, <2>1, <3>1, <3>2, <4>1, <4>2 DEF CarouselInv, BeltTypes, ListenerTypes
      <3>4. CASE SendEmpty(p) \/ SendFull(p)
        <4>1. landed' = landed
          BY <3>4 DEF SendEmpty, SendFull, Send
        <4>2. post' \in [Posts -> Posting] /\ PostShapes' /\ wire' \in Seq(Frames)
          BY <3>4, SendTypes
        <4> QED
          BY <1>0, <2>1, <3>1, <3>2, <4>1, <4>2 DEF CarouselInv, BeltTypes, ListenerTypes
      <3>5. CASE Fill(p)
        <4>1. UNCHANGED <<landed, wire>>
          BY <3>5 DEF Fill
        <4>2. post' \in [Posts -> Posting] /\ PostShapes'
          BY <3>5, FillTypes
        <4> QED
          BY <1>0, <2>1, <3>1, <3>2, <4>1, <4>2 DEF CarouselInv, BeltTypes, ListenerTypes
      <3>6. CASE Leave(p)
        <4>1. UNCHANGED <<landed, wire>>
          BY <3>6 DEF Leave
        <4>2. post' \in [Posts -> Posting] /\ PostShapes'
          BY <3>6, LeaveTypes
        <4> QED
          BY <1>0, <2>1, <3>1, <3>2, <4>1, <4>2 DEF CarouselInv, BeltTypes, ListenerTypes
      <3> QED
        BY <2>4, <3>3, <3>4, <3>5, <3>6 DEF PostStep
    <2>5. CASE Read /\ UNCHANGED ExceptQueue
      <3>1. queue' = queue \/ (queue # <<>> /\ queue' = Tail(queue))
        BY <2>5, ReadTypes DEF CarouselInv
      <3>2. drops \in 0 .. MaxDrops
        BY <1>0 DEF ReaderInv, ReaderShape, ReaderTypeOK
      <3>3. ReaderInv'
        BY <1>0, <2>1, <2>5, <3>1, <3>2, OthersStep DEF ExceptQueue
      <3>4. BeltTypes'
        BY <1>0, <2>5, ReadTypes DEF BeltTypes
      <3>5. ListenerTypes'
        BY <1>0, <2>5, ReadTypes DEF ListenerTypes
      <3> QED
        BY <2>1, <3>3, <3>4, <3>5 DEF CarouselInv
    <2>6. CASE (Expire \/ Break) /\ UNCHANGED ExceptDrops
      <3>1. drops' \in 0 .. MaxDrops
        <4>1. drops < MaxDrops /\ drops' = drops + 1
          BY <2>6 DEF Expire, Break
        <4>2. drops \in 0 .. MaxDrops
          BY <1>0 DEF ReaderInv, ReaderShape, ReaderTypeOK
        <4> QED
          BY <4>1, <4>2, ReaderBounds
      <3>2. ReaderInv'
        BY <1>0, <2>1, <2>6, <3>1, OthersStep DEF ExceptDrops
      <3>3. UNCHANGED <<cfg, landed, post, wire, rows>> /\ cache' \subseteq cache
            /\ task' \in {task, Down}
        BY <2>6 DEF Expire, Break
      <3>4. BeltTypes' /\ ListenerTypes'
        BY <1>0, <3>3 DEF BeltTypes, PostShapes, ListenerTypes, Tasks
      <3> QED
        BY <2>1, <3>2, <3>4 DEF CarouselInv
    <2>7. CASE ExpireQueue /\ UNCHANGED <<ExceptQueue, postVars>>
      <3>1. drops \in 0 .. MaxDrops
        BY <1>0 DEF ReaderInv, ReaderShape, ReaderTypeOK
      <3>2. ReaderInv'
        BY <1>0, <2>1, <2>7, <3>1, OthersStep DEF ExceptQueue, ExpireQueue
      <3> QED
        BY <1>2, <2>1, <2>7, <3>2 DEF CarouselInv
    <2> QED
      BY <1>4, <2>2, <2>3, <2>4, <2>5, <2>6, <2>7 DEF Next
  <1> QED
    BY <1>3, <1>4

LEMMA CarouselStart == Init => CarouselInv
  <1> SUFFICES ASSUME Init PROVE CarouselInv
    OBVIOUS
  <1>1. ReaderInv
    BY ReaderStart DEF Init
  <1>2. mishaps \in MishapSets /\ cfg \in Configs
    BY ScenariosAreKnown DEF Init, Configs
  <1>3. /\ landed = 0 /\ post = [p \in Posts |-> Free] /\ wire = <<>>
        /\ task = Reading /\ cache = {} /\ rows = <<>>
    BY DEF Init
  <1>4. landed \in 0 .. Last
    BY <1>3, ReaderBounds
  <1>5. post \in [Posts -> Posting] /\ PostShapes
    BY <1>3, AnswersExist DEF PostShapes
  <1>6. ListenerTypes
    BY <1>3 DEF ListenerTypes, Tasks
  <1> QED
    BY <1>1, <1>2, <1>4, <1>5, <1>6 DEF CarouselInv, BeltTypes

THEOREM CarouselInvHolds == Spec => []CarouselInv
  BY CarouselStart, CarouselStep, PTL DEF Spec

LEMMA CarouselInvTypes == CarouselInv => TypeOK
  BY DEF CarouselInv, BeltTypes, ListenerTypes, TypeOK, ReaderInv, ReaderShape, Posting,
         Tasks, Entries, FillingRows

\* Reader, belt, posts, line, listener and table stay within their types.
THEOREM TypeOKHolds == Spec => []TypeOK
  BY CarouselInvHolds, CarouselInvTypes, PTL

\* A balloon is counted once and leaves one passport, whatever is read or sent
\* again, with any number of balloons, readings and lost connections.
THEOREM CountedOnceHolds == Spec => []CountedOnce
  <1>1. CarouselInv => CountedOnce
    BY DEF CarouselInv, ReaderInv, OnceInv, ServedOnce, CountedOnce
  <1> QED
    BY <1>1, CarouselInvHolds, PTL

\* A tag that the memory of the reader holds back has been counted, or is about
\* to be.
THEOREM FilteredWasCountedHolds == Spec => []FilteredWasCounted
  <1>1. CarouselInv => FilteredWasCounted
    BY DEF CarouselInv, ReaderInv
  <1> QED
    BY <1>1, CarouselInvHolds, PTL

\* The listener finds the passports in the order of the belt.
THEOREM PassportsInOrderHolds == Spec => []PassportsInOrder
  <1>1. CarouselInv => PassportsInOrder
    BY DEF CarouselInv, ReaderInv, OrderInv, InOrder, QueueOrder, Increasing,
           PassportsInOrder
  <1> QED
    BY <1>1, CarouselInvHolds, PTL

-----------------------------------------------------------------------------
(***************************************************************************)
(* Where the passports are.                                                *)
(***************************************************************************)
Busy == task.pc \in {"decide", "answer", "store"}
TaskHas(b) == Busy /\ task.pass = b
RowHas(b) == \E i \in DOMAIN rows : rows[i].pass = b

\* A passport that was not put into the list is nowhere; no two places have the
\* same one.
OnePlace ==
  \A b \in Balloons :
    /\ pushed[b] = 0 => ~Among(b, queue) /\ ~TaskHas(b) /\ ~RowHas(b)
    /\ ~(Among(b, queue) /\ TaskHas(b)) /\ ~(Among(b, queue) /\ RowHas(b))
    /\ ~(TaskHas(b) /\ RowHas(b))
    /\ \A i, j \in DOMAIN queue : queue[i] = b /\ queue[j] = b => i = j
    /\ \A i, j \in DOMAIN rows : rows[i].pass = b /\ rows[j].pass = b => i = j

PassportInv == Remembers => OnePlace

\* The reader puts in what it has not put in before.
LEMMA Pushes ==
  ASSUME ReaderInv, Remembers, ReaderNext
  PROVE  \/ UNCHANGED <<pushed, queue>>
         \/ \E t \in Balloons : /\ pushed[t] = 0 /\ pushed' = [pushed EXCEPT ![t] = @ + 1]
                                /\ queue' = Append(queue, t)
  <1>1. ASSUME NEW h \in Handlers, ServeTag(h), ~UNCHANGED <<pushed, queue>>
        PROVE  \E t \in Balloons :
                 /\ pushed[t] = 0 /\ pushed' = [pushed EXCEPT ![t] = @ + 1]
                 /\ queue' = Append(queue, t)
    <2> DEFINE todo == jobs[h].todo
               t == todo[1]
    <2>1. /\ todo \in Seq(Balloons) /\ todo # <<>> /\ t \in Balloons
          /\ pushed' = [pushed EXCEPT ![t] = @ + 1] /\ queue' = Append(queue, t)
      BY <1>1, ServeTagEffect DEF ReaderInv
    <2>2. Among(t, todo)
      BY <2>1, Shortened
    <2>3. pushed[t] = 0
      BY <2>1, <2>2 DEF ReaderInv, OnceInv, ServedOnce
    <2> QED
      BY <2>1, <2>3
  <1>2. CASE Pass \/ Reread \/ Accept \/ Drop \/ Restart \/ Receive
    BY <1>2 DEF Pass, Reread, Accept, Drop, Restart, Receive
  <1>3. ASSUME NEW h \in Handlers, Call(h) \/ ServeInput(h) \/ Indicate(h) \/ Acknowledge(h)
        PROVE  UNCHANGED <<pushed, queue>>
    BY <1>3 DEF Call, ServeInput, Indicate, Acknowledge
  <1> QED
    BY <1>1, <1>2, <1>3 DEF ReaderNext, Handle

\* A passport is put into the list.
LEMMA PlacePushed ==
  ASSUME CarouselInv, OnePlace, NEW t \in Balloons, pushed[t] = 0,
         pushed' = [pushed EXCEPT ![t] = @ + 1], queue' = Append(queue, t),
         UNCHANGED <<task, rows>>
  PROVE  OnePlace'
  <1>1. queue \in Seq(Balloons) /\ pushed \in [Balloons -> Nat]
    BY DEF CarouselInv, ReaderInv, ReaderShape, ReaderTypeOK
  <1>2. /\ Len(queue) \in Nat
        /\ DOMAIN queue = 1 .. Len(queue) /\ DOMAIN queue' = 1 .. Len(queue) + 1
        /\ \A i \in 1 .. Len(queue) : queue'[i] = queue[i]
        /\ queue'[Len(queue) + 1] = t
        /\ \A x : Among(x, queue') <=> Among(x, queue) \/ x = t
    BY <1>1, Appended
  <1>3. ASSUME NEW b \in Balloons PROVE (TaskHas(b) <=> TaskHas(b)') /\ (RowHas(b) <=> RowHas(b)')
    BY DEF TaskHas, Busy, RowHas
  <1>4. /\ ~Among(t, queue) /\ ~TaskHas(t) /\ ~RowHas(t)
        /\ pushed'[t] = 1 /\ \A b \in Balloons \ {t} : pushed'[b] = pushed[b]
    BY <1>1 DEF OnePlace
  <1>5. ASSUME NEW b \in Balloons
        PROVE  \A i, j \in DOMAIN queue' : queue'[i] = b /\ queue'[j] = b => i = j
    <2>1. \A i \in 1 .. Len(queue) : queue[i] # t
      BY <1>2, <1>4 DEF Among
    <2> QED
      BY <1>2, <2>1 DEF OnePlace
  <1> QED
    BY <1>2, <1>3, <1>4, <1>5 DEF OnePlace

\* What was in the list leaves it, and may come to the task.
LEMMA PlaceTaken ==
  ASSUME CarouselInv, OnePlace, UNCHANGED <<pushed, rows>>,
         \/ queue' = queue /\ \A b \in Balloons : TaskHas(b)' => TaskHas(b)
         \/ queue' = <<>> /\ \A b \in Balloons : TaskHas(b)' => TaskHas(b)
         \/ /\ queue # <<>> /\ queue' = Tail(queue)
            /\ \A b \in Balloons : TaskHas(b)' => b = Head(queue)
  PROVE  OnePlace'
  <1>1. queue \in Seq(Balloons)
    BY DEF CarouselInv, ReaderInv, ReaderShape, ReaderTypeOK
  <1>2. ASSUME NEW b \in Balloons PROVE RowHas(b) <=> RowHas(b)'
    BY DEF RowHas
  <1>3. CASE queue' = queue /\ \A b \in Balloons : TaskHas(b)' => TaskHas(b)
    BY <1>2, <1>3 DEF OnePlace
  <1>4. CASE queue' = <<>> /\ \A b \in Balloons : TaskHas(b)' => TaskHas(b)
    <2>1. \A b : ~Among(b, queue')
      BY <1>4 DEF Among
    <2> QED
      BY <1>2, <1>4, <2>1 DEF OnePlace
  <1>5. CASE /\ queue # <<>> /\ queue' = Tail(queue)
             /\ \A b \in Balloons : TaskHas(b)' => b = Head(queue)
    <2>1. /\ Len(queue) \in Nat \ {0} /\ DOMAIN queue = 1 .. Len(queue)
          /\ Head(queue) = queue[1] /\ Head(queue) \in Balloons
          /\ DOMAIN queue' = 1 .. Len(queue) - 1
          /\ \A i \in 1 .. Len(queue) - 1 : queue'[i] = queue[i + 1]
          /\ \A x : Among(x, queue) <=> x = Head(queue) \/ Among(x, queue')
      BY <1>1, <1>5, Shortened
    <2>2. \A i \in DOMAIN queue' : queue'[i] # Head(queue)
      <3>1. \A i \in 1 .. Len(queue) - 1 : i + 1 \in DOMAIN queue /\ 1 \in DOMAIN queue
                                          /\ i + 1 # 1
        BY <2>1
      <3> QED
        BY <2>1, <3>1 DEF OnePlace
    <2>3. ~Among(Head(queue), queue')
      BY <2>2 DEF Among
    <2>4. ASSUME NEW b \in Balloons
          PROVE  \A i, j \in DOMAIN queue' : queue'[i] = b /\ queue'[j] = b => i = j
      <3>1. \A i \in 1 .. Len(queue) - 1 : i + 1 \in DOMAIN queue
        BY <2>1
      <3> QED
        BY <2>1, <3>1 DEF OnePlace
    <2> QED
      BY <1>2, <1>5, <2>1, <2>3, <2>4 DEF OnePlace
  <1> QED
    BY <1>3, <1>4, <1>5

\* The passport of the task comes to the rows, or is lost.
LEMMA PlaceStored ==
  ASSUME CarouselInv, OnePlace, Store, UNCHANGED <<pushed, queue>>
  PROVE  OnePlace'
  <1>1. \A b : ~TaskHas(b)'
    BY StoreTypes DEF TaskHas, Busy, Reading
  <1>2. rows \in Seq(FillingRows)
    BY DEF CarouselInv, ListenerTypes
  <1>3. CASE DOMAIN rows' = DOMAIN rows /\ \A i \in DOMAIN rows : rows'[i].pass = rows[i].pass
    <2>1. \A b \in Balloons : RowHas(b) <=> RowHas(b)'
      BY <1>3 DEF RowHas
    <2> QED
      BY <1>1, <1>3, <2>1 DEF OnePlace
  <1>4. CASE rows' = Append(rows, NewRow(task.frame, task.pass))
             /\ NewRow(task.frame, task.pass) \in FillingRows
    <2> DEFINE new == NewRow(task.frame, task.pass)
    <2>1. new.pass = task.pass /\ Busy
      BY StoreTypes DEF NewRow, Busy
    <2> HIDE DEF new
    <2>2. /\ Len(rows) \in Nat
          /\ DOMAIN rows = 1 .. Len(rows) /\ DOMAIN rows' = 1 .. Len(rows) + 1
          /\ \A i \in 1 .. Len(rows) : rows'[i] = rows[i]
          /\ rows'[Len(rows) + 1] = new
      BY <1>2, <1>4, Appended DEF new
    <2>3. ASSUME NEW b \in Balloons
          PROVE  RowHas(b)' <=> RowHas(b) \/ TaskHas(b)
      BY <2>1, <2>2 DEF RowHas, TaskHas
    <2>4. ASSUME NEW b \in Balloons
          PROVE  \A i, j \in DOMAIN rows' : rows'[i].pass = b /\ rows'[j].pass = b => i = j
      <3>1. \A i \in DOMAIN rows : rows[i].pass = b => ~TaskHas(b)
        BY DEF OnePlace, RowHas
      <3>2. task.pass = b => TaskHas(b)
        BY <2>1 DEF TaskHas
      <3> QED
        BY <2>1, <2>2, <3>1, <3>2 DEF OnePlace
    <2> QED
      BY <1>1, <2>3, <2>4 DEF OnePlace
  <1> QED
    BY <1>3, <1>4, StoreTypes

\* The task keeps its passport, or has none.
LEMMA TaskKeeps ==
  ASSUME CarouselInv, Connect \/ Decide \/ Answer \/ Break \/ Expire
  PROVE  rows' = rows /\ \A b \in Balloons : TaskHas(b)' => TaskHas(b)
  <1>1. CASE Connect
    BY <1>1, ConnectTypes DEF TaskHas, Busy, Reading
  <1>2. CASE Decide
    BY <1>2, DecideTypes DEF TaskHas, Busy, Down
  <1>3. CASE Answer
    BY <1>3, AnswerTypes DEF TaskHas, Busy, Down
  <1>4. CASE Break
    BY <1>4 DEF Break, TaskHas, Busy, Down
  <1>5. CASE Expire
    BY <1>5 DEF Expire, TaskHas, Busy
  <1> QED
    BY <1>1, <1>2, <1>3, <1>4, <1>5

LEMMA PassportStep ==
  ASSUME CarouselInv, PassportInv, [Next]_vars
  PROVE  PassportInv'
  <1>1. mishaps' = mishaps
    BY DEF Next, vars
  <1>2. Remembers' <=> Remembers
    BY <1>1 DEF Remembers
  <1> SUFFICES ASSUME Remembers, OnePlace PROVE OnePlace'
    BY <1>2 DEF PassportInv
  <1>3. ASSUME UNCHANGED <<pushed, queue, rows, task>> PROVE OnePlace'
    <2>1. \A b \in Balloons : TaskHas(b)' => TaskHas(b)
      BY <1>3 DEF TaskHas, Busy
    <2> QED
      BY <1>3, <2>1, PlaceTaken
  <1>4. CASE UNCHANGED vars
    BY <1>3, <1>4 DEF vars, readerVars, postVars
  <1>5. CASE ReaderNext /\ UNCHANGED postVars
    <2>1. UNCHANGED <<task, rows>>
      BY <1>5 DEF postVars
    <2>2. CASE UNCHANGED <<pushed, queue>>
      BY <1>3, <2>1, <2>2
    <2>3. CASE \E t \in Balloons :
                 /\ pushed[t] = 0 /\ pushed' = [pushed EXCEPT ![t] = @ + 1]
                 /\ queue' = Append(queue, t)
      BY <2>1, <2>3, PlacePushed
    <2> QED
      BY <1>5, <2>2, <2>3, Pushes DEF CarouselInv
  <1>6. CASE Listen /\ UNCHANGED readerVars
    <2>1. UNCHANGED <<pushed, queue>>
      BY <1>6 DEF readerVars
    <2>2. CASE Store
      BY <2>1, <2>2, PlaceStored
    <2>3. CASE Connect \/ Decide \/ Answer
      BY <2>1, <2>3, TaskKeeps, PlaceTaken
    <2> QED
      BY <1>6, <2>2, <2>3 DEF Listen
  <1>7. CASE (\E p \in Posts : PostStep(p)) /\ UNCHANGED readerVars
    <2>1. UNCHANGED <<pushed, queue, rows, task>>
      BY <1>7 DEF readerVars, PostStep, Land, SendEmpty, SendFull, Send, Fill, Leave
    <2> QED
      BY <1>3, <2>1
  <1>8. CASE Read /\ UNCHANGED ExceptQueue
    <2>1. pushed' = pushed /\ rows' = rows
      BY <1>8, ReadTypes DEF ExceptQueue
    <2>2. 0 \notin Balloons
      BY DEF Balloons
    <2>3. \/ queue' = queue /\ \A b \in Balloons : TaskHas(b)' => TaskHas(b)
          \/ /\ queue # <<>> /\ queue' = Tail(queue)
             /\ \A b \in Balloons : TaskHas(b)' => b = Head(queue)
      BY <1>8, <2>2, ReadTypes DEF TaskHas, Busy
    <2> QED
      BY <2>1, <2>3, PlaceTaken
  <1>9. CASE (Expire \/ Break) /\ UNCHANGED ExceptDrops
    <2>1. UNCHANGED <<pushed, queue>>
      BY <1>9 DEF ExceptDrops
    <2> QED
      BY <1>9, <2>1, TaskKeeps, PlaceTaken
  <1>10. CASE ExpireQueue /\ UNCHANGED <<ExceptQueue, postVars>>
    <2>1. UNCHANGED <<pushed, rows, task>> /\ queue' = <<>>
      BY <1>10 DEF ExceptQueue, postVars, ExpireQueue
    <2>2. \A b \in Balloons : TaskHas(b)' => TaskHas(b)
      BY <2>1 DEF TaskHas, Busy
    <2> QED
      BY <2>1, <2>2, PlaceTaken
  <1> QED
    BY <1>4, <1>5, <1>6, <1>7, <1>8, <1>9, <1>10 DEF Next

LEMMA PlacesAreFew ==
  ASSUME OnePlace, NEW b \in Balloons
  PROVE  Cardinality(Places(b)) <= 1
  <1>1. \A x, y \in Places(b) : x = y
    BY DEF Places, OnePlace, TaskHas, RowHas, Busy, Among
  <1>2. Places(b) = {} \/ \E x : Places(b) = {x}
    <2>1. ASSUME NEW x \in Places(b) PROVE Places(b) = {x}
      BY <1>1
    <2> QED
      BY <2>1
  <1>3. CASE Places(b) = {}
    BY <1>3, FS_EmptySet
  <1>4. CASE \E x : Places(b) = {x}
    <2>1. PICK x : Places(b) = {x}
      BY <1>4
    <2>2. Cardinality({x}) = 1
      BY FS_Singleton
    <2> QED
      BY <2>1, <2>2
  <1> QED
    BY <1>2, <1>3, <1>4

LEMMA PassportStart == Init => PassportInv
  <1> SUFFICES ASSUME Init PROVE OnePlace
    BY DEF PassportInv
  <1>1. queue = <<>> /\ rows = <<>> /\ task = Reading
    BY DEF Init, ReaderInit
  <1>2. \A b : ~Among(b, queue) /\ ~TaskHas(b) /\ ~RowHas(b)
    BY <1>1 DEF Among, TaskHas, RowHas, Busy, Reading
  <1> QED
    BY <1>1, <1>2 DEF OnePlace

\* A passport is used once: it waits in the list, the task has it, or it is in
\* one row, however many balloons and posts there are and whatever happens to
\* line, listener and database.
THEOREM PassportOnceHolds == Spec => []PassportOnce
  <1>1. PassportInv => PassportOnce
    BY PlacesAreFew DEF PassportInv, PassportOnce
  <1> QED
    BY <1>1, PassportStart, PassportStep, CarouselInvHolds, PTL DEF Spec

-----------------------------------------------------------------------------
(***************************************************************************)
(* Which row the full weight comes to.                                     *)
(***************************************************************************)
Calm ==
  Fits /\ mishaps \cap {"late", "garbled", "broken", "killed", "database"} = {}

Standing(p) == post[p].stage # "free"
Kind(p) == IF post[p].stage = "empty" THEN "0x7a" ELSE "0x70"

InLine(p) == \E i \in DOMAIN wire : wire[i].post = p
Pending(p) == Busy /\ task.frame.post = p
Heard(p) == \E e \in cache : e.post = p
Opened(p) == \E i \in DOMAIN rows : rows[i].owner = post[p].b

\* What is said of a post is about the balloon on it, and about its stage.
Current(f) ==
  Standing(f.post) /\ f.b = post[f.post].b /\ f.type = Kind(f.post) /\ f.weight = Weight[f.b]

FramesCurrent ==
  /\ \A i \in DOMAIN wire : Current(wire[i])
  /\ Busy => Current(task.frame)
  /\ \A e \in cache : /\ Standing(e.post) /\ e.type = Kind(e.post)
                      /\ e.weight = Weight[post[e.post].b]

\* A balloon stands on one post, and has one row, the last one of its post as
\* long as it stands there.
RowsApart ==
  /\ \A p, q \in Posts : Standing(p) /\ Standing(q) /\ post[p].b = post[q].b => p = q
  /\ \A p \in Posts : Standing(p) => post[p].b <= landed
  /\ \A i, j \in DOMAIN rows : rows[j].owner = rows[i].owner => i = j
  /\ \A i \in DOMAIN rows :
       /\ rows[i].owner <= landed /\ rows[i].full \in {0, rows[i].owner}
       /\ \A p \in Posts : Standing(p) /\ rows[i].owner = post[p].b =>
            rows[i].post = p /\ \A j \in DOMAIN rows : rows[j].post = p => j <= i

\* How far the listener is with the empty weight of a post.
Weighed(p) ==
  /\ Opened(p) => Heard(p) /\ ~Pending(p)
  /\ Heard(p) => Opened(p) \/ Pending(p)
  /\ Pending(p) => (Heard(p) <=> task.pc # "decide")
  /\ post[p].sends > 0 => InLine(p) \/ Pending(p) \/ Heard(p)

PostsServed ==
  \A p \in Posts : /\ post[p].stage = "empty" => Weighed(p)
                   /\ post[p].stage = "full" => Opened(p)

FullInv == Calm => task.pc # "down" /\ FramesCurrent /\ RowsApart /\ PostsServed

\* Whether it is calm does not change.
LEMMA CalmKept ==
  ASSUME [Next]_vars
  PROVE  Calm' <=> Calm
  <1>1. mishaps' = mishaps
    BY DEF Next, vars
  <1>2. cfg' = cfg
    BY DEF Next, vars, postVars, Listen, PostStep, Connect, Decide, Answer, Store, Read,
           Expire, Break, ExpireQueue, Land, SendEmpty, SendFull, Send, Fill, Leave
  <1>3. Fits' <=> Fits
    BY <1>2 DEF Fits, Allowed, CheckSettings, Correction, InRange, Distance
  <1> QED
    BY <1>1, <1>3 DEF Calm

FullParts == task.pc # "down" /\ FramesCurrent /\ RowsApart /\ PostsServed

\* What frames, entries and rows are about.
LEMMA Kinds ==
  ASSUME CarouselInv
  PROVE  /\ \A p \in Posts : /\ post[p].b \in Passes /\ post[p].sends \in Nat
                             /\ post[p].stage \in {"free", "empty", "full"}
                             /\ Standing(p) => post[p].b \in Balloons
                             /\ ~Standing(p) => post[p] = Free
         /\ DOMAIN wire = 1 .. Len(wire) /\ Len(wire) \in Nat
         /\ \A i \in DOMAIN wire : wire[i] \in Frames /\ wire[i].post \in Posts
         /\ Busy => task.frame \in Frames /\ task.frame.post \in Posts
         /\ \A e \in cache : e \in Entries /\ e.post \in Posts
         /\ DOMAIN rows = 1 .. Len(rows) /\ Len(rows) \in Nat
         /\ \A i \in DOMAIN rows : rows[i] \in FillingRows /\ rows[i].owner \in Balloons
                                   /\ rows[i].post \in Posts
         /\ landed \in Nat /\ Balloons \subseteq Nat \ {0} /\ Passes \subseteq Nat
  <1>1. /\ post \in [Posts -> Posting] /\ PostShapes /\ wire \in Seq(Frames)
        /\ cache \subseteq Entries /\ rows \in Seq(FillingRows) /\ ListenerTypes
        /\ landed \in 0 .. Last
    BY DEF CarouselInv, BeltTypes, ListenerTypes
  <1>2. \A p \in Posts : /\ post[p].b \in Passes /\ post[p].sends \in Nat
                         /\ post[p].stage \in {"free", "empty", "full"}
                         /\ Standing(p) => post[p].b \in Balloons
                         /\ ~Standing(p) => post[p] = Free
    BY <1>1, PostBounds DEF Posting, PostShapes, Standing
  <1>3. DOMAIN wire = 1 .. Len(wire) /\ Len(wire) \in Nat
        /\ \A i \in DOMAIN wire : wire[i] \in Frames /\ wire[i].post \in Posts
    <2>1. DOMAIN wire = 1 .. Len(wire) /\ Len(wire) \in Nat
      BY <1>1
    <2>2. \A i \in DOMAIN wire : wire[i] \in Frames
      BY <1>1, <2>1
    <2>3. \A f \in Frames : f.post \in Posts
      BY DEF Frames
    <2> QED
      BY <2>1, <2>2, <2>3
  <1>4. Busy => task.frame \in Frames /\ task.frame.post \in Posts
    BY <1>1, TaskFacts DEF Frames, Busy
  <1>5. \A e \in cache : e \in Entries /\ e.post \in Posts
    BY <1>1 DEF Entries
  <1>6. /\ DOMAIN rows = 1 .. Len(rows) /\ Len(rows) \in Nat
        /\ \A i \in DOMAIN rows : rows[i] \in FillingRows /\ rows[i].owner \in Balloons
                                  /\ rows[i].post \in Posts
    <2>1. DOMAIN rows = 1 .. Len(rows) /\ Len(rows) \in Nat
      BY <1>1
    <2>2. \A i \in DOMAIN rows : rows[i] \in FillingRows
      BY <1>1, <2>1
    <2>3. \A r \in FillingRows : r.owner \in Balloons /\ r.post \in Posts
      BY DEF FillingRows
    <2> QED
      BY <2>1, <2>2, <2>3
  <1>7. landed \in Nat /\ Balloons \subseteq Nat \ {0} /\ Passes \subseteq Nat
    BY <1>1, ReaderBounds DEF Balloons, Passes
  <1> QED
    BY <1>2, <1>3, <1>4, <1>5, <1>6, <1>7

\* The next balloon is put on a post about which nothing is under way.
LEMMA LandFull ==
  ASSUME CarouselInv, FullParts, NEW p \in Posts, Land(p)
  PROVE  FullParts'
  <1>1. UNCHANGED <<wire, task, cache, rows>> /\ landed' = landed + 1
    BY DEF Land
  <1>2. landed' > landed /\ landed \in Nat /\ landed' \in Nat
    BY <1>1, Kinds
  <1>3. CASE post' = post
    <2>1. FramesCurrent' /\ PostsServed' /\ task'.pc # "down"
      BY <1>1, <1>3 DEF FullParts, FramesCurrent, PostsServed, Current, Busy, Standing, Kind,
                        Weighed, Opened, Heard, Pending, InLine
    <2>2. RowsApart'
      BY <1>1, <1>2, <1>3, Kinds DEF FullParts, RowsApart, Standing
    <2> QED
      BY <2>1, <2>2 DEF FullParts
  <1>4. CASE /\ post[p] = Free /\ post'[p].b = landed' /\ post'[p].stage = "empty"
             /\ post'[p].sends = 0
             /\ \A q \in Posts : q # p => post'[q] = post[q]
    <2>1. ~Standing(p) /\ Standing(p)'
      BY <1>4 DEF Standing, Free
    <2>2. ~InLine(p) /\ ~Pending(p) /\ ~Heard(p)
      BY <2>1 DEF InLine, Pending, Heard, FullParts, FramesCurrent, Current
    <2>3. FramesCurrent'
      <3>1. \A i \in DOMAIN wire : Current(wire[i])'
        <4>1. \A i \in DOMAIN wire : wire[i].post # p /\ wire[i].post \in Posts
                                     /\ Current(wire[i])
          BY <2>2, Kinds DEF InLine, FullParts, FramesCurrent
        <4> QED
          BY <1>1, <1>4, <4>1 DEF Current, Standing, Kind
      <3>2. Busy => Current(task.frame)'
        <4>1. Busy => task.frame.post # p /\ task.frame.post \in Posts /\ Current(task.frame)
          BY <2>2, Kinds DEF Pending, FullParts, FramesCurrent
        <4> QED
          BY <1>1, <1>4, <4>1 DEF Current, Standing, Kind
      <3>3. \A e \in cache : e.post # p /\ e.post \in Posts
        BY <2>2, Kinds DEF Heard
      <3> QED
        BY <1>1, <1>4, <3>1, <3>2, <3>3 DEF FullParts, FramesCurrent, Busy, Standing, Kind
    <2>4. RowsApart'
      <3>1. \A q \in Posts : q # p => /\ Standing(q)' <=> Standing(q)
                                      /\ post'[q].b = post[q].b
        BY <1>4 DEF Standing
      <3>2. \A q \in Posts : Standing(q) => post[q].b <= landed /\ post[q].b \in Nat
        BY Kinds DEF FullParts, RowsApart
      <3>3. \A i \in DOMAIN rows : rows[i].owner <= landed /\ rows[i].owner \in Nat
        BY Kinds DEF FullParts, RowsApart
      <3>4. \A q, r \in Posts : Standing(q)' /\ Standing(r)' /\ post'[q].b = post'[r].b => q = r
        BY <1>2, <1>4, <3>1, <3>2 DEF FullParts, RowsApart
      <3>5. \A q \in Posts : Standing(q)' => post'[q].b <= landed'
        BY <1>2, <1>4, <3>1, <3>2
      <3>6. ASSUME NEW i \in DOMAIN rows
            PROVE  /\ rows[i].owner <= landed' /\ rows[i].full \in {0, rows[i].owner}
                   /\ \A q \in Posts : Standing(q)' /\ rows[i].owner = post'[q].b =>
                        rows[i].post = q /\ \A j \in DOMAIN rows : rows[j].post = q => j <= i
        <4>1. rows[i].owner # post'[p].b
          BY <1>2, <1>4, <3>3
        <4> QED
          BY <1>2, <3>1, <3>3, <4>1 DEF FullParts, RowsApart
      <3> QED
        BY <1>1, <3>4, <3>5, <3>6 DEF FullParts, RowsApart
    <2>5. PostsServed'
      <3>1. ~Opened(p)'
        <4>1. \A i \in DOMAIN rows : rows[i].owner <= landed /\ rows[i].owner \in Nat
          BY Kinds DEF FullParts, RowsApart
        <4> QED
          BY <1>1, <1>2, <1>4, <4>1 DEF Opened
      <3>2. Weighed(p)'
        BY <1>1, <1>4, <2>2, <3>1 DEF Weighed, Heard, Pending, Busy, InLine
      <3>3. \A q \in Posts : q # p => /\ Weighed(q) => Weighed(q)'
                                      /\ Opened(q) => Opened(q)'
        BY <1>1, <1>4 DEF Weighed, Heard, Pending, Busy, InLine, Opened
      <3> QED
        BY <1>4, <3>2, <3>3 DEF FullParts, PostsServed
    <2> QED
      BY <1>1, <2>3, <2>4, <2>5 DEF FullParts
  <1> QED
    BY <1>1, <1>3, <1>4, LandTypes

\* Posts with the same balloons and stages: rows, frames and entries are about
\* them as before.
LEMMA SameBalloons ==
  ASSUME \A q \in Posts : post'[q].b = post[q].b /\ post'[q].stage = post[q].stage
  PROVE  /\ \A q \in Posts : (Standing(q)' <=> Standing(q)) /\ Kind(q)' = Kind(q)
         /\ UNCHANGED <<landed, rows>> /\ RowsApart => RowsApart'
  <1>1. \A q \in Posts : (Standing(q)' <=> Standing(q)) /\ Kind(q)' = Kind(q)
    BY DEF Standing, Kind
  <1>2. UNCHANGED <<landed, rows>> /\ RowsApart => RowsApart'
    BY <1>1 DEF RowsApart
  <1> QED
    BY <1>1, <1>2

LEMMA SendFullParts ==
  ASSUME CarouselInv, Calm, FullParts, NEW p \in Posts, SendEmpty(p) \/ SendFull(p)
  PROVE  FullParts'
  <1> DEFINE f == Frame(p, IF post[p].stage = "empty" THEN "0x7a" ELSE "0x70")
  <1>1. UNCHANGED <<landed, task, cache, rows>>
    BY DEF SendEmpty, SendFull, Send
  <1>2. /\ post[p].stage \in {"empty", "full"}
        /\ \A q \in Posts : post'[q].b = post[q].b /\ post'[q].stage = post[q].stage
        /\ \A q \in Posts : q # p => post'[q] = post[q]
        /\ wire' = Append(wire, f)
    <2>1. task.pc # "down" /\ "garbled" \notin mishaps
      BY DEF FullParts, Calm
    <2> QED
      BY <2>1, SendTypes
  <1>3. /\ f \in Frames /\ f.post = p /\ f.b = post[p].b /\ f.type = Kind(p)
        /\ f.weight = Weight[post[p].b]
    <2>1. /\ BeltTypes /\ post[p].stage # "free"
          /\ Kind(p) \in {"0x7a", "0x70"}
      BY <1>2 DEF CarouselInv, Kind
    <2> QED
      BY <2>1, FrameTypes DEF Kind
  <1> HIDE DEF f
  <1>4. wire \in Seq(Frames)
    BY DEF CarouselInv, ListenerTypes
  <1>5. /\ Len(wire) \in Nat /\ DOMAIN wire = 1 .. Len(wire)
        /\ DOMAIN wire' = 1 .. Len(wire) + 1
        /\ \A i \in 1 .. Len(wire) : wire'[i] = wire[i]
        /\ wire'[Len(wire) + 1] = f
    BY <1>2, <1>3, <1>4, Appended
  <1>6. /\ \A q \in Posts : (Standing(q)' <=> Standing(q)) /\ Kind(q)' = Kind(q)
        /\ RowsApart'
    BY <1>1, <1>2, SameBalloons DEF FullParts
  <1>7. FramesCurrent'
    <2>1. \A i \in DOMAIN wire : Current(wire[i])'
      <3>1. \A i \in DOMAIN wire : wire[i].post \in Posts /\ Current(wire[i])
        BY Kinds DEF FullParts, FramesCurrent
      <3> QED
        BY <1>2, <1>5, <1>6, <3>1 DEF Current
    <2>2. Standing(p)
      BY <1>2 DEF Standing
    <2>3. \A i \in DOMAIN wire' : Current(wire[i])'
      BY <1>2, <1>3, <1>5, <1>6, <2>1, <2>2 DEF Current
    <2>4. Busy' => Current(task.frame)'
      <3>1. Busy => task.frame.post \in Posts /\ Current(task.frame)
        BY Kinds DEF FullParts, FramesCurrent
      <3> QED
        BY <1>1, <1>2, <1>6, <3>1 DEF Current, Busy
    <2>5. \A e \in cache' : /\ Standing(e.post)' /\ e.type = Kind(e.post)'
                            /\ e.weight = Weight[post'[e.post].b]
      BY <1>1, <1>2, <1>6, Kinds DEF FullParts, FramesCurrent
    <2> QED
      BY <2>3, <2>4, <2>5 DEF FramesCurrent
  <1>8. PostsServed'
    <2>1. InLine(p)' /\ \A q \in Posts : InLine(q) => InLine(q)'
      <3>1. Len(wire) + 1 \in DOMAIN wire'
        BY <1>5
      <3> QED
        BY <1>3, <1>5, <3>1 DEF InLine
    <2>2. \A q \in Posts : /\ Heard(q)' <=> Heard(q)
                           /\ Pending(q)' <=> Pending(q)
                           /\ Opened(q)' <=> Opened(q)
      BY <1>1, <1>2 DEF Heard, Pending, Busy, Opened
    <2>3. \A q \in Posts : Weighed(q) => Weighed(q)'
      BY <1>1, <1>2, <2>1, <2>2 DEF Weighed
    <2> QED
      BY <1>2, <2>2, <2>3 DEF FullParts, PostsServed
  <1> QED
    BY <1>1, <1>6, <1>7, <1>8 DEF FullParts

\* A post goes on when the listener has done with it, and its request is
\* forgotten.
LEMMA ForgetFull ==
  ASSUME CarouselInv, FullParts, NEW p \in Posts, Standing(p), ~Outstanding(p),
         cache' = Forget(p, Kind(p)), UNCHANGED <<landed, wire, task, rows>>,
         \A q \in Posts : q # p => post'[q] = post[q],
         \/ ~Standing(p)'
         \/ /\ post'[p].stage = "full" /\ post'[p].b = post[p].b /\ Opened(p)
  PROVE  FullParts'
  <1>1. ~InLine(p) /\ ~Pending(p)
    BY DEF Outstanding, InLine, Pending, Busy
  <1>2. \A e \in cache' : e \in cache /\ e.post # p
    BY DEF Forget, FullParts, FramesCurrent
  <1>3. \A q \in Posts : q # p => /\ Standing(q)' <=> Standing(q)
                                  /\ Kind(q)' = Kind(q) /\ post'[q].b = post[q].b
    BY DEF Standing, Kind
  <1>4. FramesCurrent'
    <2>1. \A i \in DOMAIN wire : Current(wire[i])'
      <3>1. \A i \in DOMAIN wire : wire[i].post # p /\ wire[i].post \in Posts
                                   /\ Current(wire[i])
        BY <1>1, Kinds DEF InLine, FullParts, FramesCurrent
      <3> QED
        BY <1>3, <3>1 DEF Current
    <2>2. Busy => Current(task.frame)'
      <3>1. Busy => task.frame.post # p /\ task.frame.post \in Posts /\ Current(task.frame)
        BY <1>1, Kinds DEF Pending, FullParts, FramesCurrent
      <3> QED
        BY <1>3, <3>1 DEF Current
    <2>3. \A e \in cache' : /\ Standing(e.post)' /\ e.type = Kind(e.post)'
                            /\ e.weight = Weight[post'[e.post].b]
      BY <1>2, <1>3, Kinds DEF FullParts, FramesCurrent
    <2> QED
      BY <2>1, <2>2, <2>3 DEF FramesCurrent, Busy
  <1>5. \A q \in Posts : Standing(q)' => Standing(q) /\ post'[q].b = post[q].b
    BY <1>3
  <1>6. RowsApart'
    BY <1>5 DEF FullParts, RowsApart
  <1>7. PostsServed'
    <2>1. \A q \in Posts : q # p => /\ Heard(q)' <=> Heard(q)
                                    /\ post'[q].sends = post[q].sends
      <3>1. \A e \in cache : e.post # p => e \in cache'
        BY DEF Forget
      <3> QED
        BY <1>2, <3>1 DEF Heard
    <2>2. \A q \in Posts : q # p => /\ Weighed(q) => Weighed(q)'
                                    /\ Opened(q) => Opened(q)'
      BY <1>3, <2>1 DEF Weighed, Pending, Busy, InLine, Opened
    <2>3. Standing(p)' => Opened(p)' /\ post'[p].stage = "full"
      BY DEF Opened
    <2>4. \A q \in Posts : q # p => post'[q].stage = post[q].stage
      OBVIOUS
    <2>5. post'[p].stage = "empty" => FALSE
      BY <2>3 DEF Standing
    <2>6. post'[p].stage = "full" => Opened(p)'
      BY <2>3 DEF Standing
    <2> QED
      BY <2>2, <2>4, <2>5, <2>6 DEF FullParts, PostsServed
  <1> QED
    BY <1>4, <1>6, <1>7 DEF FullParts

LEMMA FillFull ==
  ASSUME CarouselInv, FullParts, NEW p \in Posts, Fill(p)
  PROVE  FullParts'
  <1>1. /\ post[p].stage = "empty" /\ post[p].sends > 0 /\ ~Outstanding(p)
        /\ cache' = Forget(p, Kind(p)) /\ UNCHANGED <<landed, wire, task, rows>>
    BY DEF Fill, Kind
  <1>2. Opened(p) /\ Standing(p)
    BY <1>1 DEF FullParts, PostsServed, Weighed, Outstanding, InLine, Pending, Busy, Standing
  <1>3. /\ \A q \in Posts : q # p => post'[q] = post[q]
        /\ post'[p].stage = "full" /\ post'[p].b = post[p].b
    BY FillTypes
  <1> QED
    BY <1>1, <1>2, <1>3, ForgetFull

LEMMA LeaveFull ==
  ASSUME CarouselInv, FullParts, NEW p \in Posts, Leave(p)
  PROVE  FullParts'
  <1>1. /\ post[p].stage = "full" /\ ~Outstanding(p)
        /\ cache' = Forget(p, Kind(p)) /\ UNCHANGED <<landed, wire, task, rows>>
    BY DEF Leave, Kind
  <1>2. Standing(p)
    BY <1>1 DEF Standing
  <1>3. \A q \in Posts : q # p => post'[q] = post[q]
    BY LeaveTypes
  <1>4. ~Standing(p)'
    BY LeaveTypes, AnswersExist DEF Standing
  <1> QED
    BY <1>1, <1>2, <1>3, <1>4, ForgetFull

\* Settings that fit never end the connection.
LEMMA AnswerFits ==
  ASSUME Fits, NEW pass \in Passes, NEW p \in Posts, NEW g \in RequestProcessing(pass, p)
  PROVE  BuildResponsePacket(pass, g) # {}
  <1>1. /\ pass # 0 /\ Allowed(pass, p)
        /\ g \in Truncated(Passport[pass].brutto + CheckSettings(p).correction)
    BY DEF RequestProcessing
  <1>2. pass \in Balloons
    BY <1>1, ReaderBounds DEF Passes, Balloons
  <1>3. CheckSettings(p).correction = Correction(p)
    BY <1>1 DEF Allowed, CheckSettings
  <1> DEFINE grams == Passport[pass].brutto + Correction(p)
  <1>4. grams \in 0 .. WeightLimit - 1
    BY <1>1, <1>2 DEF Fits
  <1>5. g \in Truncated(grams)
    BY <1>1, <1>3
  <1> HIDE DEF grams
  <1>6. g \in 0 .. WeightLimit - 1
    <2>1. WeightLimit \in Int
      BY DEF WeightLimit
    <2>2. grams \in Nat /\ (grams = 0 => grams % 1000 = 0)
      BY <1>4
    <2> QED
      BY <1>4, <1>5, <2>1, <2>2 DEF Truncated
  <1> QED
    BY <1>6 DEF BuildResponsePacket

LEMMA DecideFull ==
  ASSUME CarouselInv, Calm, FullParts, Decide
  PROVE  FullParts'
  <1>0. PICK p \in Posts : p = task.frame.post
    BY DecideTypes DEF Frames
  <1>1. /\ task.pc = "decide" /\ Busy /\ p \in Posts /\ task.frame \in Frames
        /\ task.pass \in Passes /\ UNCHANGED <<landed, post, wire, rows>>
    BY TaskFacts, DecideTypes, Kinds DEF Busy, CarouselInv
  <1>2. Fits
    BY DEF Calm
  <1>3. /\ task'.pc \in {"answer", "store"} /\ task'.frame = task.frame
        /\ \E answer \in Answers : cache' = CacheResult(task.frame, answer)
    BY <1>0, <1>1, <1>2, AnswerFits, DecideTypes
  <1>4. PICK answer \in Answers : cache' = CacheResult(task.frame, answer)
    BY <1>3
  <1>5. Busy' /\ \A q : Pending(q)' <=> Pending(q)
    BY <1>1, <1>3 DEF Busy, Pending
  <1>6. Current(task.frame)
    BY <1>1 DEF FullParts, FramesCurrent
  <1>7. FramesCurrent'
    <2>1. \A e \in cache' : e \in cache \/ (e.post = p /\ e.type = task.frame.type
                                            /\ e.weight = task.frame.weight)
      BY <1>0, <1>4 DEF CacheResult
    <2>2. \A e \in cache' : /\ Standing(e.post) /\ e.type = Kind(e.post)
                            /\ e.weight = Weight[post[e.post].b]
      BY <1>0, <1>6, <2>1 DEF FullParts, FramesCurrent, Current
    <2> QED
      BY <1>1, <1>3, <1>6, <2>2 DEF FullParts, FramesCurrent, Current, Standing, Kind
  <1>8. Heard(p)' /\ \A q : q # p => (Heard(q)' <=> Heard(q))
    <2> DEFINE new == [type |-> task.frame.type, post |-> task.frame.post,
                       weight |-> task.frame.weight, answer |-> answer]
    <2>1. cache' = cache \cup {new} /\ new.post = p
      BY <1>0, <1>4 DEF CacheResult
    <2> HIDE DEF new
    <2> QED
      BY <2>1 DEF Heard
  <1>9. PostsServed'
    <2>1. \A q \in Posts : q # p => /\ Weighed(q) => Weighed(q)'
                                    /\ Opened(q) => Opened(q)'
      <3>1. \A q \in Posts : q # p => ~Pending(q)
        BY <1>0 DEF Pending
      <3> QED
        BY <1>1, <1>5, <1>8, <3>1 DEF Weighed, InLine, Opened
    <2>2. Weighed(p) => Weighed(p)'
      BY <1>0, <1>1, <1>3, <1>5, <1>8 DEF Weighed, InLine, Opened, Pending
    <2>3. Opened(p) => Opened(p)'
      BY <1>1 DEF Opened
    <2> QED
      BY <1>1, <2>1, <2>2, <2>3 DEF FullParts, PostsServed
  <1>10. RowsApart'
    BY <1>1 DEF FullParts, RowsApart, Standing
  <1> QED
    BY <1>3, <1>7, <1>9, <1>10 DEF FullParts

LEMMA AnswerFull ==
  ASSUME CarouselInv, Calm, FullParts, Answer
  PROVE  FullParts'
  <1>1. /\ task.pc = "answer" /\ task' = [pc |-> "store", frame |-> task.frame, pass |-> task.pass]
        /\ \A q \in Posts : /\ post'[q].b = post[q].b /\ post'[q].stage = post[q].stage
                            /\ post'[q].sends = post[q].sends
        /\ UNCHANGED <<landed, wire, cache, rows>>
    BY AnswerTypes DEF Calm
  <1>2. task'.pc = "store" /\ task'.frame = task.frame /\ Busy /\ Busy'
    BY <1>1 DEF Busy
  <1>3. /\ \A q \in Posts : (Standing(q)' <=> Standing(q)) /\ Kind(q)' = Kind(q)
        /\ RowsApart'
    BY <1>1, SameBalloons DEF FullParts
  <1>4. FramesCurrent'
    <2>1. \A i \in DOMAIN wire : wire[i].post \in Posts /\ Current(wire[i])
      BY Kinds DEF FullParts, FramesCurrent
    <2>2. task.frame.post \in Posts /\ Current(task.frame)
      BY <1>2, Kinds DEF FullParts, FramesCurrent
    <2>3. \A e \in cache : /\ e.post \in Posts /\ Standing(e.post) /\ e.type = Kind(e.post)
                           /\ e.weight = Weight[post[e.post].b]
      BY Kinds DEF FullParts, FramesCurrent
    <2> QED
      BY <1>1, <1>2, <1>3, <2>1, <2>2, <2>3 DEF FramesCurrent, Current
  <1>5. PostsServed'
    <2>1. \A q \in Posts : /\ Heard(q)' <=> Heard(q)
                           /\ Pending(q)' <=> Pending(q)
                           /\ Opened(q)' <=> Opened(q)
                           /\ InLine(q)' <=> InLine(q)
      BY <1>1, <1>2 DEF Heard, Pending, Opened, InLine
    <2>2. \A q \in Posts : Weighed(q) => Weighed(q)'
      BY <1>1, <1>2, <2>1 DEF Weighed
    <2> QED
      BY <1>1, <2>1, <2>2 DEF FullParts, PostsServed
  <1> QED
    BY <1>2, <1>3, <1>4, <1>5 DEF FullParts

\* A frame is read that the listener does not know, or knows already.
LEMMA ReadFull ==
  ASSUME CarouselInv, Calm, FullParts, Read
  PROVE  FullParts'
  <1>0. PICK f \in Frames : f = Head(wire)
    BY ReadTypes
  <1> DEFINE p == f.post
  <1>1. /\ wire # <<>> /\ f \in Frames /\ wire' = Tail(wire) /\ task.pc = "read"
        /\ \A q \in Posts : /\ post'[q].b = post[q].b /\ post'[q].stage = post[q].stage
                            /\ post'[q].sends = post[q].sends
        /\ UNCHANGED <<landed, rows>>
    BY <1>0, ReadTypes
  <1>2. wire \in Seq(Frames)
    BY DEF CarouselInv, ListenerTypes
  <1>3. /\ Len(wire) \in Nat \ {0} /\ DOMAIN wire = 1 .. Len(wire) /\ f = wire[1]
        /\ DOMAIN wire' = 1 .. Len(wire) - 1
        /\ \A i \in 1 .. Len(wire) - 1 : wire'[i] = wire[i + 1]
    BY <1>0, <1>1, <1>2, Shortened
  <1>4. p \in Posts /\ Current(f)
    BY <1>1, <1>3 DEF Frames, FullParts, FramesCurrent
  <1>5. /\ \A q \in Posts : (Standing(q)' <=> Standing(q)) /\ Kind(q)' = Kind(q)
        /\ RowsApart'
    BY <1>1, SameBalloons DEF FullParts
  <1>6. \A i \in DOMAIN wire' : Current(wire[i])'
    <2>1. \A i \in DOMAIN wire' : \E j \in DOMAIN wire : wire'[i] = wire[j]
      BY <1>3
    <2>2. \A j \in DOMAIN wire : wire[j].post \in Posts /\ Current(wire[j])
      BY Kinds DEF FullParts, FramesCurrent
    <2> QED
      BY <1>1, <1>5, <2>1, <2>2 DEF Current
  <1>7. \A q \in Posts : q # p => (InLine(q) => InLine(q)')
    <2>1. \A j \in DOMAIN wire : j = 1 \/ (j - 1 \in DOMAIN wire' /\ wire'[j - 1] = wire[j])
      BY <1>3
    <2> QED
      BY <1>3, <2>1 DEF InLine
  <1>8. \A q \in Posts : /\ ~Pending(q)
                         /\ Opened(q)' <=> Opened(q)
    BY <1>1 DEF Pending, Busy, Opened
  <1>9. Cached(f) # {} <=> Heard(p)
    <2>1. \A e \in cache : e.post = p => e.type = f.type /\ e.weight = f.weight
      BY <1>4 DEF Current, FullParts, FramesCurrent
    <2> QED
      BY <2>1 DEF Cached, Heard
  <1>10. CASE Heard(p) /\ UNCHANGED <<task, cache>>
    <2>1. \A q \in Posts : /\ Heard(q)' <=> Heard(q)
                           /\ Pending(q)' <=> Pending(q)
      BY <1>10 DEF Heard, Pending, Busy
    <2>2. \A q \in Posts : Weighed(q) => Weighed(q)'
      BY <1>1, <1>7, <1>8, <1>10, <2>1 DEF Weighed
    <2>3. PostsServed'
      BY <1>1, <1>8, <2>2 DEF FullParts, PostsServed
    <2>4. ~Busy'
      BY <1>1, <1>10 DEF Busy
    <2>5. FramesCurrent'
      <3>1. \A e \in cache : /\ e.post \in Posts /\ Standing(e.post) /\ e.type = Kind(e.post)
                             /\ e.weight = Weight[post[e.post].b]
        BY Kinds DEF FullParts, FramesCurrent
      <3> QED
        BY <1>1, <1>5, <1>6, <1>10, <2>4, <3>1 DEF FramesCurrent
    <2> QED
      BY <1>5, <1>10, <2>3, <2>5 DEF FullParts
  <1>11. CASE /\ ~Heard(p) /\ task'.frame = f
              /\ \/ /\ f.type = "0x70" /\ cache' = CacheResult(f, NoAnswer)
                    /\ task'.pc = "store"
                 \/ f.type = "0x7a" /\ cache' = cache /\ task'.pc = "decide"
    <2>1. Busy' /\ \A q : Pending(q)' <=> q = p
      BY <1>11 DEF Busy, Pending
    <2>2. \A q : q # p => (Heard(q)' <=> Heard(q))
      BY <1>11 DEF Heard, CacheResult
    <2>3. \A q \in Posts : q # p => (Weighed(q) => Weighed(q)')
      BY <1>1, <1>7, <1>8, <2>1, <2>2 DEF Weighed
    <2>4. Weighed(p) /\ post[p].stage = "empty" => Weighed(p)'
      <3>1. post[p].stage = "empty" => f.type = "0x7a"
        BY <1>4 DEF Current, Kind
      <3>2. f.type = "0x7a" => (Heard(p)' <=> Heard(p))
        BY <1>11 DEF Heard
      <3> QED
        BY <1>4, <1>8, <1>11, <2>1, <3>1, <3>2 DEF Weighed
    <2>5. PostsServed'
      BY <1>1, <1>8, <2>3, <2>4 DEF FullParts, PostsServed
    <2>6. FramesCurrent'
      <3>1. \A e \in cache' : e \in cache \/ (e.post = p /\ e.type = f.type
                                              /\ e.weight = f.weight)
        BY <1>11 DEF CacheResult
      <3>2. \A e \in cache' : /\ e.post \in Posts /\ Standing(e.post) /\ e.type = Kind(e.post)
                              /\ e.weight = Weight[post[e.post].b]
        BY <1>4, <3>1, Kinds DEF FullParts, FramesCurrent, Current
      <3>3. \A e \in cache' : /\ Standing(e.post)' /\ e.type = Kind(e.post)'
                              /\ e.weight = Weight[post'[e.post].b]
        BY <1>1, <1>5, <3>2
      <3>4. Current(task.frame)'
        BY <1>1, <1>4, <1>5, <1>11 DEF Current
      <3> QED
        BY <1>6, <3>3, <3>4 DEF FramesCurrent
    <2> QED
      BY <1>5, <1>11, <2>5, <2>6 DEF FullParts
  <1>12. \/ Heard(p) /\ UNCHANGED <<task, cache>>
         \/ /\ ~Heard(p) /\ task'.frame = f
            /\ \/ /\ f.type = "0x70" /\ cache' = CacheResult(f, NoAnswer)
                  /\ task'.pc = "store"
               \/ f.type = "0x7a" /\ cache' = cache /\ task'.pc = "decide"
    BY <1>0, <1>9, ReadTypes
  <1> QED
    BY <1>10, <1>11, <1>12

\* The empty weight opens the row of its balloon; the full weight comes to the
\* last row of the post, the one of the balloon that stands there.
LEMMA StoreFull ==
  ASSUME CarouselInv, Calm, FullParts, Store
  PROVE  FullParts'
  <1>0. PICK f \in Frames : f = task.frame
    BY StoreTypes
  <1> DEFINE p == f.post
  <1>1. /\ task.pc = "store" /\ Busy /\ Pending(p) /\ p \in Posts /\ f \in Frames
        /\ Current(f) /\ task'.pc = "read" /\ ~Busy'
        /\ UNCHANGED <<landed, post, wire, cache>>
    BY <1>0, StoreTypes, Kinds DEF Busy, Pending, Reading, FullParts, FramesCurrent
  <1>2. FramesCurrent'
    BY <1>1 DEF FullParts, FramesCurrent, Current, Standing, Kind
  <1>3. \A q \in Posts : /\ ~Pending(q)' /\ (Pending(q) => q = p)
                         /\ Heard(q)' <=> Heard(q)
                         /\ InLine(q)' <=> InLine(q)
    BY <1>0, <1>1 DEF Pending, Heard, InLine
  <1>4. rows \in Seq(FillingRows)
    BY DEF CarouselInv, ListenerTypes
  <1>5. f.b = post[p].b /\ Standing(p)
    BY <1>1 DEF Current
  <1>6. CASE /\ f.type = "0x7a" /\ rows' = Append(rows, NewRow(f, task.pass))
             /\ NewRow(f, task.pass) \in FillingRows
    <2> DEFINE new == NewRow(f, task.pass)
    <2>1. new.post = p /\ new.owner = post[p].b /\ new.full = 0
      BY <1>5 DEF NewRow
    <2> HIDE DEF new
    <2>2. /\ Len(rows) \in Nat
          /\ DOMAIN rows = 1 .. Len(rows) /\ DOMAIN rows' = 1 .. Len(rows) + 1
          /\ \A i \in 1 .. Len(rows) : rows'[i] = rows[i]
          /\ rows'[Len(rows) + 1] = new
      BY <1>4, <1>6, Appended DEF new
    <2>3. post[p].stage = "empty" /\ ~Opened(p) /\ Weighed(p) /\ Heard(p)
      <3>1. post[p].stage = "empty"
        BY <1>1, <1>6 DEF Current, Kind
      <3>2. Weighed(p)
        BY <1>1, <3>1 DEF FullParts, PostsServed
      <3> QED
        BY <1>1, <3>1, <3>2 DEF Weighed
    <2>4. \A i \in DOMAIN rows : rows[i].owner # post[p].b
      BY <2>3 DEF Opened
    <2>5. RowsApart'
      <3>1. \A i, j \in DOMAIN rows' : rows'[j].owner = rows'[i].owner => i = j
        BY <2>1, <2>2, <2>4 DEF FullParts, RowsApart
      <3>2. ASSUME NEW i \in DOMAIN rows', NEW q \in Posts, Standing(q),
                   rows'[i].owner = post[q].b
            PROVE  /\ rows'[i].post = q
                   /\ \A j \in DOMAIN rows' : rows'[j].post = q => j <= i
        <4>1. CASE i = Len(rows) + 1
          <5>1. q = p
            BY <1>1, <1>5, <2>1, <2>2, <3>2, <4>1 DEF FullParts, RowsApart
          <5> QED
            BY <2>1, <2>2, <4>1, <5>1
        <4>2. CASE i \in DOMAIN rows
          <5>1. rows'[i] = rows[i] /\ q # p
            BY <2>2, <2>4, <3>2, <4>2
          <5>2. rows[i].post = q /\ \A j \in DOMAIN rows : rows[j].post = q => j <= i
            BY <3>2, <4>2, <5>1 DEF FullParts, RowsApart
          <5> QED
            BY <2>1, <2>2, <5>1, <5>2
        <4> QED
          BY <2>2, <3>2, <4>1, <4>2
      <3>3. \A i \in DOMAIN rows' :
              rows'[i].owner <= landed /\ rows'[i].full \in {0, rows'[i].owner}
        BY <1>1, <1>5, <2>1, <2>2 DEF FullParts, RowsApart
      <3> QED
        BY <1>1, <3>1, <3>2, <3>3 DEF FullParts, RowsApart, Standing
    <2>6. \A q \in Posts : Opened(q)' <=> Opened(q) \/ post[q].b = post[p].b
      BY <1>1, <2>1, <2>2 DEF Opened
    <2>7. PostsServed'
      <3>1. \A q \in Posts : Standing(q) /\ q # p => (Opened(q)' <=> Opened(q))
        BY <1>1, <1>5, <2>6 DEF FullParts, RowsApart
      <3>2. \A q \in Posts : Standing(q) /\ q # p => (Weighed(q) => Weighed(q)')
        BY <1>1, <1>3, <3>1 DEF Weighed
      <3>3. Weighed(p)'
        BY <1>1, <1>3, <2>3, <2>6 DEF Weighed
      <3> QED
        BY <1>1, <2>3, <3>1, <3>2, <3>3 DEF FullParts, PostsServed, Standing
    <2> QED
      BY <1>1, <1>2, <2>5, <2>7 DEF FullParts
  <1>7. CASE /\ DOMAIN rows' = DOMAIN rows /\ f.type = "0x70"
             /\ \A i \in DOMAIN rows :
                  /\ rows'[i].post = rows[i].post /\ rows'[i].owner = rows[i].owner
                  /\ rows'[i].full \in {rows[i].full, IF i = LastOf(p) THEN f.b
                                                     ELSE rows[i].full}
    <2>1. post[p].stage # "empty" /\ post[p].stage \in {"free", "empty", "full"}
      BY <1>1, <1>7, Kinds DEF Current, Kind
    <2>2. Opened(p)
      BY <1>1, <1>5, <2>1 DEF Standing, FullParts, PostsServed
    <2>3. PICK k \in DOMAIN rows : rows[k].owner = post[p].b
      BY <2>2 DEF Opened
    <2>4. rows[k].post = p /\ \A j \in DOMAIN rows : rows[j].post = p => j <= k
      BY <1>1, <1>5, <2>3 DEF FullParts, RowsApart
    <2>5. LastOf(p) = k
      BY <2>4, LastRow DEF CarouselInv
    <2>6. \A i \in DOMAIN rows : rows'[i].full \in {0, rows[i].owner}
      BY <1>5, <1>7, <2>3, <2>5 DEF FullParts, RowsApart
    <2>7. RowsApart'
      BY <1>1, <1>7, <2>6 DEF FullParts, RowsApart, Standing
    <2>8. \A q \in Posts : Opened(q)' <=> Opened(q)
      BY <1>1, <1>7 DEF Opened
    <2>9. \A q \in Posts : post[q].stage = "empty" => (Weighed(q) => Weighed(q)')
      <3>1. \A q \in Posts : post[q].stage = "empty" => ~Pending(q)
        BY <1>3, <2>1
      <3> QED
        BY <1>1, <1>3, <2>8, <3>1 DEF Weighed
    <2>10. PostsServed'
      BY <1>1, <2>8, <2>9 DEF FullParts, PostsServed
    <2> QED
      BY <1>1, <1>2, <2>7, <2>10 DEF FullParts
  <1>8. "database" \notin mishaps
    BY DEF Calm
  <1> QED
    BY <1>0, <1>6, <1>7, <1>8, StoreTypes

LEMMA FullStep ==
  ASSUME CarouselInv, FullInv, [Next]_vars
  PROVE  FullInv'
  <1> SUFFICES ASSUME Calm, FullParts PROVE FullParts'
    BY CalmKept DEF FullInv, FullParts
  <1>1. ASSUME UNCHANGED postVars PROVE FullParts'
    BY <1>1 DEF postVars, FullParts, FramesCurrent, RowsApart, PostsServed, Current, Busy,
                Standing, Kind, Weighed, Opened, Heard, Pending, InLine
  <1>2. CASE UNCHANGED vars
    BY <1>1, <1>2 DEF vars
  <1>3. CASE Listen
    <2>1. ~Connect
      BY DEF Connect, FullParts
    <2> QED
      BY <1>3, <2>1, DecideFull, AnswerFull, StoreFull DEF Listen
  <1>4. ASSUME NEW p \in Posts, PostStep(p) PROVE FullParts'
    BY <1>4, LandFull, SendFullParts, FillFull, LeaveFull DEF PostStep
  <1>5. CASE Read
    BY <1>5, ReadFull
  <1>6. ~Expire /\ ~Break
    BY DEF Expire, Break, Calm
  <1>7. CASE ExpireQueue /\ UNCHANGED postVars
    BY <1>1, <1>7
  <1> QED
    BY <1>1, <1>2, <1>3, <1>4, <1>5, <1>6, <1>7 DEF Next

LEMMA FullStart == Init => FullInv
  <1> SUFFICES ASSUME Init PROVE FullParts
    BY DEF FullInv, FullParts
  <1>1. /\ post = [p \in Posts |-> Free] /\ wire = <<>> /\ task = Reading
        /\ cache = {} /\ rows = <<>>
    BY DEF Init
  <1>2. /\ \A p \in Posts : ~Standing(p) /\ post[p].stage = "free"
        /\ ~Busy /\ task.pc = "read"
    BY <1>1 DEF Standing, Free, Busy, Reading
  <1> QED
    BY <1>1, <1>2 DEF FullParts, FramesCurrent, RowsApart, PostsServed

\* The full weight comes to the row of the balloon that was filled, and a
\* balloon has one row, for every number of balloons, posts and repeated frames
\* and every setting that asks for weights the answer can carry, as long as no
\* frame and no row gets lost.
THEOREM FullBelongsHolds == Spec => []FullBelongs
  <1>1. FullInv => FullBelongs
    BY DEF FullInv, FullBelongs, Calm, RowsApart
  <1> QED
    BY <1>1, FullStart, FullStep, CarouselInvHolds, PTL DEF Spec
-----------------------------------------------------------------------------
(***************************************************************************)
(* Each balloon with its own passport.                                     *)
(***************************************************************************)
Undisturbed == mishaps \in Harmless /\ Fits

Owned(b) == \E i \in DOMAIN rows : rows[i].owner = b

\* The task and the rows have the passport of the balloon they are about.
Paired ==
  /\ Busy => task.pass = IF task.frame.type = "0x7a" THEN task.frame.b ELSE 0
  /\ \A i \in DOMAIN rows : rows[i].pass = rows[i].owner

\* The passport of a balloon on the carousel is there before it, and no
\* passport is lost; nor is a balloon, before it has its row.
NoneLost ==
  /\ \A b \in Balloons : b <= landed => pushed[b] > 0
  /\ \A b \in Balloons : pushed[b] > 0 => Among(b, queue) \/ TaskHas(b) \/ RowHas(b)
  /\ \A b \in Balloons :
       b <= landed => Owned(b) \/ \E p \in Posts : Standing(p) /\ post[p].b = b

\* The balloon on q comes to be weighed before the one on p.
Ahead(p, q) ==
  post[p].stage = "empty" /\ post[q].stage = "empty" /\ post[q].b < post[p].b

\* The empty weights come to the listener in the order of the belt.
InTurn ==
  \A p, q \in Posts : Ahead(p, q) =>
    /\ post[p].sends > 0 => post[q].sends > 0
    /\ \A i \in DOMAIN wire : wire[i].post = p =>
         Heard(q) \/ Pending(q) \/ \E j \in DOMAIN wire : j < i /\ wire[j].post = q

PairParts == Paired /\ NoneLost /\ InTurn

PairInv == Undisturbed => PairParts

LEMMA UndisturbedIs ==
  ASSUME Undisturbed
  PROVE  /\ Calm /\ AllRead /\ Remembers /\ InOrder
         /\ mishaps \cap {"slow", "removed", "overtake", "redis", "database", "pause"} = {}
  <1>1. mishaps \in {{}, {"reread"}, {"repeat"}, {"pair"}, {"drop", "reread"}} /\ Fits
    BY DEF Undisturbed, Harmless
  <1>2. mishaps \cap {"late", "garbled", "broken", "killed", "database"} = {}
    BY <1>1
  <1>3. mishaps \cap {"unread", "restart", "passport", "status"} = {}
    BY <1>1
  <1>4. ~({"pair", "drop"} \subseteq mishaps) /\ "restart" \notin mishaps
    BY <1>1
  <1>5. mishaps \cap {"slow", "removed", "overtake", "redis", "database", "pause"} = {}
    BY <1>1
  <1> QED
    BY <1>1, <1>2, <1>3, <1>4, <1>5 DEF Calm, AllRead, Remembers, InOrder

\* The passport at the head of the list is that of the frame which is read.
LEMMA NextPassport ==
  ASSUME CarouselInv, FullParts, OnePlace, InOrder, PairParts,
         task.pc = "read", NEW f, wire # <<>>, f = Head(wire), f.type = "0x7a",
         ~Heard(f.post)
  PROVE  queue # <<>> /\ Head(queue) = f.b
  <1> DEFINE p == f.post
  <1>1. 1 \in DOMAIN wire /\ f = wire[1] /\ \A j \in DOMAIN wire : ~(j < 1)
    <2>1. wire \in Seq(Frames)
      BY DEF CarouselInv, ListenerTypes
    <2> QED
      BY <2>1, Shortened
  <1>2. p \in Posts /\ Standing(p) /\ f.b = post[p].b /\ post[p].stage = "empty"
        /\ post[p].b \in Balloons
    BY <1>1, Kinds DEF FullParts, FramesCurrent, Current, Kind
  <1>3. ~Busy /\ \A q : ~Pending(q)
    BY DEF Busy, Pending
  <1>4. \A b \in Balloons : ~TaskHas(b) /\ (RowHas(b) <=> Owned(b))
    BY <1>3 DEF TaskHas, RowHas, Owned, PairParts, Paired
  <1>5. \A q \in Posts : Opened(q) <=> Owned(post[q].b)
    BY DEF Opened, Owned
  <1>6. f.b \in Balloons /\ ~Owned(f.b) /\ f.b <= landed
    BY <1>2, <1>5 DEF FullParts, PostsServed, Weighed, RowsApart
  <1>7. Among(f.b, queue)
    BY <1>4, <1>6 DEF PairParts, NoneLost
  <1>8. queue \in Seq(Balloons) /\ Increasing(queue)
    BY DEF CarouselInv, ReaderInv, OrderInv, QueueOrder, ReaderShape, ReaderTypeOK
  <1>9. queue # <<>>
    BY <1>7 DEF Among
  <1> DEFINE c == Head(queue)
  <1>10. c \in Balloons /\ Among(c, queue) /\ (c = f.b \/ c < f.b)
    <2>1. /\ c \in Balloons /\ Tail(queue) \in Seq(Balloons)
          /\ \A x : Among(x, queue) <=> x = c \/ Among(x, Tail(queue))
      BY <1>8, <1>9, Shortened
    <2>2. \A x : Among(x, Tail(queue)) => c < x
      BY <1>8, <1>9, IncreasingShortened, BalloonsAreNumbers
    <2> QED
      BY <1>7, <2>1, <2>2
  <1> HIDE DEF c
  <1>11. ASSUME c < f.b PROVE FALSE
    <2>1. ~Owned(c)
      BY <1>4, <1>10 DEF OnePlace
    <2>2. c <= landed
      <3>1. c \in Nat /\ f.b \in Nat /\ landed \in Nat
        BY <1>6, <1>10, Kinds
      <3> QED
        BY <1>6, <1>11, <3>1
    <2>3. PICK q \in Posts : Standing(q) /\ post[q].b = c
      BY <1>10, <2>1, <2>2 DEF PairParts, NoneLost
    <2>4. post[q].stage = "empty" /\ ~Opened(q)
      BY <1>5, <2>1, <2>3, Kinds DEF Standing, FullParts, PostsServed
    <2>5. Ahead(p, q)
      BY <1>2, <1>11, <2>3, <2>4 DEF Ahead
    <2>6. Heard(q)
      BY <1>1, <1>2, <1>3, <2>5 DEF PairParts, InTurn
    <2> QED
      BY <1>3, <2>4, <2>6 DEF FullParts, PostsServed, Weighed
  <1> QED
    BY <1>9, <1>10, <1>11 DEF c

LEMMA LandPairs ==
  ASSUME CarouselInv, FullParts, AllServed, PairParts, mishaps \cap {"slow", "removed"} = {},
         NEW p \in Posts, Land(p), UNCHANGED readerVars
  PROVE  PairParts'
  <1>1. /\ UNCHANGED <<wire, task, cache, rows, pushed, queue>> /\ landed' = landed + 1
        /\ landed' <= passed /\ landed \in Nat
    <2>1. landed \in Nat /\ passed \in Nat
      BY ReaderBounds, Kinds DEF CarouselInv, ReaderInv, ReaderShape, ReaderTypeOK
    <2> QED
      BY <2>1 DEF Land, readerVars
  <1>2. landed' \in Balloons
    BY LandTypes
  <1>3. /\ post[p] = Free /\ post'[p].b = landed' /\ post'[p].stage = "empty"
        /\ post'[p].sends = 0 /\ \A q \in Posts : q # p => post'[q] = post[q]
    <2>1. post[p] = Free /\ post' = [post EXCEPT ![p].b = landed', ![p].stage = "empty"]
      BY DEF Land
    <2>2. post[p] \in Posting /\ Free.stage = "free" /\ p \in DOMAIN post
          /\ DOMAIN post' = DOMAIN post
      BY <2>1, AnswersExist DEF CarouselInv, BeltTypes
    <2> DEFINE row == [Free EXCEPT !.b = landed', !.stage = "empty"]
    <2>3. post' = [post EXCEPT ![p] = row] /\ row.stage = "empty"
      BY <2>1, <2>2 DEF Free
    <2> HIDE DEF row
    <2>4. post'[p].stage = "empty"
      BY <2>2, <2>3
    <2>5. post' # post
      BY <2>1, <2>2, <2>4
    <2> QED
      BY <2>5, LandTypes
  <1>4. pushed[landed'] > 0
    <2>1. Settled(landed')
      BY DEF Land
    <2>2. Served(landed') \/ \E i \in DOMAIN buffer : Among(landed', buffer[i])
      BY <1>1, <1>2 DEF AllServed
    <2> QED
      BY <2>1, <2>2 DEF Settled, Served
  <1>5. Paired'
    BY <1>1 DEF PairParts, Paired, Busy
  <1>6. NoneLost'
    <2>1. \A b \in Balloons : b <= landed' => b <= landed \/ b = landed'
      BY <1>1 DEF Balloons
    <2>2. \A b \in Balloons : b <= landed' => pushed'[b] > 0
      BY <1>1, <1>4, <2>1 DEF PairParts, NoneLost
    <2>3. \A b \in Balloons :
            pushed'[b] > 0 => Among(b, queue') \/ TaskHas(b)' \/ RowHas(b)'
      BY <1>1 DEF PairParts, NoneLost, TaskHas, RowHas, Busy
    <2>4. Standing(p)' /\ ~Standing(p) /\ \A q \in Posts : q # p => (Standing(q)' <=> Standing(q))
      BY <1>3, AnswersExist DEF Standing
    <2>5. \A b \in Balloons : b <= landed' =>
            Owned(b)' \/ \E q \in Posts : Standing(q)' /\ post'[q].b = b
      BY <1>1, <1>3, <2>1, <2>4 DEF PairParts, NoneLost, Owned
    <2> QED
      BY <2>2, <2>3, <2>5 DEF NoneLost
  <1>7. InTurn'
    <2>1. ~InLine(p)
      BY <1>3, AnswersExist DEF InLine, FullParts, FramesCurrent, Current, Standing
    <2>2. \A q \in Posts : Standing(q) => post[q].b <= landed /\ post[q].b \in Nat
      BY Kinds DEF FullParts, RowsApart
    <2>3. ASSUME NEW x \in Posts, NEW y \in Posts, Ahead(x, y)'
          PROVE  y # p /\ (x # p => Ahead(x, y))
      <3>1. \A q \in Posts : q # p /\ post[q].stage = "empty" => post'[q].b < landed'
        BY <1>1, <1>3, <2>2 DEF Standing
      <3>2. y # p
        <4>1. CASE x = p
          BY <1>1, <1>3, <2>3, <4>1 DEF Ahead
        <4>2. CASE x # p
          <5>1. post'[x].b < landed' /\ post'[x].b \in Nat /\ landed' \in Nat
            BY <1>1, <1>3, <2>2, <2>3, <3>1, <4>2 DEF Ahead, Standing
          <5>2. post'[y].b < post'[x].b
            BY <2>3 DEF Ahead
          <5> QED
            BY <1>3, <5>1, <5>2
        <4> QED
          BY <4>1, <4>2
      <3> QED
        BY <1>3, <2>3, <3>2 DEF Ahead
    <2>4. ASSUME NEW x \in Posts, NEW y \in Posts, Ahead(x, y)'
          PROVE  /\ post'[x].sends > 0 => post'[y].sends > 0
                 /\ \A i \in DOMAIN wire : wire[i].post = x =>
                      Heard(y) \/ Pending(y) \/ \E j \in DOMAIN wire : j < i /\ wire[j].post = y
      <3>1. CASE x = p
        BY <1>3, <2>1, <3>1 DEF InLine
      <3>2. CASE x # p
        BY <1>3, <2>3, <2>4, <3>2 DEF PairParts, InTurn
      <3> QED
        BY <3>1, <3>2
    <2> QED
      BY <1>1, <2>4 DEF InTurn, Heard, Pending, Busy
  <1> QED
    BY <1>5, <1>6, <1>7 DEF PairParts

\* A post sends in its turn.
LEMMA SendPairs ==
  ASSUME CarouselInv, Calm, FullParts, PairParts, "overtake" \notin mishaps,
         NEW p \in Posts, SendEmpty(p) \/ SendFull(p), UNCHANGED readerVars
  PROVE  PairParts'
  <1> DEFINE f == Frame(p, IF post[p].stage = "empty" THEN "0x7a" ELSE "0x70")
  <1>1. UNCHANGED <<landed, task, cache, rows, pushed, queue>>
    BY DEF SendEmpty, SendFull, Send, readerVars
  <1>2. /\ post[p].stage \in {"empty", "full"} /\ post'[p].sends > 0
        /\ \A q \in Posts : post'[q].b = post[q].b /\ post'[q].stage = post[q].stage
        /\ \A q \in Posts : q # p => post'[q] = post[q]
        /\ wire' = Append(wire, f)
    <2>1. task.pc # "down" /\ "garbled" \notin mishaps
      BY DEF FullParts, Calm
    <2> QED
      BY <2>1, SendTypes
  <1>3. f \in Frames /\ f.post = p
    <2>1. BeltTypes /\ post[p].stage # "free"
      BY <1>2 DEF CarouselInv
    <2> QED
      BY <1>2, <2>1, FrameTypes
  <1> HIDE DEF f
  <1>4. wire \in Seq(Frames)
    BY DEF CarouselInv, ListenerTypes
  <1>5. /\ Len(wire) \in Nat /\ DOMAIN wire = 1 .. Len(wire)
        /\ DOMAIN wire' = 1 .. Len(wire) + 1
        /\ \A i \in 1 .. Len(wire) : wire'[i] = wire[i]
        /\ wire'[Len(wire) + 1] = f
    BY <1>2, <1>3, <1>4, Appended
  <1>6. Paired'
    BY <1>1 DEF PairParts, Paired, Busy
  <1>7. NoneLost'
    <2>1. \A q \in Posts : Standing(q)' <=> Standing(q)
      BY <1>2 DEF Standing
    <2> QED
      BY <1>1, <1>2, <2>1 DEF PairParts, NoneLost, TaskHas, RowHas, Owned, Busy
  <1>8. InTurn'
    <2>1. ASSUME NEW x \in Posts, NEW y \in Posts, Ahead(x, y)'
          PROVE  Ahead(x, y) /\ post[y].b < post[x].b
      BY <1>2, <2>1 DEF Ahead
    <2>2. ASSUME NEW y \in Posts, Ahead(p, y)
          PROVE  post[y].sends > 0
      <3>1. SendEmpty(p)
        BY <2>2 DEF Ahead, SendFull
      <3>2. post[y].stage = "empty" /\ post[y].sends = 0 => post[p].b <= post[y].b
        BY <3>1 DEF SendEmpty
      <3>3. post[p].b \in Nat /\ post[y].b \in Nat /\ post[y].sends \in Nat
        BY Kinds
      <3> QED
        BY <2>2, <3>2, <3>3 DEF Ahead
    <2>3. ASSUME NEW x \in Posts, NEW y \in Posts, Ahead(x, y)'
          PROVE  post'[x].sends > 0 => post'[y].sends > 0
      <3>1. CASE x = p
        BY <1>2, <2>1, <2>2, <2>3, <3>1
      <3>2. CASE x # p
        BY <1>2, <2>1, <2>3, <3>2 DEF PairParts, InTurn
      <3> QED
        BY <3>1, <3>2
    <2>4. ASSUME NEW x \in Posts, NEW y \in Posts, Ahead(x, y)',
                 NEW i \in DOMAIN wire', wire'[i].post = x
          PROVE  Heard(y) \/ Pending(y) \/ \E j \in DOMAIN wire' : j < i /\ wire'[j].post = y
      <3>1. CASE i \in DOMAIN wire
        <4>1. Heard(y) \/ Pending(y) \/ \E j \in DOMAIN wire : j < i /\ wire[j].post = y
          BY <1>5, <2>1, <2>4, <3>1 DEF PairParts, InTurn
        <4> QED
          BY <1>5, <4>1
      <3>2. CASE i = Len(wire) + 1
        <4>1. x = p
          BY <1>3, <1>5, <2>4, <3>2
        <4>2. Ahead(p, y)
          BY <2>1, <2>4, <4>1
        <4>3. InLine(y) \/ Pending(y) \/ Heard(y)
          BY <2>2, <4>2 DEF Ahead, FullParts, PostsServed, Weighed
        <4>4. InLine(y) => \E j \in DOMAIN wire' : j < i /\ wire'[j].post = y
          <5>1. \A j \in DOMAIN wire : j \in DOMAIN wire' /\ j < i /\ wire'[j] = wire[j]
            BY <1>5, <3>2
          <5> QED
            BY <5>1 DEF InLine
        <4> QED
          BY <4>3, <4>4
      <3> QED
        BY <1>5, <2>4, <3>1, <3>2
    <2> QED
      BY <1>1, <2>3, <2>4 DEF InTurn, Heard, Pending, Busy
  <1> QED
    BY <1>6, <1>7, <1>8 DEF PairParts

\* A post goes on: the balloon that leaves it has its row.
LEMMA ForgetPairs ==
  ASSUME CarouselInv, FullParts, PairParts, NEW p \in Posts, Fill(p) \/ Leave(p),
         UNCHANGED readerVars
  PROVE  PairParts'
  <1>1. /\ UNCHANGED <<landed, wire, task, rows, pushed, queue>>
        /\ \A q \in Posts : q # p => post'[q] = post[q]
        /\ \A e \in cache : e.post # p => e \in cache'
    BY FillTypes, LeaveTypes DEF Fill, Leave, readerVars, Forget
  <1>2. /\ post'[p].stage # "empty"
        /\ (Standing(p)' /\ post'[p].b = post[p].b) \/ Owned(post[p].b)
    <2>1. CASE Fill(p)
      BY <2>1, FillTypes DEF Standing
    <2>2. CASE Leave(p)
      <3>1. Opened(p) /\ post'[p].stage = "free"
        BY <2>2, LeaveTypes, AnswersExist DEF Leave, FullParts, PostsServed
      <3> QED
        BY <3>1 DEF Opened, Owned
    <2> QED
      BY <2>1, <2>2
  <1>3. Paired'
    BY <1>1 DEF PairParts, Paired, Busy
  <1>4. NoneLost'
    <2>1. \A b \in Balloons : b <= landed =>
            Owned(b) \/ \E q \in Posts : Standing(q)' /\ post'[q].b = b
      BY <1>1, <1>2 DEF PairParts, NoneLost, Standing
    <2> QED
      BY <1>1, <2>1 DEF PairParts, NoneLost, TaskHas, RowHas, Owned, Busy
  <1>5. InTurn'
    <2>1. ASSUME NEW x \in Posts, NEW y \in Posts, Ahead(x, y)'
          PROVE  x # p /\ y # p /\ Ahead(x, y)
      BY <1>1, <1>2, <2>1 DEF Ahead
    <2>2. \A q : q # p /\ Heard(q) => Heard(q)'
      BY <1>1 DEF Heard
    <2> QED
      BY <1>1, <2>1, <2>2 DEF PairParts, InTurn, Pending, Busy
  <1> QED
    BY <1>3, <1>4, <1>5 DEF PairParts

\* The frame that is read gets the passport of its balloon.
LEMMA ReadPairs ==
  ASSUME CarouselInv, FullParts, OnePlace, InOrder, PairParts, "redis" \notin mishaps,
         Read, pushed' = pushed
  PROVE  PairParts'
  <1>0. PICK f \in Frames : f = Head(wire)
    BY ReadTypes
  <1> DEFINE p == f.post
  <1>1. /\ wire # <<>> /\ wire' = Tail(wire) /\ task.pc = "read"
        /\ \A q \in Posts : /\ post'[q].b = post[q].b /\ post'[q].stage = post[q].stage
                            /\ post'[q].sends = post[q].sends
        /\ UNCHANGED <<landed, rows>>
    BY ReadTypes
  <1>2. /\ Len(wire) \in Nat \ {0} /\ DOMAIN wire = 1 .. Len(wire) /\ f = wire[1]
        /\ DOMAIN wire' = 1 .. Len(wire) - 1
        /\ \A i \in 1 .. Len(wire) - 1 : wire'[i] = wire[i + 1]
    <2>1. wire \in Seq(Frames)
      BY DEF CarouselInv, ListenerTypes
    <2> QED
      BY <1>0, <1>1, <2>1, Shortened
  <1>3. p \in Posts /\ Current(f)
    BY <1>1, <1>2 DEF Frames, FullParts, FramesCurrent
  <1>4. ~Busy /\ (\A q : ~Pending(q)) /\ \A b : ~TaskHas(b)
    BY <1>1 DEF Pending, Busy, TaskHas
  <1>5. Cached(f) # {} <=> Heard(p)
    <2>1. \A e \in cache : e.post = p => e.type = f.type /\ e.weight = f.weight
      BY <1>3 DEF Current, FullParts, FramesCurrent
    <2> QED
      BY <2>1 DEF Cached, Heard
  <1>6. ASSUME cache \subseteq cache', Heard(p)' \/ Pending(p)'
        PROVE  InTurn'
    <2>1. \A q : Heard(q) => Heard(q)'
      BY <1>6 DEF Heard
    <2>2. ASSUME NEW x \in Posts, NEW y \in Posts, Ahead(x, y)',
                 NEW i \in DOMAIN wire', wire'[i].post = x
          PROVE  Heard(y)' \/ Pending(y)' \/ \E j \in DOMAIN wire' : j < i /\ wire'[j].post = y
      <3>1. i + 1 \in DOMAIN wire /\ wire[i + 1].post = x /\ i \in Nat
        BY <1>2, <2>2
      <3>2. Ahead(x, y)
        BY <1>1, <2>2 DEF Ahead
      <3>3. Heard(y) \/ \E j \in DOMAIN wire : j < i + 1 /\ wire[j].post = y
        BY <1>4, <3>1, <3>2 DEF PairParts, InTurn
      <3>4. ASSUME NEW j \in DOMAIN wire, j < i + 1, wire[j].post = y, y # p
            PROVE  \E m \in DOMAIN wire' : m < i /\ wire'[m].post = y
        <4>1. j # 1
          BY <1>2, <3>4
        <4>2. j - 1 \in DOMAIN wire' /\ j - 1 < i /\ wire'[j - 1] = wire[j]
          BY <1>2, <3>1, <3>4, <4>1
        <4> QED
          BY <3>4, <4>2
      <3> QED
        BY <1>6, <2>1, <3>3, <3>4
    <2>3. ASSUME NEW x \in Posts, NEW y \in Posts, Ahead(x, y)'
          PROVE  post'[x].sends > 0 => post'[y].sends > 0
      BY <1>1, <2>3 DEF PairParts, InTurn, Ahead
    <2> QED
      BY <2>2, <2>3 DEF InTurn
  <1>7. ASSUME \A b \in Balloons : Among(b, queue) => Among(b, queue') \/ TaskHas(b)'
        PROVE  NoneLost'
    <2>1. \A q \in Posts : Standing(q)' <=> Standing(q)
      BY <1>1 DEF Standing
    <2>2. \A b \in Balloons : b <= landed' =>
            Owned(b)' \/ \E q \in Posts : Standing(q)' /\ post'[q].b = b
      BY <1>1, <2>1 DEF PairParts, NoneLost, Owned
    <2>3. \A b \in Balloons :
            pushed'[b] > 0 => Among(b, queue') \/ TaskHas(b)' \/ RowHas(b)'
      BY <1>1, <1>4, <1>7 DEF PairParts, NoneLost, RowHas
    <2> QED
      BY <1>1, <2>2, <2>3 DEF PairParts, NoneLost
  <1>8. CASE Heard(p) /\ UNCHANGED <<task, cache, queue>>
    <2>1. Paired'
      BY <1>1, <1>8 DEF PairParts, Paired, Busy
    <2>2. Heard(p)'
      BY <1>8 DEF Heard
    <2> QED
      BY <1>6, <1>7, <1>8, <2>1, <2>2 DEF PairParts
  <1>9. CASE /\ f.type = "0x70" /\ cache' = CacheResult(f, NoAnswer) /\ queue' = queue
             /\ task' = [pc |-> "store", frame |-> f, pass |-> 0]
    <2>1. Paired'
      BY <1>1, <1>9 DEF PairParts, Paired
    <2>2. Pending(p)' /\ cache \subseteq cache'
      BY <1>9 DEF Pending, Busy, CacheResult
    <2> QED
      BY <1>6, <1>7, <1>9, <2>1, <2>2 DEF PairParts
  <1>10. CASE /\ f.type = "0x7a" /\ cache' = cache
              /\ queue # <<>> /\ Head(queue) = f.b /\ queue' = Tail(queue)
              /\ task' = [pc |-> "decide", frame |-> f, pass |-> f.b]
    <2>1. Paired'
      BY <1>1, <1>10 DEF PairParts, Paired
    <2>2. Pending(p)' /\ TaskHas(f.b)'
      BY <1>10 DEF Pending, Busy, TaskHas
    <2>3. queue \in Seq(Balloons)
      BY DEF CarouselInv, ReaderInv, ReaderShape, ReaderTypeOK
    <2>4. \A b : Among(b, queue) => b = f.b \/ Among(b, queue')
      BY <1>10, <2>3, Shortened
    <2> QED
      BY <1>6, <1>7, <1>10, <2>1, <2>2, <2>4 DEF PairParts
  <1>11. CASE Heard(p)
    <2>1. UNCHANGED <<task, cache, queue>>
      BY <1>0, <1>5, <1>11 DEF Read
    <2> QED
      BY <1>8, <1>11, <2>1
  <1>12. CASE ~Heard(p) /\ f.type = "0x70"
    BY <1>0, <1>5, <1>9, <1>12 DEF Read
  <1>13. CASE ~Heard(p) /\ f.type = "0x7a"
    <2>1. queue # <<>> /\ Head(queue) = f.b
      BY <1>0, <1>1, <1>13, NextPassport
    <2>2. cache' = cache /\ TakePassport(f)
      BY <1>0, <1>5, <1>13 DEF Read
    <2>3. queue' = Tail(queue) /\ task' = [pc |-> "decide", frame |-> f, pass |-> f.b]
      BY <2>1, <2>2 DEF TakePassport
    <2> QED
      BY <1>10, <1>13, <2>1, <2>2, <2>3
  <1> QED
    BY <1>11, <1>12, <1>13 DEF Frames

\* The listener answers; what it has of the balloon stays.
LEMMA AnswerPairs ==
  ASSUME CarouselInv, Calm, FullParts, PairParts, Decide \/ Answer, UNCHANGED readerVars
  PROVE  PairParts'
  <1>1. /\ Busy /\ Busy' /\ task'.frame = task.frame /\ task'.pass = task.pass
        /\ cache \subseteq cache'
        /\ \A q \in Posts : /\ post'[q].b = post[q].b /\ post'[q].stage = post[q].stage
                            /\ post'[q].sends = post[q].sends
        /\ UNCHANGED <<landed, wire, rows>>
    <2>1. CASE Decide
      <3>1. task.frame.post \in Posts /\ task.pass \in Passes /\ Fits
        BY <2>1, TaskFacts, DecideTypes DEF Frames, CarouselInv, Calm
      <3>2. /\ task'.pc \in {"answer", "store"} /\ task'.frame = task.frame
            /\ task'.pass = task.pass
            /\ \E answer \in Answers : cache' = CacheResult(task.frame, answer)
        BY <2>1, <3>1, DecideTypes, AnswerFits
      <3>3. cache \subseteq cache'
        BY <3>2 DEF CacheResult
      <3> QED
        BY <2>1, <3>2, <3>3, DecideTypes DEF Busy
    <2>2. CASE Answer
      <3>1. "broken" \notin mishaps
        BY DEF Calm
      <3>2. task' = [pc |-> "store", frame |-> task.frame, pass |-> task.pass]
        BY <2>2, <3>1, AnswerTypes
      <3> QED
        BY <2>2, <3>2, AnswerTypes DEF Busy
    <2> QED
      BY <2>1, <2>2
  <1>2. UNCHANGED <<pushed, queue>>
    BY DEF readerVars
  <1>3. Paired'
    BY <1>1 DEF PairParts, Paired
  <1>4. NoneLost'
    <2>1. \A q \in Posts : Standing(q)' <=> Standing(q)
      BY <1>1 DEF Standing
    <2>2. \A b : (TaskHas(b)' <=> TaskHas(b)) /\ (RowHas(b)' <=> RowHas(b))
                 /\ (Owned(b)' <=> Owned(b))
      BY <1>1 DEF TaskHas, RowHas, Owned
    <2> QED
      BY <1>1, <1>2, <2>1, <2>2 DEF PairParts, NoneLost
  <1>5. InTurn'
    <2>1. \A q : (Heard(q) => Heard(q)') /\ (Pending(q)' <=> Pending(q))
      BY <1>1 DEF Heard, Pending
    <2>2. \A x, y \in Posts : Ahead(x, y)' => Ahead(x, y)
      BY <1>1 DEF Ahead
    <2> QED
      BY <1>1, <2>1, <2>2 DEF PairParts, InTurn
  <1> QED
    BY <1>3, <1>4, <1>5 DEF PairParts

\* What is stored, when no row gets lost: a row for the balloon that is weighed
\* empty, or the full weight in the row of the balloon that was filled.
LEMMA StoredIs ==
  ASSUME CarouselInv, FullParts, Paired, "database" \notin mishaps, Store
  PROVE  LET f == task.frame IN
         \/ /\ f.type = "0x7a" /\ rows' = Append(rows, NewRow(f, f.b))
            /\ NewRow(f, f.b) \in FillingRows /\ ~Owned(f.b)
         \/ /\ f.type = "0x70" /\ DOMAIN rows' = DOMAIN rows
            /\ \E k \in DOMAIN rows :
                 /\ rows[k].owner = f.b /\ rows' = [rows EXCEPT ![k].full = f.b]
                 /\ \A i \in DOMAIN rows :
                      /\ rows'[i].owner = rows[i].owner /\ rows'[i].pass = rows[i].pass
                      /\ rows'[i].full = IF i = k THEN f.b ELSE rows[i].full
  <1>0. PICK f \in Frames : f = task.frame
    BY StoreTypes
  <1> DEFINE p == f.post
  <1>1. /\ task.pc = "store" /\ Busy /\ Pending(p) /\ p \in Posts /\ Current(f)
    BY <1>0, StoreTypes, Kinds DEF Busy, Pending, FullParts, FramesCurrent
  <1>2. f.b = post[p].b /\ Standing(p) /\ f.type = Kind(p)
    BY <1>1 DEF Current
  <1>3. CASE /\ f.type = "0x7a" /\ rows' = Append(rows, NewRow(f, task.pass))
             /\ NewRow(f, task.pass) \in FillingRows
    <2>1. task.pass = f.b
      BY <1>0, <1>1, <1>3 DEF Paired
    <2>2. post[p].stage = "empty"
      BY <1>2, <1>3 DEF Kind
    <2>3. ~Opened(p)
      BY <1>1, <2>2 DEF FullParts, PostsServed, Weighed
    <2> QED
      BY <1>0, <1>2, <1>3, <2>1, <2>3 DEF Opened, Owned
  <1>4. CASE /\ f.type = "0x70" /\ DOMAIN rows' = DOMAIN rows
             /\ rows' = [rows EXCEPT ![LastOf(p)].full = f.b]
             /\ \A i \in DOMAIN rows :
                  /\ rows'[i].owner = rows[i].owner /\ rows'[i].pass = rows[i].pass
                  /\ rows'[i].full = IF i = LastOf(p) THEN f.b ELSE rows[i].full
    <2>1. Opened(p)
      BY <1>1, <1>2, <1>4, Kinds DEF Kind, Standing, FullParts, PostsServed
    <2>2. PICK k \in DOMAIN rows : rows[k].owner = f.b
      BY <1>2, <2>1 DEF Opened
    <2>3. rows[k].post = p /\ \A j \in DOMAIN rows : rows[j].post = p => j <= k
      BY <1>1, <1>2, <2>2 DEF FullParts, RowsApart
    <2>4. LastOf(p) = k
      BY <2>3, LastRow DEF CarouselInv
    <2> QED
      BY <1>0, <1>4, <2>2, <2>4
  <1>5. CASE rows' = rows /\ f.type = "0x70"
    <2>1. Opened(p)
      BY <1>1, <1>2, <1>5, Kinds DEF Kind, Standing, FullParts, PostsServed
    <2>2. PICK k \in DOMAIN rows : rows[k].owner = f.b
      BY <1>2, <2>1 DEF Opened
    <2>3. rows[k].post = p /\ \A j \in DOMAIN rows : rows[j].post = p => j <= k
      BY <1>1, <1>2, <2>2 DEF FullParts, RowsApart
    <2>4. LastOf(p) = k /\ k # 0
      BY <2>3, LastRow, Kinds DEF CarouselInv
    <2>5. ProcessCarouselData(task.frame, task.pass) = {[rows EXCEPT ![k].full = f.b]}
      BY <1>0, <1>5, <2>4 DEF ProcessCarouselData
    <2>6. rows' = [rows EXCEPT ![k].full = f.b]
      BY <2>5 DEF Store
    <2>7. \A i \in DOMAIN rows : i = k => rows'[i].full = f.b
      <3>1. [rows[k] EXCEPT !.full = f.b].full = f.b
        BY <2>2, Kinds DEF FillingRows
      <3> QED
        BY <2>2, <2>6, <3>1
    <2> QED
      BY <1>0, <1>5, <2>2, <2>6, <2>7
  <1> QED
    BY <1>0, <1>3, <1>4, <1>5, StoreTypes

LEMMA StorePairs ==
  ASSUME CarouselInv, FullParts, PairParts, "database" \notin mishaps, Store,
         UNCHANGED readerVars
  PROVE  PairParts'
  <1>0. PICK f \in Frames : f = task.frame
    BY StoreTypes
  <1> DEFINE p == f.post
  <1>1. /\ Busy /\ task.pc = "store" /\ task' = Reading
        /\ UNCHANGED <<landed, post, wire, cache, pushed, queue>>
    BY StoreTypes DEF Busy, readerVars
  <1>2. ~Busy' /\ (\A b : ~TaskHas(b)') /\ p \in Posts
    BY <1>1 DEF Reading, Busy, TaskHas, Frames
  <1>3. ASSUME \A i \in DOMAIN rows' : rows'[i].pass = rows'[i].owner,
               \A b \in Balloons : Owned(b) => Owned(b)',
               \A b \in Balloons : RowHas(b) \/ TaskHas(b) => RowHas(b)'
        PROVE  PairParts'
    <2>1. Paired'
      BY <1>2, <1>3 DEF Paired
    <2>2. NoneLost'
      BY <1>1, <1>3 DEF PairParts, NoneLost, Standing
    <2>3. InTurn'
      <3>1. \A q \in Posts : post[q].stage = "empty" /\ Pending(q) => Heard(q)
        BY <1>1 DEF FullParts, PostsServed, Weighed
      <3>2. \A q : Heard(q)' <=> Heard(q)
        BY <1>1 DEF Heard
      <3> QED
        BY <1>1, <3>1, <3>2 DEF PairParts, InTurn, Ahead
    <2> QED
      BY <2>1, <2>2, <2>3 DEF PairParts
  <1>4. Paired
    BY DEF PairParts
  <1>5. CASE /\ f.type = "0x7a" /\ rows' = Append(rows, NewRow(f, f.b))
             /\ NewRow(f, f.b) \in FillingRows
    <2> DEFINE new == NewRow(f, f.b)
    <2>1. new.owner = f.b /\ new.pass = f.b
      BY DEF NewRow
    <2> HIDE DEF new
    <2>2. /\ Len(rows) \in Nat
          /\ DOMAIN rows = 1 .. Len(rows) /\ DOMAIN rows' = 1 .. Len(rows) + 1
          /\ \A i \in 1 .. Len(rows) : rows'[i] = rows[i]
          /\ rows'[Len(rows) + 1] = new
      <3>1. rows \in Seq(FillingRows)
        BY DEF CarouselInv, ListenerTypes
      <3> QED
        BY <1>5, <3>1, Appended DEF new
    <2>3. \A i \in DOMAIN rows' : (i \in DOMAIN rows /\ rows'[i] = rows[i]) \/ rows'[i] = new
      BY <2>2
    <2>4. /\ \A i \in DOMAIN rows : i \in DOMAIN rows' /\ rows'[i] = rows[i]
          /\ Len(rows) + 1 \in DOMAIN rows'
      BY <2>2
    <2>5. \A i \in DOMAIN rows' : rows'[i].pass = rows'[i].owner
      BY <1>4, <2>1, <2>3 DEF Paired
    <2>6. \A b \in Balloons : TaskHas(b) => b = f.b
      BY <1>0, <1>1, <1>4, <1>5 DEF Paired, TaskHas
    <2>7. \A b \in Balloons : RowHas(b) \/ TaskHas(b) => RowHas(b)'
      BY <2>1, <2>2, <2>4, <2>6 DEF RowHas
    <2>8. \A b \in Balloons : Owned(b) => Owned(b)'
      BY <2>4 DEF Owned
    <2> QED
      BY <1>3, <2>5, <2>7, <2>8
  <1>6. CASE /\ f.type = "0x70" /\ DOMAIN rows' = DOMAIN rows
             /\ \A i \in DOMAIN rows :
                  rows'[i].owner = rows[i].owner /\ rows'[i].pass = rows[i].pass
    <2>1. \A b \in Balloons : ~TaskHas(b)
      BY <1>0, <1>1, <1>4, <1>6, BalloonsAreNumbers DEF Paired, TaskHas, Optical
    <2> QED
      BY <1>3, <1>4, <1>6, <2>1 DEF Paired, Owned, RowHas
  <1> QED
    BY <1>0, <1>4, <1>5, <1>6, StoredIs

\* The reader adds a passport to the list.
LEMMA ReaderPairs ==
  ASSUME CarouselInv, Remembers, PairParts, ReaderNext, UNCHANGED postVars
  PROVE  PairParts'
  <1>1. UNCHANGED <<landed, post, wire, task, cache, rows>>
    BY DEF postVars
  <1>2. Paired' /\ InTurn'
    BY <1>1 DEF PairParts, Paired, InTurn, Ahead, Heard, Pending, Busy
  <1>3. queue \in Seq(Balloons) /\ pushed \in [Balloons -> Nat]
    BY DEF CarouselInv, ReaderInv, ReaderShape, ReaderTypeOK
  <1>4. /\ \A b \in Balloons : pushed[b] > 0 => pushed'[b] > 0
        /\ \A b \in Balloons : pushed'[b] > 0 => pushed[b] > 0 \/ Among(b, queue')
        /\ \A b \in Balloons : Among(b, queue) => Among(b, queue')
    <2>1. CASE UNCHANGED <<pushed, queue>>
      BY <2>1
    <2>2. ASSUME NEW t \in Balloons, pushed' = [pushed EXCEPT ![t] = @ + 1],
                 queue' = Append(queue, t)
          PROVE  /\ \A b \in Balloons : pushed[b] > 0 => pushed'[b] > 0
                 /\ \A b \in Balloons : pushed'[b] > 0 => pushed[b] > 0 \/ Among(b, queue')
                 /\ \A b \in Balloons : Among(b, queue) => Among(b, queue')
      <3>1. \A x : Among(x, queue') <=> Among(x, queue) \/ x = t
        BY <1>3, <2>2, Appended
      <3>2. \A b \in Balloons : pushed[b] \in Nat
                 /\ pushed'[b] = IF b = t THEN pushed[b] + 1 ELSE pushed[b]
        BY <1>3, <2>2
      <3> QED
        BY <3>1, <3>2
    <2> QED
      BY <2>1, <2>2, Pushes DEF CarouselInv
  <1>5. NoneLost'
    BY <1>1, <1>4 DEF PairParts, NoneLost, TaskHas, RowHas, Owned, Standing, Busy
  <1> QED
    BY <1>2, <1>5 DEF PairParts

\* Belt, posts and listener leave what the reader has served.
LEMMA ReadingServed ==
  ASSUME CarouselInv, ServedInv, [Next]_vars
  PROVE  ServedInv'
  <1>1. mishaps' = mishaps /\ ReaderInv
    BY DEF Next, vars, CarouselInv
  <1>2. ASSUME UNCHANGED <<passed, buffer, live, jobs, counted, pushed>> PROVE ServedInv'
    <2>1. (InFlight' <=> InFlight) /\ \A b : Served(b)' <=> Served(b)
      BY <1>2 DEF InFlight, Served
    <2> QED
      BY <1>1, <1>2, <2>1 DEF ServedInv, AllRead, AllServed
  <1>3. CASE ReaderNext
    BY <1>1, <1>3, ServedStep
  <1>4. CASE UNCHANGED readerVars \/ UNCHANGED ExceptQueue \/ UNCHANGED ExceptDrops
    <2>1. UNCHANGED <<passed, buffer, live, jobs, counted, pushed>>
      BY <1>4 DEF readerVars, ExceptQueue, ExceptDrops
    <2> QED
      BY <1>2, <2>1
  <1>5. ReaderNext \/ UNCHANGED readerVars \/ UNCHANGED ExceptQueue \/ UNCHANGED ExceptDrops
    <2>1. CASE UNCHANGED vars
      BY <2>1 DEF vars
    <2>2. CASE Next
      BY <2>2 DEF Next
    <2> QED
      BY <2>1, <2>2
  <1> QED
    BY <1>3, <1>4, <1>5

LEMMA PairStep ==
  ASSUME CarouselInv, FullInv, PassportInv, ServedInv, PairInv, [Next]_vars
  PROVE  PairInv'
  <1>1. Undisturbed' => Undisturbed
    <2>1. mishaps' = mishaps
      BY DEF Next, vars
    <2>2. cfg' = cfg
      BY DEF Next, vars, postVars, Listen, PostStep, Connect, Decide, Answer, Store, Read,
             Expire, Break, ExpireQueue, Land, SendEmpty, SendFull, Send, Fill, Leave
    <2>3. Fits' <=> Fits
      BY <2>2 DEF Fits, Allowed, CheckSettings, Correction, InRange, Distance
    <2> QED
      BY <2>1, <2>3 DEF Undisturbed
  <1> SUFFICES ASSUME Undisturbed PROVE PairParts'
    BY <1>1 DEF PairInv
  <1>2. /\ Calm /\ AllRead /\ Remembers /\ InOrder
        /\ mishaps \cap {"slow", "removed", "overtake", "redis", "database", "pause"} = {}
    BY UndisturbedIs
  <1>3. FullParts /\ OnePlace /\ AllServed /\ PairParts
    BY <1>2 DEF FullInv, FullParts, PassportInv, ServedInv, PairInv
  <1>4. CASE UNCHANGED vars
    <2>1. UNCHANGED <<landed, post, wire, task, cache, rows, pushed, queue>>
      BY <1>4 DEF vars, readerVars, postVars
    <2>2. Paired' /\ InTurn'
      BY <1>3, <2>1 DEF PairParts, Paired, InTurn, Ahead, Heard, Pending, Busy
    <2>3. NoneLost'
      BY <1>3, <2>1 DEF PairParts, NoneLost, TaskHas, RowHas, Owned, Standing, Busy
    <2> QED
      BY <2>2, <2>3 DEF PairParts
  <1>5. CASE ReaderNext /\ UNCHANGED postVars
    BY <1>2, <1>3, <1>5, ReaderPairs
  <1>6. CASE Listen /\ UNCHANGED readerVars
    <2>1. ~Connect
      BY <1>3 DEF Connect, FullParts
    <2> QED
      BY <1>2, <1>3, <1>6, <2>1, AnswerPairs, StorePairs DEF Listen
  <1>7. ASSUME NEW p \in Posts, PostStep(p), UNCHANGED readerVars PROVE PairParts'
    <2>1. mishaps \cap {"slow", "removed"} = {} /\ "overtake" \notin mishaps
      BY <1>2
    <2> QED
      BY <1>2, <1>3, <1>7, <2>1, LandPairs, SendPairs, ForgetPairs DEF PostStep
  <1>8. CASE Read /\ UNCHANGED ExceptQueue
    BY <1>2, <1>3, <1>8, ReadPairs DEF ExceptQueue
  <1>9. ~Expire /\ ~Break /\ ~ExpireQueue
    BY <1>2 DEF Expire, Break, ExpireQueue, Calm
  <1> QED
    BY <1>4, <1>5, <1>6, <1>7, <1>8, <1>9 DEF Next

-----------------------------------------------------------------------------
(***************************************************************************)
(* What rows that are paired say of a balloon.                             *)
(***************************************************************************)
\* Card, of the table r.
CardIn(r, b) ==
  LET about == {i \in DOMAIN r : b \in {r[i].owner, r[i].pass, r[i].full}}
  IN  IF about = {} THEN "none"
      ELSE IF \E i \in about : about = {i} /\ r[i].owner = b /\ r[i].pass = b
                               /\ r[i].full \in {0, b}
           THEN IF \E i \in about : r[i].full = b THEN "complete" ELSE "opened"
           ELSE "mixed"

\* Every row is about one balloon, and no two are about the same.
Clean(r) ==
  /\ \A i \in DOMAIN r : r[i].pass = r[i].owner /\ r[i].full \in {0, r[i].owner}
  /\ \A i, j \in DOMAIN r : r[j].owner = r[i].owner => i = j

LEMMA CardsIn ==
  /\ \A b : Card(b) = CardIn(rows, b)
  /\ \A b : Card(b)' = CardIn(rows', b)
  BY DEF Card, CardIn

LEMMA CleanCard ==
  ASSUME NEW r, Clean(r), NEW b \in Balloons
  PROVE  /\ (\A i \in DOMAIN r : r[i].owner # b) => CardIn(r, b) = "none"
         /\ \A i \in DOMAIN r : r[i].owner = b =>
              CardIn(r, b) = IF r[i].full = b THEN "complete" ELSE "opened"
  <1> DEFINE about == {i \in DOMAIN r : b \in {r[i].owner, r[i].pass, r[i].full}}
  <1>1. b # 0
    BY DEF Balloons
  <1>2. about = {i \in DOMAIN r : r[i].owner = b}
    BY <1>1 DEF Clean
  <1>3. (\A i \in DOMAIN r : r[i].owner # b) => about = {}
    BY <1>2
  <1>4. ASSUME NEW i \in DOMAIN r, r[i].owner = b
        PROVE  /\ about = {i} /\ r[i].owner = b /\ r[i].pass = b /\ r[i].full \in {0, b}
    BY <1>2, <1>4 DEF Clean
  <1>5. CardIn(r, b) =
          IF about = {} THEN "none"
          ELSE IF \E i \in about : about = {i} /\ r[i].owner = b /\ r[i].pass = b
                                   /\ r[i].full \in {0, b}
               THEN IF \E i \in about : r[i].full = b THEN "complete" ELSE "opened"
               ELSE "mixed"
    BY DEF CardIn
  <1> HIDE DEF about
  <1>6. ASSUME NEW i \in DOMAIN r, r[i].owner = b
        PROVE  CardIn(r, b) = IF r[i].full = b THEN "complete" ELSE "opened"
    <2>1. about = {i} /\ about # {}
      BY <1>4, <1>6
    <2>2. \E j \in about : about = {j} /\ r[j].owner = b /\ r[j].pass = b
                           /\ r[j].full \in {0, b}
      BY <1>4, <1>6, <2>1
    <2>3. (\E j \in about : r[j].full = b) <=> r[i].full = b
      BY <2>1
    <2> QED
      BY <1>5, <2>1, <2>2, <2>3
  <1> QED
    BY <1>3, <1>5, <1>6

LEMMA RowsClean ==
  ASSUME FullParts, Paired
  PROVE  Clean(rows)
  BY DEF FullParts, RowsApart, Paired, Clean

\* What is stored opens the card of a balloon, or completes it.
LEMMA StoreKeepsCards ==
  ASSUME CarouselInv, FullParts, Paired, FullParts', Paired', "database" \notin mishaps,
         Store, rows' # rows
  PROVE  Promise!Next
  <1>0. PICK f \in Frames : f = task.frame
    BY StoreTypes
  <1>1. Clean(rows) /\ Clean(rows')
    <2>1. Clean(rows)
      BY RowsClean
    <2>2. Clean(rows')
      BY DEF FullParts, RowsApart, Paired, Clean
    <2> QED
      BY <2>1, <2>2
  <1>2. f.b \in Balloons
    BY DEF Frames
  <1>3. \A b \in Balloons : Cards[b] = CardIn(rows, b) /\ Cards'[b] = CardIn(rows', b)
    BY CardsIn DEF Cards
  <1>4. /\ Cards = [b \in Balloons |-> Cards[b]]
        /\ Cards' = [b \in Balloons |-> Cards'[b]]
    BY DEF Cards
  <1>5. CASE /\ rows' = Append(rows, NewRow(f, f.b))
             /\ NewRow(f, f.b) \in FillingRows /\ ~Owned(f.b)
    <2> DEFINE new == NewRow(f, f.b)
    <2>1. new.owner = f.b /\ new.full = 0
      BY DEF NewRow
    <2> HIDE DEF new
    <2>2. /\ Len(rows) \in Nat
          /\ DOMAIN rows = 1 .. Len(rows) /\ DOMAIN rows' = 1 .. Len(rows) + 1
          /\ \A i \in 1 .. Len(rows) : rows'[i] = rows[i]
          /\ rows'[Len(rows) + 1] = new
      <3>1. rows \in Seq(FillingRows)
        BY DEF CarouselInv, ListenerTypes
      <3> QED
        BY <1>5, <3>1, Appended DEF new
    <2>3. \A i \in DOMAIN rows : i \in DOMAIN rows' /\ rows'[i] = rows[i]
      BY <2>2
    <2>4. \A i \in DOMAIN rows' : (i \in DOMAIN rows /\ rows'[i] = rows[i]) \/ rows'[i] = new
      BY <2>2
    <2>5. CardIn(rows, f.b) = "none"
      BY <1>1, <1>2, <1>5, CleanCard DEF Owned
    <2>6. CardIn(rows', f.b) = "opened"
      <3>1. Len(rows) + 1 \in DOMAIN rows' /\ f.b # 0
        BY <1>2, <2>2 DEF Balloons
      <3> QED
        BY <1>1, <1>2, <2>1, <2>2, <3>1, CleanCard
    <2>7. ASSUME NEW b \in Balloons, b # f.b PROVE CardIn(rows', b) = CardIn(rows, b)
      <3>1. CASE \A i \in DOMAIN rows : rows[i].owner # b
        <4>1. \A i \in DOMAIN rows' : rows'[i].owner # b
          BY <2>1, <2>4, <2>7, <3>1
        <4> QED
          BY <1>1, <3>1, <4>1, CleanCard
      <3>2. ASSUME NEW i \in DOMAIN rows, rows[i].owner = b
            PROVE  CardIn(rows', b) = CardIn(rows, b)
        <4>1. i \in DOMAIN rows' /\ rows'[i].owner = b /\ rows'[i].full = rows[i].full
          BY <2>3, <3>2
        <4>2. CardIn(rows, b) = IF rows[i].full = b THEN "complete" ELSE "opened"
          BY <1>1, <3>2, CleanCard
        <4>3. CardIn(rows', b) = IF rows'[i].full = b THEN "complete" ELSE "opened"
          BY <1>1, <4>1, CleanCard
        <4> QED
          BY <4>1, <4>2, <4>3
      <3> QED
        BY <3>1, <3>2
    <2>8. Cards[f.b] = "none" /\ Cards' = [Cards EXCEPT ![f.b] = "opened"]
      <3>1. \A b \in Balloons : Cards'[b] = IF b = f.b THEN "opened" ELSE Cards[b]
        BY <1>2, <1>3, <2>6, <2>7
      <3> QED
        BY <1>2, <1>3, <1>4, <2>5, <3>1
    <2> QED
      BY <1>2, <2>8 DEF Promise!Next, Promise!Open
  <1>6. ASSUME DOMAIN rows' = DOMAIN rows,
               NEW k \in DOMAIN rows,
               rows[k].owner = f.b, rows' = [rows EXCEPT ![k].full = f.b],
               \A i \in DOMAIN rows :
                 /\ rows'[i].owner = rows[i].owner /\ rows'[i].pass = rows[i].pass
                 /\ rows'[i].full = IF i = k THEN f.b ELSE rows[i].full
        PROVE  Promise!Next
    <2>1. rows[k].full # f.b
      <3> SUFFICES ASSUME rows[k].full = f.b PROVE rows' = rows
        OBVIOUS
      <3>1. rows[k] \in FillingRows /\ rows \in Seq(FillingRows)
        BY <1>6, Kinds DEF CarouselInv, ListenerTypes
      <3>2. [rows[k] EXCEPT !.full = f.b] = rows[k]
        BY <3>1 DEF FillingRows
      <3>3. rows' = [rows EXCEPT ![k] = [rows[k] EXCEPT !.full = f.b]]
        BY <1>6
      <3> QED
        BY <1>6, <3>1, <3>2, <3>3
    <2>2. CardIn(rows, f.b) = "opened"
      BY <1>1, <1>2, <1>6, <2>1, CleanCard
    <2>3. CardIn(rows', f.b) = "complete"
      <3>1. k \in DOMAIN rows' /\ rows'[k].owner = f.b /\ rows'[k].full = f.b
        BY <1>6
      <3> QED
        BY <1>1, <1>2, <3>1, CleanCard
    <2>4. ASSUME NEW b \in Balloons, b # f.b PROVE CardIn(rows', b) = CardIn(rows, b)
      <3>1. CASE \A i \in DOMAIN rows : rows[i].owner # b
        <4>1. \A i \in DOMAIN rows' : rows'[i].owner # b
          BY <1>6, <3>1
        <4> QED
          BY <1>1, <3>1, <4>1, CleanCard
      <3>2. ASSUME NEW i \in DOMAIN rows, rows[i].owner = b
            PROVE  CardIn(rows', b) = CardIn(rows, b)
        <4>1. i \in DOMAIN rows' /\ rows'[i].owner = b /\ rows'[i].full = rows[i].full
          BY <1>6, <2>4, <3>2
        <4>2. CardIn(rows, b) = IF rows[i].full = b THEN "complete" ELSE "opened"
          BY <1>1, <3>2, CleanCard
        <4>3. CardIn(rows', b) = IF rows'[i].full = b THEN "complete" ELSE "opened"
          BY <1>1, <4>1, CleanCard
        <4> QED
          BY <4>1, <4>2, <4>3
      <3> QED
        BY <3>1, <3>2
    <2>5. Cards[f.b] = "opened" /\ Cards' = [Cards EXCEPT ![f.b] = "complete"]
      <3>1. \A b \in Balloons : Cards'[b] = IF b = f.b THEN "complete" ELSE Cards[b]
        BY <1>2, <1>3, <2>3, <2>4
      <3> QED
        BY <1>2, <1>3, <1>4, <2>2, <3>1
    <2> QED
      BY <1>2, <2>5 DEF Promise!Next, Promise!Complete
  <1> QED
    BY <1>0, <1>5, <1>6, StoredIs

\* Connections of the reader that are lost, repeated readings and repeated
\* frames do not break the pairing of balloons, passports and weights, for every
\* number of balloons, posts and frames and every setting that asks for weights
\* the answer can carry: each balloon gets one row with its own passport, and
\* then its own full weight.
THEOREM KeepsPairingHolds == Spec => KeepsPairing
  <1>1. Init => FullInv /\ PassportInv /\ ServedInv /\ PairInv /\ Promise!Init
    <2> SUFFICES ASSUME Init
                 PROVE  FullInv /\ PassportInv /\ ServedInv /\ PairInv /\ Promise!Init
      OBVIOUS
    <2>1. /\ post = [p \in Posts |-> Free] /\ wire = <<>> /\ task = Reading
          /\ cache = {} /\ rows = <<>> /\ landed = 0 /\ ReaderInit
      BY DEF Init
    <2>2. FullInv /\ PassportInv
      BY FullStart, PassportStart
    <2>3. ServedInv
      BY <2>1, ServedStart
    <2>4. PairInv
      <3>1. /\ \A p \in Posts : post[p].stage = "free"
            /\ ~Busy /\ \A b \in Balloons : pushed[b] = 0 /\ ~(b <= landed)
        BY <2>1 DEF Free, Busy, Reading, ReaderInit, Balloons
      <3>2. Paired /\ NoneLost /\ InTurn
        BY <2>1, <3>1 DEF Paired, NoneLost, InTurn, Ahead
      <3> QED
        BY <3>2 DEF PairInv, PairParts
    <2>5. Promise!Init
      <3>1. Clean(rows)
        BY <2>1 DEF Clean
      <3>2. \A b \in Balloons : CardIn(rows, b) = "none"
        BY <2>1, <3>1, CleanCard
      <3>3. Cards = [b \in Balloons |-> "none"]
        BY <3>2, CardsIn DEF Cards
      <3> QED
        BY <3>3 DEF Promise!Init
    <2> QED
      BY <2>2, <2>3, <2>4, <2>5
  <1>2. CarouselInv /\ FullInv /\ PassportInv /\ ServedInv /\ PairInv /\ [Next]_vars
          => /\ FullInv' /\ PassportInv' /\ ServedInv' /\ PairInv'
             /\ [(mishaps \in Harmless /\ Fits) => Promise!Next]_rows
    <2> SUFFICES ASSUME CarouselInv, FullInv, PassportInv, ServedInv, PairInv, [Next]_vars
                 PROVE  /\ FullInv' /\ PassportInv' /\ ServedInv' /\ PairInv'
                        /\ [(mishaps \in Harmless /\ Fits) => Promise!Next]_rows
      OBVIOUS
    <2>1. FullInv' /\ PassportInv' /\ ServedInv' /\ PairInv'
      <3>1. FullInv'
        BY FullStep
      <3>2. PassportInv'
        BY PassportStep
      <3>3. ServedInv'
        BY ReadingServed
      <3>4. PairInv'
        BY PairStep
      <3> QED
        BY <3>1, <3>2, <3>3, <3>4
    <2>2. ASSUME Undisturbed, rows' # rows PROVE Promise!Next
      <3>1. Calm /\ Calm' /\ Undisturbed' /\ "database" \notin mishaps
        <4>1. mishaps' = mishaps
          BY DEF Next, vars
        <4>2. Calm /\ Calm' /\ "database" \notin mishaps
          BY <2>2, UndisturbedIs, CalmKept
        <4> QED
          BY <2>2, <4>1, <4>2 DEF Undisturbed, Calm
      <3>2. FullParts /\ FullParts' /\ Paired /\ Paired'
        BY <2>1, <2>2, <3>1 DEF FullInv, FullParts, PairInv, PairParts
      <3>3. Store
        BY <2>2 DEF Next, vars, postVars, Listen, PostStep, Connect, Decide, Answer, Read,
                    Expire, Break, Land, SendEmpty, SendFull, Send, Fill, Leave
      <3> QED
        BY <2>2, <3>1, <3>2, <3>3, StoreKeepsCards
    <2> QED
      BY <2>1, <2>2 DEF Undisturbed
  <1> QED
    BY <1>1, <1>2, CarouselInvHolds, PTL DEF Spec, KeepsPairing

=============================================================================
