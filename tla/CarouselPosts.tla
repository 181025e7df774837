---------------------------- MODULE CarouselPosts ----------------------------
(***************************************************************************)
(* A carousel: its posts, the serial line to the listener process, the     *)
(* listener's task (carousel/listener: runner, processing, cache) and the  *)
(* table of fillings (carousel/services.py).  The passports come from the  *)
(* reader in front of it (ReaderEvents).                                   *)
(*                                                                         *)
(* Balloons reach the posts in the order in which they passed the reader.  *)
(* A post sends the empty weight (0x7a), fills, sends the full weight      *)
(* (0x70), and repeats a frame; whether its second frame is a repetition   *)
(* is for the listener to find out.  Posts and belt are the environment;   *)
(* what the frame and a row say of the balloon itself (owner, full) is     *)
(* there for the properties.  Metrics and logs are left out.               *)
(***************************************************************************)
EXTENDS ReaderEvents

CONSTANTS
  Posts,        \* post numbers
  MaxSends,     \* bound: times a post sends a frame
  MaxWire,      \* bound: frames in the serial line
  Weight,       \* Weight[b]: grams of the empty balloon b on the post
  Passport,     \* Passport[b]: [ready, netto, brutto], in grams
  Scenarios     \* settings of the carousel, and what may go wrong

Absent == -1                           \* None
WeightLimit == 2 ^ 16                  \* the answer carries 16 bits
NoAnswer == [pass |-> 0, grams |-> Absent]

Configs == {s.cfg : s \in Scenarios}

ASSUME ScenariosAreKnown == \A s \in Scenarios : s.mishaps \in MishapSets
ASSUME PostBounds == MaxSends \in Nat \ {0} /\ MaxWire \in Nat \ {0}
ASSUME WeightsAreNumbers == \A b \in Balloons : Weight[b] \in Int

VARIABLES
  cfg,       \* CarouselSettings of the carousel
  landed,    \* balloons that have left the belt
  post,      \* the posts: the balloon, what the post does, what it was told
  wire,      \* frames on their way to the listener
  task,      \* the listener's task
  cache,     \* recent_requests
  rows       \* table Carousel, in the order of their creation

postVars == <<cfg, landed, post, wire, task, cache, rows>>
vars == <<mishaps, readerVars, postVars>>

Free == [b |-> 0, stage |-> "free", sends |-> 0, told |-> NoAnswer]
Down == [pc |-> "down"]
Reading == [pc |-> "read"]

Init ==
  /\ ReaderInit
  /\ \E s \in Scenarios : cfg = s.cfg /\ mishaps = s.mishaps
  /\ landed = 0
  /\ post = [p \in Posts |-> Free]
  /\ wire = <<>> /\ task = Reading /\ cache = {}
  /\ rows = <<>>

-----------------------------------------------------------------------------
(***************************************************************************)
(* What the settings make of a passport.                                   *)
(***************************************************************************)
InRange(v, range) ==
  /\ range[1] # Absent => v >= range[1]
  /\ range[2] # Absent => v <= range[2]

Correction(p) ==
  IF ~cfg.managed THEN 0 ELSE IF cfg.common THEN cfg.value ELSE cfg.own[p]

\* Without a row of settings nothing is answered.
CheckSettings(p) ==
  [available |-> cfg.available, readOnly |-> cfg.readOnly \/ ~cfg.available,
   correction |-> IF cfg.available THEN Correction(p) ELSE 0]

Distance(x, y) == IF x < y THEN y - x ELSE x - y

\* int() of a float: kilograms that are no whole number may lie just below.
Truncated(grams) ==
  IF grams % 1000 = 0 THEN {grams} ELSE {grams - 1, grams}

\* The passport allows an answer with a target weight.
Allowed(b, p) ==
  LET t == Passport[b]
      settings == CheckSettings(p)
  IN  /\ t.ready /\ t.netto # Absent /\ t.brutto # Absent
      /\ settings.available /\ ~settings.readOnly
      /\ InRange(t.netto, cfg.netto)
      /\ InRange(t.brutto, cfg.brutto)
      /\ cfg.diff[1] # Absent /\ cfg.diff[2] # Absent
      /\ InRange(Distance(t.brutto, t.netto), cfg.diff)
      /\ settings.correction # Absent

\* The target weights that the processing of 0x7a may ask for; none without a
\* passport, or without a permission.
RequestProcessing(b, p) ==
  IF b = 0 THEN {}
  ELSE IF Allowed(b, p) THEN Truncated(Passport[b].brutto + CheckSettings(p).correction)
  ELSE {}

\* The weight is packed into 16 bits; one that does not fit is an error.
BuildResponsePacket(b, grams) ==
  IF grams \in 0 .. WeightLimit - 1 THEN {[pass |-> b, grams |-> grams]} ELSE {}

\* The volume by the empty weight, in litres.
BalloonSize(grams) ==
  IF cfg.classify /\ 0 < grams /\ grams <= cfg.small THEN 27 ELSE 50

-----------------------------------------------------------------------------
(***************************************************************************)
(* Belt and posts.                                                         *)
(***************************************************************************)
Frame(p, type) ==
  [type |-> type, post |-> p, b |-> post[p].b, weight |-> Weight[post[p].b]]

\* Frames of the post that the listener has not finished with.
Outstanding(p) ==
  \/ \E i \in DOMAIN wire : wire[i].post = p
  \/ task.pc \in {"decide", "answer", "store"} /\ task.frame.post = p

\* A request is told from its repetition for two seconds, and the post is at
\* the next stage much later; one that still repeats after that is a mishap.
Forget(p, type) == {e \in cache : e.post # p \/ e.type # type}

\* The process of the reader is done with the balloon.
Settled(b) ==
  /\ pushed[b] > 0 \/ \A i \in DOMAIN buffer : ~Among(b, buffer[i])
  /\ \A h \in Handlers : ~Among(b, jobs[h].todo)

\* The next balloon is put on a free post, or taken off the belt by hand.  On
\* the way from the reader its passport overtakes it, unless it is slow.
Land(p) ==
  /\ landed < passed /\ landed' = landed + 1
  /\ Settled(landed') \/ "slow" \in mishaps
  /\ \/ post[p] = Free /\ post' = [post EXCEPT ![p].b = landed', ![p].stage = "empty"]
     \/ "removed" \in mishaps /\ post' = post
  /\ UNCHANGED <<cfg, wire, task, cache, rows>>

\* The line loses what nobody listens to, and frames that are garbled.
Send(p, type) ==
  /\ post' = [post EXCEPT ![p].sends = @ + 1]
  /\ \/ /\ task.pc # "down" /\ Len(wire) < MaxWire
        /\ wire' = Append(wire, Frame(p, type))
     \/ (task.pc = "down" \/ "garbled" \in mishaps) /\ wire' = wire
  /\ UNCHANGED <<cfg, landed, task, cache, rows>>

MaySend(p) == post[p].sends < IF "repeat" \in mishaps THEN MaxSends ELSE 1

\* The posts weigh the balloons in the order in which they come, unless one
\* is overtaken.
SendEmpty(p) ==
  /\ post[p].stage = "empty" /\ post[p].told = NoAnswer
  /\ MaySend(p)
  /\ \/ "overtake" \in mishaps
     \/ \A q \in Posts :
          (post[q].stage = "empty" /\ post[q].sends = 0) => post[p].b <= post[q].b
  /\ Send(p, "0x7a")

\* The post fills, to the weight it was told or as it is set itself.
Fill(p) ==
  /\ post[p].stage = "empty" /\ post[p].sends > 0
  /\ ~Outstanding(p)
  /\ post' = [post EXCEPT ![p].stage = "full", ![p].sends = 0]
  /\ cache' = Forget(p, "0x7a")
  /\ UNCHANGED <<cfg, landed, wire, task, rows>>

SendFull(p) ==
  /\ post[p].stage = "full" /\ MaySend(p)
  /\ Send(p, "0x70")

Leave(p) ==
  /\ post[p].stage = "full" /\ post[p].sends > 0
  /\ ~Outstanding(p)
  /\ post' = [post EXCEPT ![p] = Free]
  /\ cache' = Forget(p, "0x70")
  /\ UNCHANGED <<cfg, landed, wire, task, rows>>

\* Two seconds pass while the post still repeats its frame.
Expire ==
  /\ "late" \in mishaps /\ drops < MaxDrops /\ drops' = drops + 1
  /\ \E e \in cache : cache' = cache \ {e}
  /\ UNCHANGED <<cfg, landed, post, wire, task, rows>>

-----------------------------------------------------------------------------
(***************************************************************************)
(* The listener.                                                           *)
(***************************************************************************)
\* Mutant: the task connects at once, and still knows the last requests.
ConnectAtOnce ==
  /\ task.pc = "down"
  /\ task' = Reading /\ wire' = <<>>
  /\ UNCHANGED <<cfg, landed, post, cache, rows>>

\* The task connects, sixty seconds after an error: nothing is left in its
\* cache, and the bytes of the time in between are gone.
Connect ==
  /\ task.pc = "down"
  /\ task' = Reading /\ wire' = <<>> /\ cache' = {}
  /\ UNCHANGED <<cfg, landed, post, rows>>

\* What a post hears that waits for an answer.
Told(p, answer) ==
  IF answer # NoAnswer /\ post[p].stage = "empty"
  THEN [post EXCEPT ![p].told = answer] ELSE post

\* Mutant: no request is remembered.
CacheNothing(f, answer) == cache

CacheResult(f, answer) ==
  cache \cup {[type |-> f.type, post |-> f.post, weight |-> f.weight,
               answer |-> answer]}

Cached(f) ==
  {e \in cache : e.type = f.type /\ e.post = f.post /\ e.weight = f.weight}

\* Mutant: the passport is looked at and stays in the list.
ReadPeeks ==
  /\ task.pc = "read" /\ wire # <<>> /\ queue # <<>>
  /\ Head(wire).type = "0x7a" /\ Cached(Head(wire)) = {}
  /\ wire' = Tail(wire)
  /\ task' = [pc |-> "decide", frame |-> Head(wire), pass |-> Head(queue)]
  /\ UNCHANGED <<cfg, landed, post, cache, rows, queue>>

\* The oldest passport leaves the list; none, if it is empty or Redis fails.
TakePassport(f) ==
  \/ /\ queue # <<>>
     /\ queue' = Tail(queue)
     /\ task' = [pc |-> "decide", frame |-> f, pass |-> Head(queue)]
  \/ /\ queue = <<>> \/ "redis" \in mishaps
     /\ task' = [pc |-> "decide", frame |-> f, pass |-> 0]
     /\ queue' = queue

\* A frame is read.  A repetition is answered from the cache; the full weight
\* needs no answer.
Read ==
  /\ task.pc = "read" /\ wire # <<>>
  /\ wire' = Tail(wire)
  /\ LET f == Head(wire)
     IN  \/ /\ Cached(f) # {}
            /\ \E e \in Cached(f) : post' = Told(f.post, e.answer)
            /\ UNCHANGED <<task, cache, queue>>
         \/ /\ Cached(f) = {} /\ f.type = "0x70"
            /\ cache' = CacheResult(f, NoAnswer)
            /\ task' = [pc |-> "store", frame |-> f, pass |-> 0]
            /\ UNCHANGED <<post, queue>>
         \/ /\ Cached(f) = {} /\ f.type = "0x7a"
            /\ TakePassport(f)
            /\ UNCHANGED <<post, cache>>
  /\ UNCHANGED <<cfg, landed, rows>>

\* Mutant: nobody asks whether the weight fits.
DecideAny ==
  /\ task.pc = "decide" /\ task.pass # 0 /\ Allowed(task.pass, task.frame.post)
  /\ \E g \in Truncated(Passport[task.pass].brutto + Correction(task.frame.post)) :
       task' = [pc |-> "answer", frame |-> task.frame, pass |-> task.pass,
                answer |-> [pass |-> task.pass, grams |-> g]]
  /\ cache' = CacheResult(task.frame, task'.answer)
  /\ UNCHANGED <<cfg, landed, post, wire, rows>>

\* The answer: none, a target weight, or one that does not fit into 16 bits:
\* an error that ends the connection before anything is remembered.
Decide ==
  /\ task.pc = "decide"
  /\ LET f == task.frame
         store(answer) ==
           /\ cache' = CacheResult(f, answer)
           /\ task' = [pc |-> IF answer = NoAnswer THEN "store" ELSE "answer",
                       frame |-> f, pass |-> task.pass, answer |-> answer]
         weights == RequestProcessing(task.pass, f.post)
     IN  \/ weights = {} /\ store(NoAnswer)
         \/ \E g \in weights :
              \/ \E answer \in BuildResponsePacket(task.pass, g) : store(answer)
              \/ /\ BuildResponsePacket(task.pass, g) = {}
                 /\ task' = Down /\ cache' = cache
  /\ UNCHANGED <<cfg, landed, post, wire, rows>>

\* Mutant: an answered request is not stored.
AnswerEnds ==
  /\ task.pc = "answer"
  /\ post' = Told(task.frame.post, task.answer)
  /\ task' = Reading
  /\ UNCHANGED <<cfg, landed, wire, cache, rows>>

\* The answer is written; on a broken connection the row is not stored.
Answer ==
  /\ task.pc = "answer"
  /\ \/ /\ post' = Told(task.frame.post, task.answer)
        /\ task' = [pc |-> "store", frame |-> task.frame, pass |-> task.pass]
     \/ "broken" \in mishaps /\ task' = Down /\ post' = post
  /\ UNCHANGED <<cfg, landed, wire, cache, rows>>

\* Mutant: the first row of the post.
FirstOf(p) ==
  LET mine == {i \in DOMAIN rows : rows[i].post = p}
  IN  IF mine = {} THEN 0 ELSE CHOOSE i \in mine : \A j \in mine : i <= j

\* The row of the post that was changed last is the one created last: only the
\* full weight changes a row, and only that one.
LastOf(p) ==
  LET mine == {i \in DOMAIN rows : rows[i].post = p}
  IN  IF mine = {} THEN 0 ELSE CHOOSE i \in mine : \A j \in mine : j <= i

NewRow(f, b) ==
  [post |-> f.post, size |-> BalloonSize(f.weight), owner |-> f.b,
   pass |-> b, full |-> 0]

\* A new row, or the full weight in the last row of the post; without one that
\* is an error.
ProcessCarouselData(f, b) ==
  IF f.type = "0x7a" THEN {Append(rows, NewRow(f, b))}
  ELSE IF LastOf(f.post) = 0 THEN {}
  ELSE {[rows EXCEPT ![LastOf(f.post)].full = f.b]}

\* put_carousel_data: an error is logged, and what was to be stored is lost.
Store ==
  /\ task.pc = "store"
  /\ LET stored == ProcessCarouselData(task.frame, task.pass)
     IN  \/ rows' \in stored
         \/ ("database" \in mishaps \/ stored = {}) /\ rows' = rows
  /\ task' = Reading
  /\ UNCHANGED <<cfg, landed, post, wire, cache>>

\* The connection breaks while the task reads; the process dies at any step.
Break ==
  /\ task.pc # "down" /\ drops < MaxDrops /\ drops' = drops + 1
  /\ \/ "broken" \in mishaps /\ task.pc = "read"
     \/ "killed" \in mishaps
  /\ task' = Down
  /\ UNCHANGED <<cfg, landed, post, wire, cache, rows>>

\* Ten minutes without a new passport: the whole list is gone.
ExpireQueue ==
  /\ "pause" \in mishaps /\ queue # <<>>
  /\ queue' = <<>>

PostStep(p) == Land(p) \/ SendEmpty(p) \/ Fill(p) \/ SendFull(p) \/ Leave(p)

Listen == Connect \/ Decide \/ Answer \/ Store

ExceptQueue == <<drops, passed, reads, buffer, live, jobs, calls, seen, counted,
                 pushed>>
ExceptDrops == <<passed, reads, buffer, live, jobs, calls, seen, counted, pushed,
                 queue>>

Next ==
  /\ mishaps' = mishaps
  /\ \/ ReaderNext /\ UNCHANGED postVars
     \/ (Listen \/ \E p \in Posts : PostStep(p)) /\ UNCHANGED readerVars
     \/ Read /\ UNCHANGED ExceptQueue
     \/ (Expire \/ Break) /\ UNCHANGED ExceptDrops
     \/ ExpireQueue /\ UNCHANGED <<ExceptQueue, postVars>>

Spec == Init /\ [][Next]_vars

\* The processes run on; nothing is asked of belt and posts.
FairSpec ==
  /\ Spec
  /\ ReaderFair
  /\ WF_postVars(Listen) /\ WF_<<postVars, queue>>(Read)

-----------------------------------------------------------------------------
Frames == [type : {"0x7a", "0x70"}, post : Posts, b : Balloons, weight : Int]
Passes == 0 .. Last       \* 0: none
Answers == [pass : Passes, grams : {Absent} \cup 0 .. WeightLimit - 1]

TypeOK ==
  /\ mishaps \in MishapSets
  /\ ReaderTypeOK
  /\ cfg \in Configs
  /\ landed \in 0 .. Last
  /\ post \in [Posts -> [b : Passes, stage : {"free", "empty", "full"},
                         sends : 0 .. MaxSends, told : Answers]]
  /\ wire \in Seq(Frames)
  /\ task \in {Down, Reading}
        \cup [pc : {"decide", "store"}, frame : Frames, pass : Passes]
        \cup [pc : {"answer", "store"}, frame : Frames, pass : Passes,
              answer : Answers]
  /\ cache \subseteq [type : {"0x7a", "0x70"}, post : Posts, weight : Int,
                      answer : Answers]
  /\ rows \in Seq([post : Posts, size : {27, 50}, owner : Balloons,
                   pass : Passes, full : Passes])

\* The settings ask for no answer that is too large, or below zero.
Fits ==
  \A b \in Balloons, p \in Posts :
    Allowed(b, p) => Passport[b].brutto + Correction(p) \in 0 .. WeightLimit - 1

\* Where the passport of a balloon is now: in the list, with the task, in rows.
Places(b) ==
  {<<"queue", i>> : i \in {i \in DOMAIN queue : queue[i] = b}}
  \cup {<<"rows", i>> : i \in {i \in DOMAIN rows : rows[i].pass = b}}
  \cup {<<"task", 0>> : x \in {x \in {b} :
           task.pc \in {"decide", "answer", "store"} /\ task.pass = b}}

\* A passport is used once: it waits in the list, or one filling has it.
PassportOnce ==
  Remembers => \A b \in Balloons : Cardinality(Places(b)) <= 1

\* A post that fills to the weight of a passport has a row with this passport,
\* or it is just being stored: a lost connection does not leave an answer
\* without its row.
AnswerIsRecorded ==
  mishaps \cap {"killed", "database"} = {} =>
    \A p \in Posts : post[p].told # NoAnswer =>
      \/ \E i \in DOMAIN rows :
           rows[i].post = p /\ rows[i].pass = post[p].told.pass
      \/ task.pc = "store" /\ task.pass = post[p].told.pass

\* The full weight comes to the row of the same balloon, and a balloon has one
\* row, as long as frames and rows do not get lost and posts repeat in time.
FullBelongs ==
  (Fits /\ mishaps \cap {"late", "garbled", "broken", "killed", "database"} = {}) =>
    \A i \in DOMAIN rows :
      /\ rows[i].full \in {0, rows[i].owner}
      /\ \A j \in DOMAIN rows : rows[j].owner = rows[i].owner => i = j

\* A frame that is in the line is stored, whatever the answer: the task comes
\* back to its loop.
AskedIsStored ==
  \A b \in Balloons :
    (/\ Fits /\ mishaps \cap {"broken", "killed", "database"} = {}
     /\ \E i \in DOMAIN wire : wire[i].b = b /\ wire[i].type = "0x7a")
      ~> \E i \in DOMAIN rows : rows[i].owner = b

-----------------------------------------------------------------------------
(***************************************************************************)
(* What the rows say of a balloon.                                         *)
(***************************************************************************)
Card(b) ==
  LET about == {i \in DOMAIN rows : b \in {rows[i].owner, rows[i].pass, rows[i].full}}
  IN  IF about = {} THEN "none"
      ELSE IF \E i \in about : about = {i} /\ rows[i].owner = b /\ rows[i].pass = b
                               /\ rows[i].full \in {0, b}
           THEN IF \E i \in about : rows[i].full = b THEN "complete" ELSE "opened"
           ELSE "mixed"

Cards == [b \in Balloons |-> Card(b)]

Promise == INSTANCE Pairing WITH card <- Cards

Harmless == {{}, {"reread"}, {"repeat"}, {"pair"}, {"drop", "reread"}}

\* Connections of the reader that are lost, repeated readings and repeated
\* frames do not break the pairing of balloons, passports and weights.
KeepsPairing ==
  /\ Promise!Init
  /\ [][(mishaps \in Harmless /\ Fits) => Promise!Next]_rows
=============================================================================
