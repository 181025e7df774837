----------------------------- MODULE ReaderEvents -----------------------------
(***************************************************************************)
(* The reader in front of the carousel (number 8, need_cache set) and the  *)
(* process that serves its Notification Mode connection                    *)
(* (management/commands/rfid_utils, services/rfid.py).                     *)
(*                                                                         *)
(* The balloons pass in the order 1, 2, ...; the device keeps an event     *)
(* until it is acknowledged and sends it again on a new connection.  A     *)
(* handler whose connection is gone still finishes its event: there may be *)
(* two handlers.  The services run in the one thread of sync_to_async, one *)
(* after the other in the order of the calls, each of them one step.  A    *)
(* tag leaves its passport in a Redis list, which CarouselPosts takes from.*)
(*                                                                         *)
(* Not modelled: tags that fail the UID filter (dropped before anything    *)
(* else looks at them) and the batches of readers 3, 4 and 6               *)
(* (BalloonBatches).                                                       *)
(***************************************************************************)
EXTENDS Integers, Sequences, FiniteSets

CONSTANTS
  Last,         \* bound: balloons that pass the reader
  Memory,       \* tags a reader remembers: maxlen of its deque, 5 in the code
  MaxTags,      \* bound: tags in one event
  MaxReads,     \* bound: readings of a balloon that still stands at the reader
  MaxDrops,     \* bound: lost connections and restarts
  MishapSets    \* what may go wrong in a behaviour

Balloons == 1 .. Last
Optical == 0                    \* the record of an input event: IN1 is active
Handlers == 1 .. 2

ASSUME ReaderBounds ==
  /\ Last \in Nat /\ MaxReads \in Nat /\ MaxDrops \in Nat
  /\ Memory \in Nat \ {0} /\ MaxTags \in Nat \ {0}

VARIABLES
  mishaps,   \* what may go wrong in this behaviour
  drops,     \* connections lost and processes restarted so far
  passed,    \* balloons that have passed the reader
  reads,     \* repeated readings so far
  buffer,    \* events the device has not seen acknowledged
  live,      \* the handler of the present connection, 0: none
  jobs,      \* what each handler is doing
  calls,     \* handlers whose call waits for the thread
  seen,      \* previous_nfc_tags
  counted,   \* DailyReaderCounter: passes counted, per balloon, IN1 under 0
  pushed,    \* passports put into the list, per balloon
  queue      \* reader_8_balloon_queue, the oldest first

deviceVars == <<passed, reads, buffer>>
readerVars == <<drops, passed, reads, buffer, live, jobs, calls, seen, counted,
                pushed, queue>>

Idle == [pc |-> "idle", todo |-> <<>>, fresh |-> FALSE, ok |-> FALSE]

ReaderInit ==
  /\ mishaps \in MishapSets
  /\ drops = 0
  /\ passed = 0 /\ reads = 0 /\ buffer = <<>>
  /\ live = 0 /\ jobs = [h \in Handlers |-> Idle]
  /\ calls = <<>> /\ seen = <<>>
  /\ counted = [t \in Balloons \cup {Optical} |-> 0]
  /\ pushed = [b \in Balloons |-> 0]
  /\ queue = <<>>

-----------------------------------------------------------------------------
(***************************************************************************)
(* The device.                                                             *)
(***************************************************************************)
InFlight == live # 0 /\ jobs[live] # Idle

\* The next balloon passes: its tag makes an event, joins one that has not been
\* sent, or is not read at all, so that only the optical sensor sees it.
Pass ==
  /\ passed < Last
  /\ passed' = passed + 1
  /\ \/ buffer' = Append(buffer, <<passed'>>)
     \/ /\ "pair" \in mishaps
        /\ Len(buffer) > (IF InFlight THEN 1 ELSE 0)
        /\ buffer[Len(buffer)] # <<Optical>> /\ Len(buffer[Len(buffer)]) < MaxTags
        /\ buffer' = [buffer EXCEPT ![Len(buffer)] = Append(@, passed')]
     \/ "unread" \in mishaps /\ buffer' = Append(buffer, <<Optical>>)
  /\ UNCHANGED <<drops, reads, live, jobs, calls, seen, counted, pushed, queue>>

\* The balloon in front of the reader is read again.
Reread ==
  /\ "reread" \in mishaps /\ reads < MaxReads /\ passed > 0
  /\ reads' = reads + 1
  /\ buffer' = Append(buffer, <<passed>>)
  /\ UNCHANGED <<drops, passed, live, jobs, calls, seen, counted, pushed, queue>>

\* The device connects; the events it still has are sent again.
Accept ==
  /\ live = 0
  /\ \E h \in Handlers : jobs[h] = Idle /\ live' = h
  /\ UNCHANGED <<drops, deviceVars, jobs, calls, seen, counted, pushed, queue>>

Drop ==
  /\ "drop" \in mishaps /\ drops < MaxDrops /\ live # 0
  /\ drops' = drops + 1
  /\ live' = 0
  /\ UNCHANGED <<deviceVars, jobs, calls, seen, counted, pushed, queue>>

\* The process is started again: it has forgotten the tags.
Restart ==
  /\ "restart" \in mishaps /\ drops < MaxDrops
  /\ drops' = drops + 1
  /\ live' = 0
  /\ jobs' = [h \in Handlers |-> Idle]
  /\ calls' = <<>> /\ seen' = <<>>
  /\ UNCHANGED <<deviceVars, counted, pushed, queue>>

-----------------------------------------------------------------------------
(***************************************************************************)
(* The process.                                                            *)
(***************************************************************************)
Among(t, s) == \E i \in DOMAIN s : s[i] = t

\* A deque that keeps the last Memory elements.
Remember(s, t) ==
  LET longer == Append(s, t)
  IN  IF Len(longer) > Memory THEN Tail(longer) ELSE longer

\* Mutant: a tag is remembered but never looked up.
FilterNothing(tags, s) ==
  LET f[i \in 0 .. Len(tags)] ==
        IF i = 0 THEN [seen |-> s, new |-> <<>>]
        ELSE [seen |-> Remember(f[i - 1].seen, tags[i]),
              new |-> Append(f[i - 1].new, tags[i])]
  IN  f[Len(tags)]

\* The tags of an event that are not among the last ones, and the memory after.
Filter(tags, s) ==
  LET f[i \in 0 .. Len(tags)] ==
        IF i = 0 THEN [seen |-> s, new |-> <<>>]
        ELSE IF Among(tags[i], f[i - 1].seen) THEN f[i - 1]
        ELSE [seen |-> Remember(f[i - 1].seen, tags[i]),
              new |-> Append(f[i - 1].new, tags[i])]
  IN  f[Len(tags)]

\* A frame is read and parsed; its tags are filtered before any is served.
\* An input event is not filtered.
Receive ==
  /\ live # 0 /\ jobs[live] = Idle /\ buffer # <<>>
  /\ LET tags == Head(buffer)
         optical == tags = <<Optical>>
         f == Filter(tags, seen)
     IN  /\ jobs' = [jobs EXCEPT ![live] =
              [pc |-> IF optical THEN "input" ELSE "tags",
               todo |-> IF optical THEN tags ELSE f.new,
               fresh |-> ~optical /\ f.new # <<>>,
               ok |-> FALSE]]
         /\ seen' = IF optical THEN seen ELSE f.seen
         /\ calls' = IF optical \/ f.new # <<>>
                     THEN Append(calls, live) ELSE calls
  /\ UNCHANGED <<drops, deviceVars, live, counted, pushed, queue>>

\* The next tag of the event is handed to the thread.
Call(h) ==
  /\ jobs[h].pc = "tags" /\ jobs[h].todo # <<>> /\ ~Among(h, calls)
  /\ calls' = Append(calls, h)
  /\ UNCHANGED <<drops, deviceVars, live, jobs, seen, counted, pushed, queue>>

\* IN1 is counted, as a balloon without a tag.
ServeInput(h) ==
  /\ jobs[h].pc = "input"
  /\ calls # <<>> /\ Head(calls) = h /\ calls' = Tail(calls)
  /\ counted' = [counted EXCEPT ![Optical] = @ + 1]
  /\ jobs' = [jobs EXCEPT ![h].pc = "ack", ![h].todo = <<>>]
  /\ UNCHANGED <<drops, deviceVars, live, seen, pushed, queue>>

\* Mutant: a passport overtakes those that wait.
ServeTagFirst(h) ==
  /\ jobs[h].pc = "tags"
  /\ calls # <<>> /\ Head(calls) = h /\ calls' = Tail(calls)
  /\ LET t == Head(jobs[h].todo)
     IN  /\ counted' = [counted EXCEPT ![t] = @ + 1]
         /\ pushed' = [pushed EXCEPT ![t] = @ + 1]
         /\ queue' = <<t>> \o queue
         /\ jobs' = [jobs EXCEPT ![h].todo = Tail(jobs[h].todo), ![h].ok = TRUE]
  /\ UNCHANGED <<drops, deviceVars, live, seen>>

\* Mutant: the pass is counted last, when nothing has failed.
ServeTagCountsLast(h) ==
  /\ jobs[h].pc = "tags"
  /\ calls # <<>> /\ Head(calls) = h /\ calls' = Tail(calls)
  /\ LET t == Head(jobs[h].todo)
         rest == Tail(jobs[h].todo)
     IN  \/ /\ "passport" \in mishaps
            /\ jobs' = [jobs EXCEPT ![h].todo = rest]
            /\ UNCHANGED <<counted, pushed, queue>>
         \/ /\ counted' = [counted EXCEPT ![t] = @ + 1]
            /\ pushed' = [pushed EXCEPT ![t] = @ + 1]
            /\ queue' = Append(queue, t)
            /\ jobs' = [jobs EXCEPT ![h].todo = rest, ![h].ok = TRUE]
  /\ UNCHANGED <<drops, deviceVars, live, seen>>

\* One tag is served.  The pass is counted first; then the passport is asked
\* from Miriada and put into the list, and an error on this way ends the
\* service of the tag.  The filling status is sent to Miriada last: that error
\* is not caught, and ends the whole event.
ServeTag(h) ==
  /\ jobs[h].pc = "tags"
  /\ calls # <<>> /\ Head(calls) = h /\ calls' = Tail(calls)
  /\ LET t == Head(jobs[h].todo)
         rest == Tail(jobs[h].todo)
     IN  /\ counted' = [counted EXCEPT ![t] = @ + 1]
         /\ \/ /\ "passport" \in mishaps
               /\ jobs' = [jobs EXCEPT ![h].todo = rest]
               /\ UNCHANGED <<pushed, queue>>
            \/ /\ pushed' = [pushed EXCEPT ![t] = @ + 1]
               /\ queue' = Append(queue, t)
               /\ \/ jobs' = [jobs EXCEPT ![h].todo = rest, ![h].ok = TRUE]
                  \/ /\ "status" \in mishaps
                     /\ jobs' = [jobs EXCEPT ![h].pc = "ack", ![h].todo = <<>>]
  /\ UNCHANGED <<drops, deviceVars, live, seen>>

\* The lamp (ok): steady when a tag was served or none was new, else blinking.
Indicate(h) ==
  /\ jobs[h].pc = "tags" /\ jobs[h].todo = <<>>
  /\ jobs' = [jobs EXCEPT ![h].pc = "ack", ![h].ok = @ \/ ~jobs[h].fresh]
  /\ UNCHANGED <<drops, deviceVars, live, calls, seen, counted, pushed, queue>>

\* Mutant: what a handler has finished counts as heard on any connection.
AcknowledgeAnyway(h) ==
  /\ jobs[h].pc = "ack"
  /\ jobs' = [jobs EXCEPT ![h] = Idle]
  /\ buffer' = IF buffer = <<>> THEN buffer ELSE Tail(buffer)
  /\ UNCHANGED <<drops, passed, reads, live, calls, seen, counted, pushed, queue>>

\* The event is acknowledged whatever became of it; on a lost connection the
\* device does not hear it.
Acknowledge(h) ==
  /\ jobs[h].pc = "ack"
  /\ jobs' = [jobs EXCEPT ![h] = Idle]
  /\ buffer' = IF h = live THEN Tail(buffer) ELSE buffer
  /\ UNCHANGED <<drops, passed, reads, live, calls, seen, counted, pushed, queue>>

Handle(h) ==
  Call(h) \/ ServeInput(h) \/ ServeTag(h) \/ Indicate(h) \/ Acknowledge(h)

ReaderNext ==
  \/ Pass \/ Reread \/ Accept \/ Drop \/ Restart \/ Receive
  \/ \E h \in Handlers : Handle(h)

ReaderFair ==
  WF_readerVars(Accept) /\ WF_readerVars(Receive)
  /\ \A h \in Handlers : WF_readerVars(Handle(h))

-----------------------------------------------------------------------------
Job == [pc : {"idle", "input", "tags", "ack"},
        todo : Seq(Balloons \cup {Optical}), fresh : BOOLEAN, ok : BOOLEAN]

ReaderTypeOK ==
  /\ drops \in 0 .. MaxDrops
  /\ passed \in 0 .. Last /\ reads \in 0 .. MaxReads
  /\ buffer \in Seq(Seq(Balloons \cup {Optical}))
  /\ live \in {0} \cup Handlers
  /\ jobs \in [Handlers -> Job]
  /\ calls \in Seq(Handlers)
  /\ seen \in Seq(Balloons)
  /\ counted \in [Balloons \cup {Optical} -> Nat]
  /\ pushed \in [Balloons -> Nat]
  /\ queue \in Seq(Balloons)

\* The tags are remembered as long as their events may come again: the process
\* is not restarted, and an event that is sent again has no more tags than the
\* memory has places.
Remembers ==
  /\ "restart" \notin mishaps
  /\ {"pair", "drop"} \subseteq mishaps => MaxTags <= Memory

\* A balloon is counted once and leaves one passport for its pass, however
\* often it is read and its event sent, unless the process forgets its tags.
CountedOnce ==
  Remembers =>
    \A b \in Balloons : counted[b] <= 1 /\ pushed[b] <= 1

\* A tag that is filtered out from now on has been counted or is about to be,
\* unless a status that Miriada does not take ends the service of its event.
FilteredWasCounted ==
  "status" \notin mishaps =>
    \A i \in DOMAIN seen :
      \/ counted[seen[i]] > 0
      \/ \E h \in Handlers : Among(seen[i], jobs[h].todo)

\* The passports lie in the order of the belt, unless one event carries several
\* tags and its connection is lost, or tags are forgotten.
PassportsInOrder ==
  {"pair", "drop"} \subseteq mishaps \/ "restart" \in mishaps
  \/ \A i, j \in DOMAIN queue : i < j => queue[i] < queue[j]

\* With connections that come back, each balloon that is read leaves its
\* passport.
PassportArrives ==
  (mishaps \cap {"unread", "passport", "status"} = {} /\ passed = Last)
    ~> \A b \in Balloons : pushed[b] > 0
=============================================================================
