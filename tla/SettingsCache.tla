--------------------------- MODULE SettingsCache ---------------------------
(***************************************************************************)
(* The settings of the carousels (carousel/settings_cache.py, signals.py): *)
(* the table, a copy with a revision in Redis, and the copy in the memory  *)
(* of the listener process, whose threads read it for every frame.  Web    *)
(* processes save and delete rows; they have copies too, which nothing     *)
(* reads, and which are left out.                                          *)
(*                                                                         *)
(* A row is one value here, and Gone where there is none.  What the        *)
(* listener does under its lock between two calls of Redis is one step;    *)
(* the lock is held over several steps only in upsert_from_model.          *)
(***************************************************************************)
EXTENDS Mishaps

CONSTANTS
  Carousels, Values,
  Savers,        \* web workers
  Lookers,       \* threads of the listener
  MaxSaves       \* bound: rows saved or deleted

Gone == "gone"
Rows == [Carousels -> Values \cup {Gone}]
NoRows == [n \in Carousels |-> Gone]
Threads == Savers \cup Lookers

ASSUME SettingsActors == Savers \cap Lookers = {}
ASSUME SettingsValues == Gone \notin Values
ASSUME SettingsBound == MaxSaves \in Nat

VARIABLES
  table,         \* CarouselSettings
  hash, rev,     \* Redis: carousel:settings:hash and :rev
  store, local, loaded,   \* listener: _store, _local_rev, _loaded
  job,           \* what each thread is doing
  saves          \* bound

redisVars == <<hash, rev>>
listenerVars == <<store, local, loaded>>
settingsVars == <<table, hash, rev, store, local, loaded, job, saves>>

\* Where a thread is, the carousel it is about, the rows and the revision it
\* has read.
Job(pc, n, rows, got) == [pc |-> pc, n |-> n, rows |-> rows, got |-> got]
Rest == Job("idle", Gone, NoRows, 0)

\* The listener is started, and main loads the table.
SettingsInit ==
  /\ \E v \in Values : table = [n \in Carousels |-> v]
  /\ hash = NoRows /\ rev = 0
  /\ store = NoRows /\ local = 0 /\ loaded = FALSE
  /\ \E t \in Lookers :
       job = [u \in Threads |->
                IF u = t THEN Job("rows", Gone, NoRows, 0) ELSE Rest]
  /\ saves = 0

-----------------------------------------------------------------------------
At(t, pc) == job[t].pc = pc

Goes(t, pc) == job' = [job EXCEPT ![t].pc = pc]
Rests(t) == job' = [job EXCEPT ![t] = Rest]

\* The thread has what Redis can tell, and looks the carousel up.
Finds(t) == job' = [job EXCEPT ![t] = Job("find", job[t].n, NoRows, 0)]

\* Threads between their change and the revision that tells of it.
Publishing == {t \in Threads : job[t].pc \in {"publish", "bump"}}

\* The lock of the listener is free for the thread.
Unlocked(t) == t \in Lookers => \A u \in Lookers : ~At(u, "bump")

\* The web saves a row or deletes one, and its signal publishes that.  Two
\* saves of one row that overlap, and one that overlaps the loading of the
\* table, are mishaps, and so is a row that is new.
Save(t, n) ==
  /\ t \in Savers /\ At(t, "idle") /\ saves < MaxSaves /\ saves' = saves + 1
  /\ \E v \in Values \cup {Gone} :
       /\ v # table[n]
       /\ table' = [table EXCEPT ![n] = v]
       /\ job' = [job EXCEPT ![t] = Job("publish", n, table', 0)]
  /\ IF table[n] = Gone THEN Slip("create")
     ELSE IF \/ \E u \in Publishing : job[u].n = n
             \/ \E u \in Lookers : At(u, "load")
     THEN Slip("overlap") ELSE Smooth
  /\ UNCHANGED <<redisVars, listenerVars>>

\* The listener's copy, for a thread of the listener.
Upsert(t) ==
  IF t \in Lookers
  THEN /\ store' = [store EXCEPT ![job[t].n] = job[t].rows[job[t].n]]
       /\ loaded' = TRUE
  ELSE UNCHANGED <<store, loaded>>

Publish(t) ==
  /\ At(t, "publish") /\ Unlocked(t)
  /\ Upsert(t)
  /\ \/ /\ hash' = [hash EXCEPT ![job[t].n] = job[t].rows[job[t].n]]
        /\ Goes(t, "bump") /\ Smooth
     \/ Slip("redis") /\ Rests(t) /\ hash' = hash
  /\ UNCHANGED <<table, rev, local, saves>>

Bump(t) ==
  /\ At(t, "bump")
  /\ \/ /\ rev' = rev + 1 /\ Smooth
        /\ local' = IF t \in Lookers THEN rev' ELSE local
     \/ Slip("redis") /\ UNCHANGED <<rev, local>>
  /\ Rests(t)
  /\ UNCHANGED <<table, hash, store, loaded, saves>>

-----------------------------------------------------------------------------
(* A thread of the listener wants the settings of a carousel.              *)

Look(t, n) ==
  /\ t \in Lookers /\ At(t, "idle") /\ loaded
  /\ job' = [job EXCEPT ![t] = Job("rev", n, NoRows, 0)]
  /\ Smooth /\ UNCHANGED <<table, redisVars, listenerVars, saves>>

ReadRev(t) ==
  /\ At(t, "rev")
  /\ \/ Smooth /\ job' = [job EXCEPT ![t].pc = "check", ![t].got = rev]
     \/ Slip("redis") /\ Finds(t)
  /\ UNCHANGED <<table, redisVars, listenerVars, saves>>

Check(t) ==
  /\ At(t, "check") /\ Unlocked(t)
  /\ IF loaded /\ job[t].got = local THEN Finds(t) ELSE Goes(t, "all")
  /\ Smooth /\ UNCHANGED <<table, redisVars, listenerVars, saves>>

ReadAll(t) ==
  /\ At(t, "all")
  /\ \/ /\ Smooth
        /\ IF hash = NoRows /\ job[t].got = 0 THEN Goes(t, "rows")
           ELSE job' = [job EXCEPT ![t].pc = "replace", ![t].rows = hash]
     \/ Slip("redis") /\ Finds(t)
  /\ UNCHANGED <<table, redisVars, listenerVars, saves>>

\* Mutant: the copy gets the revision that is in Redis by now.
ReplaceNewest(t) ==
  /\ At(t, "replace") /\ Unlocked(t)
  /\ store' = job[t].rows /\ local' = rev /\ loaded' = TRUE
  /\ Finds(t)
  /\ Smooth /\ UNCHANGED <<table, redisVars, saves>>

Replace(t) ==
  /\ At(t, "replace") /\ Unlocked(t)
  /\ store' = job[t].rows /\ local' = job[t].got /\ loaded' = TRUE
  /\ Finds(t)
  /\ Smooth /\ UNCHANGED <<table, redisVars, saves>>

Find(t) ==
  /\ At(t, "find") /\ Unlocked(t)
  /\ IF store[job[t].n] # Gone THEN Rests(t) ELSE Goes(t, "fallback")
  /\ Smooth /\ UNCHANGED <<table, redisVars, listenerVars, saves>>

Fallback(t) ==
  /\ At(t, "fallback")
  /\ IF table[job[t].n] = Gone THEN Rests(t)
     ELSE job' = [job EXCEPT ![t].pc = "publish", ![t].rows = table]
  /\ Smooth /\ UNCHANGED <<table, redisVars, listenerVars, saves>>

\* The table is loaded: by main, which serves nobody yet, or for a thread that
\* found Redis empty.
AfterLoad(t) == IF job[t].n = Gone THEN Rests(t) ELSE Finds(t)

ReadRows(t) ==
  /\ At(t, "rows")
  /\ job' = [job EXCEPT ![t].pc = "load", ![t].rows = table]
  /\ Smooth /\ UNCHANGED <<table, redisVars, listenerVars, saves>>

Load(t) ==
  /\ At(t, "load") /\ Unlocked(t)
  /\ \/ hash' = job[t].rows /\ rev' = rev + 1 /\ local' = rev' /\ Smooth
     \/ Slip("redis") /\ UNCHANGED <<hash, rev, local>>
  /\ store' = job[t].rows /\ loaded' = TRUE
  /\ AfterLoad(t)
  /\ UNCHANGED <<table, saves>>

-----------------------------------------------------------------------------
\* The listener is killed and started again.
Restart(t) ==
  /\ t \in Lookers /\ Slip("restart")
  /\ store' = NoRows /\ local' = 0 /\ loaded' = FALSE
  /\ job' = [u \in Threads |->
               IF u = t THEN Job("rows", Gone, NoRows, 0)
               ELSE IF u \in Lookers THEN Rest ELSE job[u]]
  /\ UNCHANGED <<table, redisVars, saves>>

\* Redis loses its data.
Flush ==
  /\ Slip("flush") /\ hash' = NoRows /\ rev' = 0
  /\ UNCHANGED <<table, listenerVars, job, saves>>

Works(t) ==
  \/ Publish(t) \/ Bump(t)
  \/ ReadRev(t) \/ Check(t) \/ ReadAll(t) \/ Replace(t) \/ Find(t)
  \/ Fallback(t) \/ ReadRows(t) \/ Load(t)

SettingsNext ==
  \/ \E t \in Threads :
       Works(t) \/ Restart(t) \/ \E n \in Carousels : Save(t, n) \/ Look(t, n)
  \/ Flush

SettingsSpec ==
  MishapInit /\ SettingsInit /\ [][SettingsNext]_<<mishapVars, settingsVars>>

-----------------------------------------------------------------------------
\* When the listener knows the revision that is in Redis, its settings are
\* those of the table, but for changes that are still being published
\* (settings_cache.py: a row is written before the revision is raised, and
\* the revision is read before the rows).
StoreIsCurrent ==
  (/\ mishaps \cap {"overlap", "redis", "flush", "create"} = {}
   /\ loaded /\ local = rev)
  => \A n \in Carousels :
       store[n] = table[n] \/ \E t \in Publishing : job[t].n = n
=============================================================================
