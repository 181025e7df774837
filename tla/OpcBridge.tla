------------------------------ MODULE OpcBridge ------------------------------
(***************************************************************************)
(* The process opcua.bridge: the trigger dispatcher (opcua/bridge/         *)
(* dispatcher.py), the OPC UA session with its subscription (client.py),   *)
(* and the consumer of the Redis write queue (writer.py, api.py).          *)
(*                                                                         *)
(* A snapshot of the PLC is the SET of the Boolean tags that are TRUE.  A  *)
(* string tag such as vehicle_list_0 is in the set when it is not empty.   *)
(* Every trigger condition of opcua/triggers.py is a conjunction of tags   *)
(* that must be TRUE (Pos) and tags that must be FALSE (Neg).              *)
(*                                                                         *)
(* The module is a component: the process models that use it (one per      *)
(* PLC) instantiate it, conjoin the PLC and the Celery tasks to its        *)
(* actions and name the tags and the triggers.                             *)
(***************************************************************************)
EXTENDS Naturals, Sequences

CONSTANTS
  Tags,          \* the Boolean tags of the registry that the triggers read
  Rank,          \* [Tags -> 1..n]: place of a tag in opcua/registry.py TAGS
  Triggers,      \* names of the TriggerDefs
  Pos,           \* [Triggers -> SUBSET Tags]: must be TRUE
  Neg,           \* [Triggers -> SUBSET Tags]: must be FALSE
  Guarded,       \* triggers that have an idempotency_ttl
  WriteThrough,  \* does the OPC server report a client's write as a sample?
  MaxAttempts    \* WRITE_MAX_ATTEMPTS

VARIABLES
  plc,           \* tags that are TRUE in the PLC
  sampled,       \* tags last reported TRUE to the subscription
  snap,          \* TriggerDispatcher._previous
  initialized,   \* TriggerDispatcher._initialized
  link,          \* "down", "session": connected, "up": initial read done too
  queue,         \* the Redis list opcua:write_queue, oldest request first
  attempt,       \* failed attempts of the request at the head of the queue
  orphan,        \* a cancelled writer's thread still waits in pop_write_request
  idem           \* idempotency keys present in the Django cache

bridgeVars == <<plc, sampled, snap, initialized, link, queue, attempt, orphan, idem>>

Write == [tag : Tags, val : BOOLEAN]

SetTag(s, w) == IF w.val THEN s \cup {w.tag} ELSE s \ {w.tag}

BridgeTypeOK ==
  /\ plc \subseteq Tags
  /\ sampled \subseteq Tags
  /\ snap \subseteq Tags
  /\ initialized \in BOOLEAN
  /\ link \in {"down", "session", "up"}
  /\ queue \in Seq(Write)
  /\ attempt \in 0 .. (MaxAttempts - 1)
  /\ orphan \in BOOLEAN
  /\ idem \subseteq Guarded

BridgeInit ==
  /\ plc = {}
  /\ sampled = {}
  /\ snap = {}
  /\ initialized = FALSE
  /\ link = "down"
  /\ queue = <<>>
  /\ attempt = 0
  /\ orphan = FALSE
  /\ idem = {}

-----------------------------------------------------------------------------
(* The dispatcher.                                                         *)

\* TriggerDef.condition(snapshot)
Active(tr, s) == Pos[tr] \subseteq s /\ Neg[tr] \cap s = {}

\* _maybe_fire, up to the idempotency key: a rising edge once the dispatcher
\* is initialized, before that an active condition and force_pending.
MayFire(tr, previous, current, force) ==
  /\ Active(tr, current)
  /\ IF initialized THEN ~ Active(tr, previous) ELSE force
  /\ tr \notin idem

\* on_snapshot stores the merged snapshot whatever became of the tasks; `sent`
\* are the triggers whose send_task succeeded, and only they keep their key.
OnSnapshot(current, sent) ==
  /\ snap' = current
  /\ initialized' = TRUE
  /\ idem' = idem \cup (sent \cap Guarded)

\* The idempotency_ttl of a key runs out.
ExpireKey(tr) ==
  /\ tr \in idem
  /\ idem' = idem \ {tr}
  /\ UNCHANGED <<plc, sampled, snap, initialized, link, queue, attempt, orphan>>

-----------------------------------------------------------------------------
(* The session: initial read, subscription, loss of the link.              *)

\* connect: the session exists, and the writer starts with it.  The delay
\* before a reconnect is longer than WRITE_POLL_TIMEOUT: by then the thread of
\* the last writer has given up.
Connect ==
  /\ link = "down"
  /\ link' = "session"
  /\ orphan' = FALSE
  /\ UNCHANGED <<plc, sampled, snap, initialized, queue, attempt, idem>>

\* run_subscription_loop: subscribe, read every tag, on_snapshot with
\* force_pending=True.
InitialReadFires == {tr \in Triggers : MayFire(tr, snap, plc, TRUE)}

\* Mutant: the initial read of a new session does not reach the snapshot.
InitialReadStale(sent) ==
  /\ link = "session"
  /\ sent \subseteq InitialReadFires
  /\ link' = "up"
  /\ sampled' = plc
  /\ OnSnapshot(snap, sent)
  /\ UNCHANGED <<plc, queue, attempt, orphan>>

InitialRead(sent) ==
  /\ link = "session"
  /\ sent \subseteq InitialReadFires
  /\ link' = "up"
  /\ sampled' = plc
  /\ OnSnapshot(plc, sent)
  /\ UNCHANGED <<plc, queue, attempt, orphan>>

\* The server samples the tags of S together and reports those that changed
\* since their last sample, in the order of the registry.  The loop handles
\* the events of one notification without yielding: after the tags of rank
\* i or less the dispatcher's snapshot is Merged(S, i).
Heard(S) == {t \in S \cap Tags : (t \in plc) # (t \in sampled)}

Merged(S, i) ==
       {t \in snap : t \notin Heard(S) \/ Rank[t] > i}
  \cup {t \in plc \cap Heard(S) : Rank[t] <= i}

PublishFires(S) ==
  {tr \in Triggers : \E t \in Heard(S) :
      MayFire(tr, Merged(S, Rank[t] - 1), Merged(S, Rank[t]), FALSE)}

Publish(S, sent) ==
  /\ link = "up"
  /\ Heard(S) # {}
  /\ sent \subseteq PublishFires(S)
  /\ sampled' = (sampled \ Heard(S)) \cup (plc \cap Heard(S))
  /\ OnSnapshot((snap \ Heard(S)) \cup (plc \cap Heard(S)), sent)
  /\ UNCHANGED <<plc, link, queue, attempt, orphan>>

\* The subscription or the session fails and both tasks are cancelled.  The
\* dispatcher lives on in main() with the snapshot it had.  The writer was
\* waiting for a request, and its thread goes on to wait; or it had popped
\* one, which is gone, written to the PLC or not.
Disconnect ==
  /\ link # "down"
  /\ link' = "down"
  /\ \/ /\ attempt = 0
        /\ orphan' = TRUE
        /\ UNCHANGED <<plc, queue>>
     \/ /\ queue # <<>>
        /\ queue' = Tail(queue)
        /\ plc' \in {plc, SetTag(plc, Head(queue))}
        /\ orphan' = FALSE
  /\ attempt' = 0
  /\ UNCHANGED <<sampled, snap, initialized, idem>>

\* The thread of the cancelled writer pops a request for nobody.
PopForNobody ==
  /\ orphan /\ queue # <<>>
  /\ queue' = Tail(queue)
  /\ orphan' = FALSE
  /\ UNCHANGED <<plc, sampled, snap, initialized, link, attempt, idem>>

\* The bridge process is restarted: its memory is lost, the Redis list and
\* the idempotency keys are not.
Restart ==
  /\ link = "down"
  /\ initialized
  /\ snap' = {}
  /\ initialized' = FALSE
  /\ UNCHANGED <<plc, sampled, link, queue, attempt, orphan, idem>>

-----------------------------------------------------------------------------
(* Writes.                                                                 *)

\* write_tag: lpush, fire and forget.
Enqueue(ws) == queue' = queue \o ws

\* node.write_value succeeded; update_tag puts the value into the snapshot
\* without looking for edges.
WriteDone ==
  /\ link # "down"
  /\ queue # <<>>
  /\ LET w == Head(queue)
     IN /\ plc' = SetTag(plc, w)
        /\ snap' = SetTag(snap, w)
        /\ sampled' = IF WriteThrough THEN SetTag(sampled, w) ELSE sampled
  /\ queue' = Tail(queue)
  /\ attempt' = 0
  /\ UNCHANGED <<initialized, link, orphan, idem>>

\* node.write_value raised: the server refused the value or, when `applied`,
\* took it and the answer was lost.  After the last attempt the request is
\* abandoned.
WriteFailed(applied) ==
  /\ link # "down"
  /\ queue # <<>>
  /\ plc' = IF applied THEN SetTag(plc, Head(queue)) ELSE plc
  /\ IF attempt + 1 < MaxAttempts
       THEN attempt' = attempt + 1 /\ queue' = queue
       ELSE attempt' = 0 /\ queue' = Tail(queue)
  /\ UNCHANGED <<sampled, snap, initialized, link, orphan, idem>>

=============================================================================
