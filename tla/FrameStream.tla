----------------------------- MODULE FrameStream -----------------------------
(***************************************************************************)
(* The bytes between the posts of a carousel and its listener              *)
(* (carousel/listener/transport.py, runner.py).                            *)
(*                                                                         *)
(* Frames have no delimiter: the listener cuts the stream after every Size *)
(* bytes, and a frame that is cut wrongly fails its CRC.  A byte that got  *)
(* lost therefore spoils all frames after it, until the line is silent for *)
(* so long that the rest of a frame is given up with the connection.       *)
(* CarouselPosts takes frames as whole; here is what makes them so.        *)
(*                                                                         *)
(* Time passes in seconds of silence, each of which is a timeout of read.  *)
(***************************************************************************)
EXTENDS Mishaps, Sequences, FiniteSets

CONSTANTS
  Size,        \* FRAME_SIZE, 8 in the code
  Stale,       \* STALE_PARTIAL_BUFFER_SECONDS, 10 in the code
  MaxFrames    \* bound: frames that the posts send

ASSUME StreamBounds ==
  Size \in Nat \ {0} /\ Stale \in Nat \ {0} /\ MaxFrames \in Nat

VARIABLES
  coming,   \* bytes in the socket: [frame, part]
  buffer,   \* _buffer of the transport
  age,      \* seconds since the first byte of the buffer came
  open,     \* is there a connection?
  sent,     \* frames sent so far
  silent,   \* seconds since the last byte, up to Stale
  harmed,   \* a byte was lost or added since the last long silence
  awaited,  \* frames that the listener ought to hear
  heard     \* frames with a valid CRC

streamVars == <<coming, buffer, age, open, sent, silent, harmed, awaited, heard>>

StreamInit ==
  /\ coming = <<>> /\ buffer = <<>> /\ age = 0 /\ open = TRUE
  /\ sent = 0 /\ silent = 0 /\ harmed = FALSE /\ awaited = {} /\ heard = {}

-----------------------------------------------------------------------------
(* The line.                                                               *)

Bytes(f) == [i \in 1 .. Size |-> [frame |-> f, part |-> i]]

Without(s, i) == SubSeq(s, 1, i - 1) \o SubSeq(s, i + 1, Len(s))

\* A post sends a frame: whole, without one of its bytes, or behind a stray one.
\* Nobody hears it while there is no connection.
SendFrame ==
  /\ sent < MaxFrames /\ sent' = sent + 1 /\ silent' = 0
  /\ LET frame == Bytes(sent')
     IN  IF ~open THEN Smooth /\ UNCHANGED <<coming, harmed, awaited>>
         ELSE \/ /\ Smooth /\ coming' = coming \o frame
                 /\ awaited' = IF harmed THEN awaited ELSE awaited \cup {sent'}
                 /\ harmed' = harmed
              \/ /\ Slip("byte") /\ harmed' = TRUE /\ awaited' = awaited
                 /\ \/ \E i \in 1 .. Size : coming' = coming \o Without(frame, i)
                    \/ coming' = coming \o <<[frame |-> 0, part |-> 0]>> \o frame
  /\ UNCHANGED <<buffer, age, open, heard>>

-----------------------------------------------------------------------------
(* The listener.                                                           *)

\* validate_frame_crc: the bytes are those of one frame, in their order.
Valid(bytes) == bytes = Bytes(bytes[1].frame)

\* read_frame: a chunk of any length, but not beyond the end of the frame.
ReadChunk ==
  /\ open /\ coming # <<>>
  /\ \E n \in 1 .. Len(coming) :
       LET more == buffer \o SubSeq(coming, 1, n)
       IN  /\ Len(more) =< Size
           /\ coming' = SubSeq(coming, n + 1, Len(coming))
           /\ IF Len(more) < Size
                THEN /\ buffer' = more /\ heard' = heard
                     /\ age' = IF buffer = <<>> THEN 0 ELSE age
                ELSE /\ buffer' = <<>> /\ age' = 0
                     /\ heard' = IF Valid(more) THEN heard \cup {more[1].frame}
                                 ELSE heard
  /\ Smooth /\ UNCHANGED <<open, sent, silent, harmed, awaited>>

\* Mutant: every timeout starts the timer of the partial frame anew.
HandleReadTimeoutRenews ==
  /\ age' = 0 /\ UNCHANGED <<buffer, open>>

\* The rest of a frame that stands for too long ends the connection.
HandleReadTimeout ==
  LET older == IF age < Stale THEN age + 1 ELSE age
  IN  IF buffer # <<>> /\ older >= Stale
        THEN buffer' = <<>> /\ age' = 0 /\ open' = FALSE
        ELSE /\ age' = IF buffer = <<>> THEN 0 ELSE older
             /\ UNCHANGED <<buffer, open>>

\* A second without a byte.
Second ==
  /\ coming = <<>>
  /\ silent' = IF silent < Stale THEN silent + 1 ELSE silent
  /\ harmed' = (harmed /\ silent' < Stale)
  /\ IF open THEN HandleReadTimeout ELSE UNCHANGED <<buffer, age, open>>
  /\ Smooth /\ UNCHANGED <<coming, sent, awaited, heard>>

\* A minute after an error, with an empty buffer; or NPort closes.
Reconnect ==
  /\ ~open /\ open' = TRUE /\ buffer' = <<>> /\ age' = 0 /\ coming' = <<>>
  /\ harmed' = FALSE
  /\ Smooth /\ UNCHANGED <<sent, silent, awaited, heard>>

ConnectionLost ==
  /\ open /\ Slip("lost") /\ open' = FALSE /\ coming' = <<>>
  /\ UNCHANGED <<buffer, age, sent, silent, harmed, awaited, heard>>

StreamNext == SendFrame \/ ReadChunk \/ Second \/ Reconnect \/ ConnectionLost

StreamSpec ==
  MishapInit /\ StreamInit /\ [][StreamNext]_<<mishapVars, streamVars>>

-----------------------------------------------------------------------------
\* One lost or stray byte costs frames only until the line was silent for as
\* long as a partial frame is kept, or the connection is new: every whole frame
\* after that is read, and so is every one before it (read_frame,
\* _handle_read_timeout).  Posts that never pause for so long are not heard
\* again; a lost connection may take frames with it.
FramesAreHeard ==
  ("lost" \notin mishaps /\ coming = <<>>) => awaited \subseteq heard
=============================================================================
