----------------------------- MODULE FeigFrames -----------------------------
(***************************************************************************)
(* Frames of the Feig readers (rfid_utils/feig_frames.py, read_frame of    *)
(* feig_protocol.py): a reader sends an event, the process reads a frame   *)
(* from the stream, checks it, parses it record by record, and answers.    *)
(*                                                                         *)
(* Frames are sequences of bytes here, because the parser finds its way by *)
(* positions.  Contents that nothing looks at are zeros, and a transponder *)
(* has a number of one or two bytes.                                       *)
(***************************************************************************)
EXTENDS Mishaps, Sequences, SequencesExt

CONSTANTS
  Layouts,       \* parts of the records: subsets of {"date", "time", "tag"}
  Transponders,  \* types of transponders: {0, 3, 9} are known
  TagLengths,    \* lengths of their numbers
  MaxRecords,    \* bound: records of an event
  Bursts         \* bound: the bits of a byte that may change together

\* An event has room in a frame, whose length is a number of two bytes.
ASSUME FrameBounds ==
  /\ Layouts \subseteq SUBSET {"date", "time", "tag"} /\ Transponders \subseteq 0 .. 255
  /\ MaxRecords \in 0 .. 255 /\ TagLengths \subseteq 1 .. 255
  /\ \A l \in TagLengths : MaxRecords * (l + 23) + 10 =< 65535
  /\ Bursts \subseteq (SUBSET (0 .. 7)) \ {{}}

VARIABLES
  event,         \* what the reader has seen
  stream,        \* the bytes on their way
  step,          \* what the process does
  data,          \* response_data
  pos, left,     \* the position of the parser, the records still to parse
  parsed,        \* the records that it returns
  ack            \* the answer to the reader, as bytes

parserVars == <<data, pos, left, parsed>>
frameVars == <<event, stream, step, parserVars, ack>>

STX == 2
Zeros(n) == [i \in 1 .. n |-> 0]
Low(n) == n % 256
High(n) == n \div 256
\* struct.unpack('>H'), at a position that counts from 0 as in the code
Word(bytes, p) == bytes[p + 1] * 256 + bytes[p + 2]
Slice(bytes, p, q) == SubSeq(bytes, p + 1, q)

-----------------------------------------------------------------------------
(* The frame.                                                              *)

\* The bits of a byte that are set, counted from the lowest.
Weights == <<1, 2, 4, 8, 16, 32, 64, 128>>
Bits ==
  [byte \in 0 .. 255 |-> {k \in 0 .. 7 : (byte \div Weights[k + 1]) % 2 = 1}]
ByteOf(bits) ==
  LET Bit(k) == IF k \in bits THEN Weights[k + 1] ELSE 0
  IN Bit(0) + Bit(1) + Bit(2) + Bit(3) + Bit(4) + Bit(5) + Bit(6) + Bit(7)

\* The register of the CRC is a set of bits too; {3, 10, 15} is 0x8408.
Down(crc) == {k - 1 : k \in crc \ {0}}
Shift(crc) == IF 0 \in crc THEN SymDiff(Down(crc), {3, 10, 15}) ELSE Down(crc)

\* Eight of them, for each register.
Shifted ==
  [crc \in SUBSET (0 .. 15) |->
     Shift(Shift(Shift(Shift(Shift(Shift(Shift(Shift(crc))))))))]

Update(crc, byte) == Shifted[SymDiff(crc, Bits[byte])]

Crc16(bytes) ==
  LET crc[i \in 0 .. Len(bytes)] ==
        IF i = 0 THEN 0 .. 15 ELSE Update(crc[i - 1], bytes[i])
  IN crc[Len(bytes)]

\* A request or an answer of the process, and an event of the reader alike.
Frame(payload) ==
  LET length == Len(payload) + 6
      packet == <<STX, High(length), Low(length), 255>> \o payload
      crc == Crc16(packet)
  IN packet \o <<ByteOf(crc \cap 0 .. 7), ByteOf({k - 8 : k \in crc \ 0 .. 7})>>

Refused == <<-1>>

\* parse_response: the data of a frame.
ParseResponse(response) ==
  IF response[1] # STX \/ Len(response) < Word(response, 1) THEN Refused
  ELSE LET length == Word(response, 1)
           crc == Bits[response[length - 1]] \cup {k + 8 : k \in Bits[response[length]]}
       IN IF crc # Crc16(Slice(response, 0, length - 2)) THEN Refused
          ELSE Slice(response, 4, length - 2)

-----------------------------------------------------------------------------
(* The reader: the bytes of a record.                                      *)

Header(type, n) ==
  CASE type = 0 -> <<0, n>> [] type = 3 -> <<3, 0, 0, n>> [] OTHER -> <<type, 0, n>>

RecordBytes(r) ==
  <<0, 0, 0, (IF "date" \in r.parts THEN 1 ELSE 0) + (IF "time" \in r.parts THEN 2 ELSE 0)
             + (IF "tag" \in r.parts THEN 4 ELSE 0)>>
  \o (IF "date" \in r.parts THEN Zeros(5) ELSE <<>>)
  \o (IF "time" \in r.parts THEN Zeros(4) ELSE <<>>)
  \o (IF "tag" \in r.parts THEN Header(r.type, Len(r.tag)) \o r.tag \o Zeros(6) ELSE <<>>)

Payload(e) ==
  CASE e.command = 43 ->
         <<43, e.status, 0, Len(e.records)>> \o FlattenSeq([i \in DOMAIN e.records |-> RecordBytes(e.records[i])])
    [] e.command = 44 ->
         <<44, e.status, 0, Len(e.records), 0, 0, 16, 0>>
         \o FlattenSeq([i \in DOMAIN e.records |-> Zeros(7) \o <<e.records[i].on>>])
    [] OTHER -> <<e.command, e.status>>

\* The numbers of balloons have 224, 0xE0, first.
TagOf(n, i) == [k \in 1 .. n |-> IF k = 1 THEN IF i = 1 THEN 224 ELSE 7 ELSE (16 * i + k) % 256]
TagEvents ==
  UNION {{[command |-> 43, status |-> 0,
           records |-> [i \in 1 .. n |-> [parts |-> p[i], type |-> t[i], tag |-> TagOf(l, i)]]] :
            p \in [1 .. n -> Layouts], t \in [1 .. n -> Transponders], l \in TagLengths} :
         n \in 0 .. MaxRecords}
InputEvents ==
  UNION {{[command |-> 44, status |-> 0, records |-> [i \in 1 .. n |-> [on |-> b[i]]]] :
            b \in [1 .. n -> {0, 1}]} : n \in 0 .. MaxRecords}
\* 42: the reader is there; 146: no data, whatever follows; 99: not known
OtherEvents == {[command |-> c, status |-> s, records |-> <<>>] : c \in {42, 43, 99}, s \in {0, 146}}

FrameInit ==
  /\ event \in TagEvents \cup InputEvents \cup OtherEvents
  /\ stream = Frame(Payload(event))
  /\ step = "read" /\ data = <<>> /\ pos = 0 /\ left = 0 /\ parsed = <<>> /\ ack = <<>>

\* A byte changes on its way, or the rest does not come.
Disturb ==
  /\ step = "read"
  /\ \/ \E i \in DOMAIN stream, burst \in Bursts :
          LET byte == ByteOf(SymDiff(Bits[stream[i]], burst)) IN
          /\ Slip(IF i \in {2, 3} /\ byte < stream[i] THEN "shortened" ELSE "noise")
          /\ stream' = [stream EXCEPT ![i] = byte]
     \/ \E n \in 1 .. Len(stream) - 1 :
          Slip("cut") /\ stream' = SubSeq(stream, 1, n)
  /\ UNCHANGED <<event, step, parserVars, ack>>

-----------------------------------------------------------------------------
(* The process.                                                            *)

\* The connection is closed: without an answer, the reader sends the event
\* again on a new one.
Abort ==
  step' = "closed" /\ UNCHANGED parserVars

\* read_frame and parse_response.
ReadFrame ==
  /\ step = "read"
  /\ LET length == Word(stream, 1)
         whole == Len(stream) >= 3 /\ stream[1] = STX /\ length >= 7 /\ Len(stream) >= length
         response == ParseResponse(SubSeq(stream, 1, length))
     IN IF whole /\ response # Refused
        THEN step' = "header" /\ data' = response /\ UNCHANGED <<pos, left, parsed>>
        ELSE Abort
  /\ Smooth /\ UNCHANGED <<event, stream, ack>>

Has(p) == Len(data) >= p

\* Bits 2 and 12 tell of an input sector.
HasInputs == (data[7] \div 16) % 2 = 1 \/ (data[8] \div 4) % 2 = 1

\* The command, the status, and how many records there are.
ParseHeader ==
  /\ step = "header"
  /\ IF ~Has(2)
     THEN step' = "done" /\ UNCHANGED <<pos, left>>
     ELSE IF data[2] # 0 \/ data[1] \notin {43, 44} \/ ~Has(IF data[1] = 43 THEN 4 ELSE 8)
     THEN step' = "done" /\ UNCHANGED <<pos, left>>
     ELSE /\ pos' = IF data[1] = 43 THEN 4 ELSE 8
          /\ left' = IF data[1] = 43 \/ HasInputs THEN Word(data, 2) ELSE 0
          /\ step' = IF data[1] = 43 THEN "tags" ELSE "inputs"
  /\ Smooth /\ UNCHANGED <<event, stream, data, parsed, ack>>

\* Where the number of a transponder begins, from its type.
IdAt(type) == CASE type = 0 -> 2 [] type = 3 -> 4 [] OTHER -> 3

\* Mutant: the state of the inputs and the signals are left in front of the
\* next record.
RecordAtNoInputs(p) ==
  LET layout == data[p + 4]
      q == p + 4 + (IF layout % 2 = 1 THEN 5 ELSE 0)
               + (IF (layout \div 2) % 2 = 1 THEN 4 ELSE 0)
      type == data[q + 1]
      first == q + IdAt(type)
      last == first + data[first]
  IN IF ~Has(p + 4) THEN Refused
     ELSE IF (layout \div 4) % 2 = 0
     THEN IF Has(q) THEN <<q, <<>>>> ELSE Refused
     ELSE IF ~Has(q + 1) \/ type \notin {0, 3, 9} \/ ~Has(first) \/ ~Has(last + 6) THEN Refused
     ELSE <<last, Reverse(Slice(data, first, last))>>

\* The record at a position: where the next one is, and the number of the
\* transponder, from the last byte to the first.  A type that is not known
\* or too few bytes end the parsing.
RecordAt(p) ==
  LET layout == data[p + 4]
      q == p + 4 + (IF layout % 2 = 1 THEN 5 ELSE 0)
               + (IF (layout \div 2) % 2 = 1 THEN 4 ELSE 0)
      type == data[q + 1]
      first == q + IdAt(type)
      last == first + data[first]
  IN IF ~Has(p + 4) THEN Refused
     ELSE IF (layout \div 4) % 2 = 0
     THEN IF Has(q) THEN <<q, <<>>>> ELSE Refused
     ELSE IF ~Has(q + 1) \/ type \notin {0, 3, 9} \/ ~Has(first) \/ ~Has(last + 6) THEN Refused
     ELSE <<last + 6, Reverse(Slice(data, first, last))>>

ParseTag ==
  /\ step = "tags"
  /\ LET record == RecordAt(pos) IN
     IF left = 0 \/ record = Refused
     THEN step' = "done" /\ UNCHANGED <<pos, left, parsed>>
     ELSE /\ pos' = record[1] /\ left' = left - 1 /\ step' = step
          /\ parsed' = IF record[2] = <<>> THEN parsed ELSE Append(parsed, record[2])
  /\ Smooth /\ UNCHANGED <<event, stream, data, ack>>

\* The state of IN1 now, after the one before.
ParseInput ==
  /\ step = "inputs"
  /\ IF left = 0 \/ ~Has(pos + 8)
     THEN step' = "done" /\ UNCHANGED <<pos, left, parsed>>
     ELSE /\ pos' = pos + 8 /\ left' = left - 1 /\ step' = step
          /\ parsed' = Append(parsed, data[pos + 8] % 2)
  /\ Smooth /\ UNCHANGED <<event, stream, data, ack>>

\* What is too short or not known is refused.
Status == IF ~Has(2) THEN 129 ELSE IF data[1] \in {42, 43, 44} THEN 0 ELSE 128

\* The event is served and answered.
Answer ==
  /\ step = "done" /\ step' = "answered"
  /\ ack' = Frame(<<data[1], Status>>)
  /\ Smooth /\ UNCHANGED <<event, stream, parserVars>>

FrameNext ==
  \/ Disturb \/ ReadFrame \/ ParseHeader \/ ParseTag \/ ParseInput \/ Answer

FrameSpec == MishapInit /\ FrameInit /\ [][FrameNext]_<<mishapVars, frameVars>>

-----------------------------------------------------------------------------
\* The records that are read: up to a transponder that is not known.
Unknown(r) == "tag" \in r.parts /\ r.type \notin {0, 3, 9}
Readable(e) ==
  CHOOSE n \in 0 .. Len(e.records) :
    /\ \A i \in 1 .. n : ~ Unknown(e.records[i])
    /\ n < Len(e.records) => Unknown(e.records[n + 1])

TagsOf(e) ==
  LET tags[n \in 0 .. Len(e.records)] ==
        IF n = 0 THEN <<>>
        ELSE IF "tag" \in e.records[n].parts
        THEN Append(tags[n - 1], Reverse(e.records[n].tag)) ELSE tags[n - 1]
  IN tags[Readable(e)]

\* What the reader has seen, of what the process reads.
SeenBy(e) ==
  IF e.status # 0 THEN <<>>
  ELSE CASE e.command = 43 -> TagsOf(e)
         [] e.command = 44 -> [i \in DOMAIN e.records |-> e.records[i].on]
         [] OTHER -> <<>>

\* An event that is answered was read as the reader has sent it, even when the
\* line was disturbed: the tags, or the states of the input, in their order and
\* none else, up to a transponder that is not known (feig_frames.py: CRC and
\* positions; read_frame: lengths); and the reader can read the answer.
EventsAreRead ==
  step = "answered"
  => parsed = SeenBy(event) /\ ParseResponse(ack)[1] = event.command
=============================================================================
