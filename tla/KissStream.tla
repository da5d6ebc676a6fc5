------------------------------ MODULE KissStream ------------------------------
(***************************************************************************)
(* KISS framing (kiss/buffer.rs, kiss/frame.rs, port/stream.rs and the     *)
(* reader of a phone in port/ble_server.rs): a peer writes frames, byte    *)
(* stuffed and between FENDs, into a byte stream that the reader gets in   *)
(* chunks of any size, perhaps joining it in the middle of a frame.        *)
(*                                                                         *)
(* Bytes are numbers, so that the four special ones and the command's two  *)
(* halves are what they are on the wire; frames and limits are short.      *)
(***************************************************************************)
EXTENDS Integers, Sequences, SequencesExt

CONSTANTS Commands, Bytes, MaxData,   \* the frames that the peer writes
          MaxFrames,                  \* how many of them
          Joined,    \* what may be on the wire before the first of them
          MaxSize,   \* max_size of the reassembly buffer
          Chunk      \* the length of the buffer that is read into

VARIABLES kind,      \* the reader: "stream" (KissReader) or "phone" (ble_server's reader_task)
          sent,      \* the frames that the peer has written
          wire,      \* bytes written and not read
          buf, in_frame,   \* KissReassemblyBuffer
          pending,   \* frames taken from the buffer and not returned yet
          got,       \* frames returned, still stuffed
          end        \* of the stream: "open", "eof" or "closed"; of the reader: "error"

vars == <<kind, sent, wire, buf, in_frame, pending, got, end>>

FEND == 192
FESC == 219
TFEND == 220
TFESC == 221

AllFrames == [command : Commands, data : UNION {[1..n -> Bytes] : n \in 0..MaxData}]

\* Variant with a defect: the escape byte itself is not escaped.
stuff_byte_fend_only(b) == IF b = FEND THEN <<FESC, TFEND>> ELSE <<b>>

stuff_byte(b) ==
  CASE b = FEND -> <<FESC, TFEND>> [] b = FESC -> <<FESC, TFESC>> [] OTHER -> <<b>>

encode(f) ==
  <<FEND>> \o FoldLeft(LAMBDA out, b : out \o stuff_byte(b), stuff_byte(f.command), f.data) \o <<FEND>>

\* One byte further in decode: esc while the byte after a FESC is awaited.
unstuff(d, b) ==
  IF d.esc
  THEN [data |-> Append(d.data, IF b = TFEND THEN FEND ELSE FESC), esc |-> FALSE,
        ok |-> d.ok /\ b \in {TFEND, TFESC}]
  ELSE IF b = FESC THEN [d EXCEPT !.esc = TRUE] ELSE [d EXCEPT !.data = Append(@, b)]

\* The frame, or nothing for an empty one, a truncated escape or an invalid one.
decode(raw) ==
  LET d == FoldLeft(unstuff, [data |-> <<>>, esc |-> FALSE, ok |-> TRUE], Tail(raw))
  IN  IF raw # <<>> /\ d.ok /\ ~d.esc THEN {[command |-> Head(raw), data |-> d.data]} ELSE {}

\* drain_frames: a scan for FENDs that remembers where the frame under way starts.
scan(b, inf) ==
  FoldLeftDomain(LAMBDA a, i :
             IF b[i] # FEND THEN a
             ELSE [frames |-> a.frames \o (IF \E s \in a.start : i > s
                                           THEN <<SubSeq(b, CHOOSE s \in a.start : TRUE, i - 1)>> ELSE <<>>),
                   start |-> {i + 1}, consumed |-> i],
           [frames |-> <<>>, start |-> IF inf THEN {1} ELSE {}, consumed |-> 0],
           b)

drained(a, b, inf) ==
  /\ pending' = a.frames
  /\ buf' = SubSeq(b, a.consumed + 1, Len(b))
  /\ in_frame' = (inf \/ a.consumed > 0)

drain_frames(b, inf) == drained(scan(b, inf), b, inf)

\* push refuses what doesn't fit and starts over; a KissReader's caller then ends the
\* connection, a phone's reader goes on.
overflow ==
  /\ buf' = <<>> /\ in_frame' = FALSE
  /\ end' = IF kind = "stream" THEN "error" ELSE end
  /\ UNCHANGED pending

fits(data) == Len(buf) + Len(data) <= MaxSize

push(data) ==
  \/ ~fits(data) /\ overflow
  \/ fits(data) /\ drain_frames(buf \o data, in_frame) /\ UNCHANGED end

\* The next round of read_frame: a read that returns any number of the bytes there are.
ReadChunk ==
  /\ pending = <<>> /\ end \in {"open", "eof"}
  /\ \E n \in 1..Chunk :
       /\ n <= Len(wire)
       /\ push(SubSeq(wire, 1, n))
       /\ wire' = SubSeq(wire, n + 1, Len(wire))
  /\ UNCHANGED <<kind, sent, got>>

\* A frame that waits is returned before anything is read.
ReturnFrame ==
  /\ pending # <<>>
  /\ got' = Append(got, Head(pending)) /\ pending' = Tail(pending)
  /\ UNCHANGED <<kind, sent, wire, buf, in_frame, end>>

\* A read of nothing: LinkClosed.
ReadEof ==
  /\ pending = <<>> /\ end = "eof" /\ wire = <<>>
  /\ end' = "closed"
  /\ UNCHANGED <<kind, sent, wire, buf, in_frame, pending, got>>

\* write_frame: the delimiters and the frame in one write, so that what another task
\* writes can't come between them.
Write ==
  /\ end = "open" /\ Len(sent) < MaxFrames
  /\ \E f \in AllFrames : sent' = Append(sent, f) /\ wire' = wire \o encode(f)
  /\ UNCHANGED <<kind, buf, in_frame, pending, got, end>>

Close ==
  /\ end = "open" /\ end' = "eof"
  /\ UNCHANGED <<kind, sent, wire, buf, in_frame, pending, got>>

Init ==
  /\ kind \in {"stream", "phone"} /\ sent = <<>> /\ wire \in Joined
  /\ buf = <<>> /\ in_frame = FALSE /\ pending = <<>> /\ got = <<>> /\ end = "open"

Next == ReadChunk \/ ReturnFrame \/ ReadEof \/ Write \/ Close

Spec == Init /\ [][Next]_vars

-----------------------------------------------------------------------------
\* From encode at one end, through reads of any length, to decode at the other.  A KissReader
\* returns the frames as they were written, in order, none twice, and all of them when it
\* reports the end of the stream.  A phone's reader goes on after an overflow: frames are
\* lost with it, but each that it returns is a whole one that was written, in order.
Intact ==
  /\ kind = "stream" =>
       /\ Len(got) <= Len(sent) /\ \A k \in DOMAIN got : decode(got[k]) = {sent[k]}
       /\ end = "closed" => Len(got) = Len(sent)
  /\ kind = "phone" => \E at \in [DOMAIN got -> DOMAIN sent] :
       /\ \A k \in DOMAIN got : decode(got[k]) = {sent[at[k]]}
       /\ \A j, k \in DOMAIN got : j < k => at[j] < at[k]
=============================================================================
