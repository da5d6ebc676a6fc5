------------------------------- MODULE TncInit -------------------------------
(***************************************************************************)
(* Putting a TNC into KISS mode when its link comes up (port/tnc_init.rs), *)
(* and the stream it leaves for the bridge's KISS reader (Prefixed,        *)
(* kiss/buffer.rs).  A byte is a record: a FEND, a frame's command byte    *)
(* ("low") or another of its bytes ("high"), a reply's text, or a CR.      *)
(* The TH-D75 at the other end is the fake the module's tests run.         *)
(***************************************************************************)
EXTENDS Integers, Sequences, FiniteSets, SequencesExt

CONSTANTS
  BUSY_RETRIES,  \* how often a "?" is asked again
  MAX_FRAME,     \* the longest frame the scanner collects, in bytes
  Heard,         \* bound: the frames the radio hears during init
  Odd,           \* bound: commands answered with "?", replies that come after the wait for
                 \* them ended, and reads that end before what was sent does
  Models         \* the TNC models tried

VARIABLES
  found,   \* the mode, band and KISS interface the radio was found with
  radio,   \* the radio: those, and what it is doing
  sink,    \* what was written to it and not yet read by it
  wire,    \* what it sent and the host has not read
  scan,    \* struct Radio: line, frame, state, replies, frames
  step,    \* the command init waits on, how often it was sent, what is known
  out,     \* how init ended
  used     \* the budgets spent
vars == <<found, radio, sink, wire, scan, step, out, used>>

Byte(t, n) == [t |-> t, n |-> n, r |-> [c |-> "", m |-> 0, b |-> 0]]
FEND == Byte("FEND", 0)
CR == Byte("CR", 0)
Reply(c, m, b) == [c |-> c, m |-> m, b |-> b]
Text(r) == <<[t |-> "text", n |-> 0, r |-> r], CR>>
Body(n) == <<Byte("low", n), Byte("high", n)>>
KISS_RETURN == Reply("RETURN", 0, 0)
Ask(c) == Reply(c, 0, 0)

-----------------------------------------------------------------------------
(* The scanner: one byte at a time, frames and lines told apart. *)

NoScan == [line |-> <<>>, frame |-> <<>>, state |-> "Text", replies |-> <<>>, frames |-> <<>>]

\* Variant with a defect: a frame that closes is not kept.
push_forget(s, b) ==
  IF b.t = "FEND" THEN [s EXCEPT !.frame = <<>>, !.state = IF s.frame = <<>> THEN "Frame" ELSE "AfterFrame"]
  ELSE IF s.state = "Frame" \/ (s.state = "AfterFrame" /\ b.t = "low")
  THEN [s EXCEPT !.frame = Append(@, b), !.state = "Frame"]
  ELSE IF b.t = "CR"
  THEN [s EXCEPT !.state = "Text", !.line = <<>>,
                 !.replies = IF s.line = <<>> THEN @ ELSE Append(@, s.line[1].r)]
  ELSE [s EXCEPT !.state = "Text", !.line = Append(@, b)]

\* A line's text: one of the radio's replies, or nothing that is one.
Line(l) == IF Len(l) = 1 /\ l[1].t = "text" THEN l[1].r ELSE Reply("junk", 0, 0)

push(s, b) ==
  IF b.t = "FEND" /\ s.state = "Frame" /\ s.frame # <<>>
  THEN [s EXCEPT !.frames = Append(@, s.frame), !.frame = <<>>, !.state = "AfterFrame"]
  ELSE IF b.t = "FEND" THEN [s EXCEPT !.frame = <<>>, !.state = "Frame"]
  ELSE IF s.state = "AfterFrame" /\ b.t = "low" THEN [s EXCEPT !.frame = Append(@, b), !.state = "Frame"]
  ELSE IF s.state = "Frame"
  THEN IF Len(s.frame) < MAX_FRAME THEN [s EXCEPT !.frame = Append(@, b)]
       ELSE [s EXCEPT !.frame = <<>>, !.state = "Text"]
  ELSE IF b.t = "CR"
  THEN [s EXCEPT !.state = "Text", !.line = <<>>,
                 !.replies = IF s.line = <<>> THEN @ ELSE Append(@, Line(s.line))]
  ELSE [s EXCEPT !.state = "Text", !.line = Append(@, b)]

\* The frames the bridge's reader takes from a stream: what lies between two
\* FENDs; bytes before the first are skipped.
Drained(s) ==
  LET fends == SetToSortSeq({i \in DOMAIN s: s[i].t = "FEND"}, <)
      runs == [k \in 1..(Len(fends) - 1) |-> SubSeq(s, fends[k] + 1, fends[k + 1] - 1)]
  IN  SelectSeq(runs, LAMBDA r: r # <<>>)

\* What Prefixed hands out first: each frame between FENDs of its own.
Prefix(frames) == FoldLeft(LAMBDA s, f: s \o <<FEND>> \o f \o <<FEND>>, <<>>, frames)

-----------------------------------------------------------------------------
(* The radio: a TH-D75 as the tests fake it. *)

Odds == used.busy + used.late + used.cuts + (IF used.mid THEN 1 ELSE 0)
InKiss(r) == r.mode = 2 /\ ~r.elsewhere

\* What it does on a command outside KISS mode, and what it says.
Obey(r, c) ==
  IF c.c = "RETURN" THEN [r EXCEPT !.junk = TRUE]
  ELSE IF c.c = "SET" /\ ~r.junk THEN [r EXCEPT !.mode = c.m, !.band = c.b]
  ELSE [r EXCEPT !.junk = FALSE]
Says(r, c) ==
  IF c.c = "RETURN" THEN <<>>
  ELSE IF r.junk THEN Text(Ask("?"))
  ELSE IF c.c = "SET" THEN Text(Reply("TN", c.m, c.b))
  ELSE IF c.c = "TN" THEN Text(Reply("TN", r.mode, r.band))
  ELSE Text(Ask(c.c))

\* One message read by the radio: in KISS mode only KISS "return" counts.
Take(r, c) == IF ~InKiss(r) THEN Obey(r, c) ELSE IF c.c = "RETURN" THEN [r EXCEPT !.mode = 0] ELSE r

RadioReads ==
  /\ sink # <<>> /\ ~radio.dead
  /\ sink' = Tail(sink)
  /\ radio' = [Take(radio, Head(sink)) EXCEPT !.fend = FALSE]
  /\ wire' = wire \o IF InKiss(radio) THEN <<>> ELSE Says(radio, Head(sink))
  /\ UNCHANGED <<found, scan, step, out, used>>

\* The radio is busy: it drops the command and says "?".
RadioBusy ==
  /\ sink # <<>> /\ ~radio.dead /\ ~InKiss(radio) /\ Head(sink).c # "RETURN" /\ Odds < Odd
  /\ sink' = Tail(sink)
  /\ radio' = [radio EXCEPT !.fend = FALSE, !.junk = FALSE]
  /\ wire' = wire \o Text(Ask("?"))
  /\ used' = [used EXCEPT !.busy = @ + 1]
  /\ UNCHANGED <<found, scan, step, out>>

\* In KISS mode it passes on what it hears; two frames may share a FEND.
RadioHears ==
  /\ InKiss(radio) /\ ~radio.dead /\ used.heard < Heard
  /\ \E shared \in {radio.fend, FALSE}:
       wire' = wire \o (IF shared THEN <<>> ELSE <<FEND>>) \o Body(used.heard + 1) \o <<FEND>>
  /\ radio' = [radio EXCEPT !.fend = TRUE]
  /\ used' = [used EXCEPT !.heard = @ + 1]
  /\ UNCHANGED <<found, sink, scan, step, out>>

\* It stops answering, and may stop taking bytes too.
RadioDies ==
  /\ ~radio.dead /\ out = "running"
  /\ \E full \in BOOLEAN: radio' = [radio EXCEPT !.dead = TRUE, !.full = full]
  /\ UNCHANGED <<found, sink, wire, scan, step, out, used>>

-----------------------------------------------------------------------------
(* init: one command after the other. *)

NoStep == [cmd |-> KISS_RETURN, tries |-> 0, at |-> "start", kiss |-> FALSE, mode |-> 0, band |-> 0]

\* command_within: what is sent, and that the replies still queued are not
\* its reply.
Send(at, s, cmds) ==
  /\ ~radio.full
  /\ sink' = sink \o cmds
  /\ step' = [s EXCEPT !.cmd = cmds[Len(cmds)], !.tries = 0, !.at = at]
  /\ scan' = [scan EXCEPT !.replies = <<>>]
  /\ UNCHANGED out

Ends(how) == out' = how /\ step' = [step EXCEPT !.at = "done"] /\ UNCHANGED <<sink, scan>>

\* What the answer to TN says: mode and band, or neither.
parse_tn(o) == {r \in o: r.c = "TN"}

\* Variant with a defect: KISS mode is set on band A whatever TN said.
after_tn_a(o) ==
  LET known == parse_tn(o)
      m == IF step.kiss THEN 2 ELSE IF known = {} THEN 0 ELSE (CHOOSE r \in known: TRUE).m
  IN  Send("SET", [step EXCEPT !.mode = m], <<Reply("SET", 2, 0)>>)

after_tn(o) ==
  LET known == parse_tn(o)
      m == IF step.kiss THEN 2 ELSE IF known = {} THEN 0 ELSE (CHOOSE r \in known: TRUE).m
      b == IF known = {} THEN 0 ELSE (CHOOSE r \in known: TRUE).b
  IN  Send("SET", [step EXCEPT !.mode = m, !.band = b], <<Reply("SET", 2, b)>>)

after_set(o) == IF parse_tn(o) # {} THEN Send("CHECK", step, <<Ask("BT")>>) ELSE Ends("refused")

after_bt(o) ==
  IF o # {} THEN Send("ID", step, <<Ask("ID")>>)
  ELSE IF step.at = "BT2" THEN Ends("mute")
  ELSE Send("BT2", [step EXCEPT !.kiss = TRUE], <<KISS_RETURN, Ask("BT")>>)

\* init_th_d7x: what the reply (or none) to the command under way leads to.
Answered(o) ==
  CASE step.at \in {"BT", "BT2"} -> after_bt(o)
    [] step.at = "ID" -> Send("TN", step, <<Ask("TN")>>)
    [] step.at = "TN" -> after_tn(o)
    [] step.at = "SET" -> after_set(o)
    [] step.at = "CHECK" -> Ends(IF o = {} THEN "ok" ELSE "elsewhere")

Begin ==
  /\ step.at = "start" /\ out = "running"
  /\ \E m \in Models: IF m = "ThD7x" THEN Send("BT", step, <<Ask("BT")>>) ELSE Ends("generic")
  /\ UNCHANGED <<found, radio, wire, used>>

Waiting == step.at \notin {"start", "done"}

\* reply: read what is there, all of it or (over a slow link) some of it.
Read ==
  /\ Waiting /\ scan.replies = <<>> /\ wire # <<>>
  /\ \E n \in 1..Len(wire):
       /\ n < Len(wire) => Odds < Odd
       /\ used' = [used EXCEPT !.cuts = IF n < Len(wire) THEN @ + 1 ELSE @]
       /\ scan' = FoldLeft(push, scan, SubSeq(wire, 1, n))
       /\ wire' = SubSeq(wire, n + 1, Len(wire))
  /\ UNCHANGED <<found, radio, sink, step, out>>

\* The reply is in: "?" is asked again a few times.
Got ==
  /\ Waiting /\ scan.replies # <<>>
  /\ IF Head(scan.replies).c = "?" /\ step.tries < BUSY_RETRIES
     THEN /\ ~radio.full
          /\ sink' = Append(sink, step.cmd)
          /\ step' = [step EXCEPT !.tries = @ + 1]
          /\ scan' = [scan EXCEPT !.replies = <<>>]
          /\ UNCHANGED out
     ELSE Answered({Head(scan.replies)})
  /\ UNCHANGED <<found, radio, wire, used>>

\* A reply is on its way: the radio answers well within the wait.
Pending == (~radio.dead /\ sink # <<>>) \/ \E i \in DOMAIN wire: wire[i].t = "CR"

\* No reply within the wait for it.
Silence ==
  /\ Waiting /\ scan.replies = <<>>
  /\ Pending => Odds < Odd
  /\ used' = [used EXCEPT !.late = IF Pending THEN @ + 1 ELSE @]
  /\ Answered({})
  /\ UNCHANGED <<found, radio, wire>>

\* INIT_TIMEOUT: a TNC that stops answering or taking bytes fails the connect.
InitTimeout ==
  /\ out = "running" /\ radio.dead
  /\ Ends("timeout")
  /\ UNCHANGED <<found, radio, wire, used>>

\* The link ends under init: a read of nothing, or an error.
LinkEnds ==
  /\ Waiting /\ scan.replies = <<>>
  /\ Ends("closed")
  /\ UNCHANGED <<found, radio, wire, used>>

\* What takes the TNC back out of KISS mode: off, or APRS if it was in APRS.
exit_kiss == <<KISS_RETURN>> \o IF step.mode = 1 THEN <<Reply("SET", 1, step.band)>> ELSE <<>>

Init ==
  /\ found \in [mode: 0..2, band: 0..1, elsewhere: BOOLEAN]
  /\ radio = [mode |-> found.mode, band |-> found.band, elsewhere |-> found.elsewhere,
              junk |-> FALSE, fend |-> FALSE, dead |-> FALSE, full |-> FALSE]
  /\ sink = <<>>
  /\ wire \in {<<>>} \cup IF InKiss(radio) THEN {<<Byte("high", 0), FEND>>} ELSE {}
  /\ scan = NoScan /\ step = NoStep /\ out = "running"
  /\ used = [heard |-> 0, busy |-> 0, late |-> 0, cuts |-> 0, mid |-> wire # <<>>]

Next == RadioReads \/ RadioBusy \/ RadioHears \/ RadioDies \/ Begin \/ Read \/ Got \/ Silence \/ InitTimeout \/ LinkEnds

Spec == Init /\ [][Next]_vars

-----------------------------------------------------------------------------
\* Taking a TNC and letting it go leaves it as it was found: the exit sequence turns the TNC
\* off, or back to APRS on the band it was using.  A radio that is busy for longer than the
\* retries, or answers late, has not said what it was using.
LeftAsFound ==
  out = "ok" /\ ~radio.dead /\ used.late = 0 /\ used.busy <= BUSY_RETRIES =>
    LET after == FoldLeft(Take, radio, exit_kiss)
    IN  after.band = found.band /\ after.mode = IF found.mode = 1 THEN 1 ELSE 0

\* Init's last read ended inside the frame: after the FEND that opens it, before the one that closes it.
Inside(n) ==
  \/ scan.frame # <<>> /\ scan.frame[1].n = n
  \/ wire # <<>> /\ Head(wire).t \in {"low", "high"} /\ Head(wire).n = n

\* The frames that came in during init reach the bridge, whole, in order and once, ahead of
\* those that come after: those that the scanner took, which Prefixed puts back, and those that
\* it left on the link; and nothing else does.  A frame that init's last read ended inside of
\* is the exception: the scanner throws away what it has of it, and what is left of it, or
\* nothing, comes in its place.  A reply that comes late may be taken for a frame as well.
FramesKept ==
  out = "ok" =>
    LET heard == [n \in 1..used.heard |-> Body(n)]
        came == Drained(Prefix(scan.frames) \o wire)
        parts == UNION {{Body(n), Tail(Body(n))}: n \in {m \in 1..used.heard: Inside(m)}}
        late(f) == used.late > 0 /\ \E i \in DOMAIN f: f[i].t = "text"
    IN  /\ SelectSeq(came, LAMBDA f: f \notin parts /\ ~late(f)) = SelectSeq(heard, LAMBDA f: f \notin parts)
        /\ Cardinality({i \in DOMAIN came: came[i] \in parts}) <= 1
=============================================================================
