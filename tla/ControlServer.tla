---------------------------- MODULE ControlServer ----------------------------
(***************************************************************************)
(* One connection of the control socket (control/server.rs), from its      *)
(* client (ctl/client.rs) to the daemon's loop and back: a reader that     *)
(* hands commands to the daemon in order, a task per command that waits    *)
(* for its answer, a task that forwards the events of a topic, and one     *)
(* writer that all of them reach through a bounded outbox.                 *)
(*                                                                         *)
(* A line to the client is a response, an event or a report of lost ones;  *)
(* n is the request's id, the event's number or how many were lost.        *)
(***************************************************************************)
EXTENDS Naturals, Sequences, FiniteSets, SequencesExt, FiniteSetsExt

CONSTANTS
  Plans,        \* what a client sends of "cmd", "long", "subscribe", "blank", "bad" and "toolong",
                \* how many lines, and how many events there are
  Outbox,       \* OUTBOX, 256 in the code
  Commands,     \* commands queued for the daemon
  Backlog,      \* BACKLOG of the hub, 256 in the code
  Wire          \* lines in the socket's buffer

VARIABLES
  client,   \* its plan, what it sent, what the server hasn't read of it, what it got, whether it closed
  rd,       \* the reader: where it is, and the line that it handles
  wr,       \* the writer: where it is, and the line that it writes
  done,     \* the connection's token
  outbox, wire,
  cmds,     \* the commands on their way to the daemon's loop
  answers,  \* for each command: "waiting", "running", "ready", "refused", "sent" or "lost"
  log,      \* the topic's events since it was subscribed to
  fwd,      \* the forwarder: whether it runs, the next event, and how many it dropped
  down      \* the daemon shuts down

Kinds == UNION {plan.kinds : plan \in Plans}
MaxRequests == Max({plan.requests : plan \in Plans})

vars == <<client, rd, wr, done, outbox, wire, cmds, answers, log, fwd, down>>

Line(kind, n) == [kind |-> kind, n |-> n]
None == Line("none", 0)
Closed == wr.pc = "over"
Room == Len(outbox) < Outbox

------------------------------------------------------------------------------
\* The client.

\* send(): ids count up.
Send(kind) ==
  /\ ~client.half /\ ~client.closed /\ kind \in client.plan.kinds /\ Len(client.sent) < client.plan.requests
  /\ LET line == Line(kind, Len(client.sent) + 1)
     IN  client' = [client EXCEPT !.sent = Append(@, line), !.unread = Append(@, line)]
  /\ UNCHANGED <<rd, wr, done, outbox, wire, cmds, answers, log, fwd, down>>

\* next_message().
Receive ==
  /\ wire # <<>> /\ ~client.closed
  /\ client' = [client EXCEPT !.got = Append(@, Head(wire))] /\ wire' = Tail(wire)
  /\ UNCHANGED <<rd, wr, done, outbox, cmds, answers, log, fwd, down>>

HalfClose ==
  /\ ~client.half /\ client' = [client EXCEPT !.half = TRUE]
  /\ UNCHANGED <<rd, wr, done, outbox, wire, cmds, answers, log, fwd, down>>

Close ==
  /\ ~client.closed /\ client' = [client EXCEPT !.closed = TRUE]
  /\ UNCHANGED <<rd, wr, done, outbox, wire, cmds, answers, log, fwd, down>>

------------------------------------------------------------------------------
\* The reader.

\* The first subscription to a topic starts its forwarder.
subscribe == IF fwd.subscribed THEN fwd ELSE [fwd EXCEPT !.on = TRUE, !.subscribed = TRUE, !.next = Len(log) + 1]

\* What becomes of a line: a blank one is skipped, a command goes to the daemon, a
\* subscription is answered here, and so is what isn't a request, with an error.
parse(kind) ==
  CASE kind = "blank" -> "read" [] kind \in {"cmd", "long"} -> "hand" [] kind = "toolong" -> "last" [] OTHER -> "answer"

ReadLine ==
  /\ rd.pc = "read" /\ client.unread # <<>> /\ ~client.closed
  /\ LET line == Head(client.unread)
     IN  /\ rd' = [pc |-> parse(line.kind), line |-> IF line.kind = "blank" THEN None ELSE line]
         /\ fwd' = IF line.kind = "subscribe" THEN subscribe ELSE fwd
  /\ client' = [client EXCEPT !.unread = Tail(@)]
  /\ UNCHANGED <<wr, done, outbox, wire, cmds, answers, log, down>>

Answers(n, how) == [i \in DOMAIN answers \cup {n} |-> IF i = n THEN how ELSE answers[i]]

\* The command is handed over, as soon as there is room; a task waits for its answer.
Hand ==
  /\ rd.pc = "hand" /\ rd' = [pc |-> "read", line |-> None]
  /\ \/ /\ ~down /\ Len(cmds) < Commands /\ cmds' = Append(cmds, rd.line)
        /\ answers' = Answers(rd.line.n, "waiting")
     \/ down /\ answers' = Answers(rd.line.n, "refused") /\ UNCHANGED cmds
  /\ UNCHANGED <<client, wr, done, outbox, wire, log, fwd, down>>

\* The reader's own answer goes to the outbox; with the writer gone, the reader ends.
Answer ==
  /\ rd.pc \in {"answer", "last"}
  /\ \/ /\ ~Closed /\ Room /\ outbox' = Append(outbox, Line("response", rd.line.n))
        /\ rd' = [pc |-> IF rd.pc = "last" THEN "wait" ELSE "read", line |-> None]
        /\ done' = (done \/ rd.pc = "last")
     \/ Closed /\ rd' = [pc |-> "wait", line |-> None] /\ done' = TRUE /\ UNCHANGED outbox
  /\ UNCHANGED <<client, wr, wire, cmds, answers, log, fwd, down>>

\* The end of what the client sends, or the token.
ReadEnds ==
  /\ rd.pc = "read" /\ (done \/ client.closed \/ (client.half /\ client.unread = <<>>))
  /\ rd' = [pc |-> "wait", line |-> None] /\ done' = TRUE
  /\ UNCHANGED <<client, wr, outbox, wire, cmds, answers, log, fwd, down>>

\* The connection waits for its writer.
Over ==
  /\ rd.pc = "wait" /\ Closed /\ rd' = [pc |-> "over", line |-> None]
  /\ UNCHANGED <<client, wr, done, outbox, wire, cmds, answers, log, fwd, down>>

------------------------------------------------------------------------------
\* The writer.

WriteNext ==
  /\ wr.pc = "recv" /\ outbox # <<>>
  /\ wr' = [pc |-> "write", line |-> Head(outbox)] /\ outbox' = Tail(outbox)
  /\ UNCHANGED <<client, rd, done, wire, cmds, answers, log, fwd, down>>

WriterStops ==
  /\ wr.pc = "recv" /\ done
  /\ wr' = [pc |-> "over", line |-> None] /\ outbox' = <<>>
  /\ UNCHANGED <<client, rd, done, wire, cmds, answers, log, fwd, down>>

\* A line is written once the socket takes it; an error ends the connection.
Write ==
  /\ wr.pc = "write"
  /\ \/ /\ ~client.closed /\ Len(wire) < Wire /\ wire' = Append(wire, wr.line)
        /\ wr' = [pc |-> "recv", line |-> None] /\ UNCHANGED <<done, outbox>>
     \/ /\ client.closed /\ wr' = [pc |-> "over", line |-> None] /\ done' = TRUE
        /\ outbox' = <<>> /\ UNCHANGED wire
  /\ UNCHANGED <<client, rd, cmds, answers, log, fwd, down>>

------------------------------------------------------------------------------
\* The daemon's loop, and the tasks that wait for it.

\* A command is handled; a scan or a pairing goes on in a task of its own.
Handle ==
  /\ ~down /\ cmds # <<>> /\ cmds' = Tail(cmds)
  /\ answers' = Answers(Head(cmds).n, IF Head(cmds).kind = "cmd" THEN "ready" ELSE "running")
  /\ UNCHANGED <<client, rd, wr, done, outbox, wire, log, fwd, down>>

LongDone(n) ==
  /\ answers[n] = "running" /\ answers' = Answers(n, "ready")
  /\ UNCHANGED <<client, rd, wr, done, outbox, wire, cmds, log, fwd, down>>

\* Variant with a defect: an answer that finds the outbox full is dropped.
Respond_try(n) ==
  /\ answers[n] \in {"ready", "refused"}
  /\ IF ~Closed /\ Room
     THEN outbox' = Append(outbox, Line("response", n)) /\ answers' = Answers(n, "sent")
     ELSE answers' = Answers(n, "lost") /\ UNCHANGED outbox
  /\ UNCHANGED <<client, rd, wr, done, wire, cmds, log, fwd, down>>

\* The answer, or that the daemon is shutting down, waits for room in the outbox.
Respond(n) ==
  /\ answers[n] \in {"ready", "refused"}
  /\ \/ ~Closed /\ Room /\ outbox' = Append(outbox, Line("response", n)) /\ answers' = Answers(n, "sent")
     \/ Closed /\ answers' = Answers(n, "lost") /\ UNCHANGED outbox
  /\ UNCHANGED <<client, rd, wr, done, wire, cmds, log, fwd, down>>

\* The daemon stops: the token is cancelled, and commands that it holds are dropped.
Shutdown ==
  /\ ~down /\ down' = TRUE /\ done' = TRUE /\ cmds' = <<>>
  /\ answers' = [n \in DOMAIN answers |-> IF answers[n] \in {"waiting", "running"} THEN "refused" ELSE answers[n]]
  /\ UNCHANGED <<client, rd, wr, outbox, wire, log, fwd>>

------------------------------------------------------------------------------
\* The hub, and the forwarder of its topic.

\* Hub::state: an event is sent when somebody subscribes.
Publish ==
  /\ fwd.on /\ Len(log) < client.plan.events /\ log' = Append(log, Len(log) + 1)
  /\ UNCHANGED <<client, rd, wr, done, outbox, wire, cmds, answers, fwd, down>>

\* The oldest event that the hub still holds.
Oldest == IF Len(log) > Backlog THEN Len(log) - Backlog + 1 ELSE 1

\* Variant with a defect: a receiver that fell behind goes on with the newest event.
recv_newest ==
  IF fwd.next < Oldest
  THEN [line |-> Line("lagged", Oldest - fwd.next), next |-> Len(log), count |-> Oldest - fwd.next]
  ELSE [line |-> Line("event", fwd.next), next |-> fwd.next + 1, count |-> 1]

\* What the receiver gets: the next event, or how many it missed.
recv ==
  IF fwd.next < Oldest
  THEN [line |-> Line("lagged", Oldest - fwd.next), next |-> Oldest, count |-> Oldest - fwd.next]
  ELSE [line |-> Line("event", fwd.next), next |-> fwd.next + 1, count |-> 1]

\* A full outbox loses what is forwarded; a closed one ends the forwarder.
forward ==
  /\ fwd.on /\ fwd.next <= Len(log)
  /\ \/ ~Closed /\ Room /\ outbox' = Append(outbox, recv.line) /\ fwd' = [fwd EXCEPT !.next = recv.next]
     \/ /\ ~Closed /\ ~Room /\ UNCHANGED outbox
        /\ fwd' = [fwd EXCEPT !.next = recv.next, !.dropped = @ + recv.count]
     \/ Closed /\ fwd' = [fwd EXCEPT !.on = FALSE] /\ UNCHANGED outbox
  /\ UNCHANGED <<client, rd, wr, done, wire, cmds, answers, log, down>>

ForwardEnds ==
  /\ fwd.on /\ done /\ fwd' = [fwd EXCEPT !.on = FALSE]
  /\ UNCHANGED <<client, rd, wr, done, outbox, wire, cmds, answers, log, down>>

------------------------------------------------------------------------------
Init ==
  /\ \E plan \in Plans : client = [plan |-> plan, sent |-> <<>>, unread |-> <<>>, got |-> <<>>, half |-> FALSE, closed |-> FALSE]
  /\ rd = [pc |-> "read", line |-> None] /\ wr = [pc |-> "recv", line |-> None] /\ done = FALSE
  /\ outbox = <<>> /\ wire = <<>> /\ cmds = <<>> /\ answers = <<>> /\ log = <<>>
  /\ fwd = [on |-> FALSE, subscribed |-> FALSE, next |-> 1, dropped |-> 0] /\ down = FALSE

Next ==
  \/ \E kind \in Kinds : Send(kind)
  \/ Receive \/ HalfClose \/ Close \/ Shutdown
  \/ ReadLine \/ Hand \/ Answer \/ ReadEnds \/ Over \/ WriteNext \/ WriterStops \/ Write
  \/ Handle \/ Publish \/ forward \/ ForwardEnds
  \/ \E n \in DOMAIN answers : LongDone(n) \/ Respond(n)

Spec == Init /\ [][Next]_vars

\* Tasks and the daemon's loop go on, a scan or a pairing ends, and the client reads.
\* Senders that wait for room in the outbox get it in turn, so that a task waiting with
\* its answer is not passed over for ever.
Reader == ReadLine \/ Hand \/ Answer \/ ReadEnds \/ Over
Writer == WriteNext \/ WriterStops \/ Write
Forwarder == forward \/ ForwardEnds
Answering(n) == n \in DOMAIN answers /\ (LongDone(n) \/ Respond(n))

Fair ==
  /\ WF_vars(Receive) /\ WF_vars(Handle) /\ WF_vars(Reader) /\ WF_vars(Writer) /\ WF_vars(Forwarder)
  /\ \A n \in 1..MaxRequests : WF_vars(Answering(n))

LiveSpec == Spec /\ Fair

------------------------------------------------------------------------------
\* What was and will be sent to the client, in order.
Lines == client.got \o wire \o (IF wr.pc = "write" THEN <<wr.line>> ELSE <<>>) \o outbox

\* An event comes once, in order, and a report of lost ones stands exactly where they are
\* missing: with nothing dropped at a full outbox, the lines account for every event.
EventsAccounted ==
  LET seen == SelectSeq(Lines, LAMBDA l : l.kind \in {"event", "lagged"})
      upto(i) == FoldLeft(LAMBDA sum, l : sum + (IF l.kind = "event" THEN 1 ELSE l.n), 0, SubSeq(seen, 1, i))
  IN  ~Closed /\ fwd.dropped = 0 =>
        /\ upto(Len(seen)) = fwd.next - 1
        /\ \A i \in DOMAIN seen : seen[i].kind = "event" => upto(i) = seen[i].n

\* A request of a client that reads and keeps its end of the connection open is answered,
\* even one that waits for a scan, and behind a full outbox.  A half-closed connection, the
\* end of the daemon and a line that is too long end the connection with answers still out.
AnsweredById ==
  \A n \in 1..MaxRequests :
    []<>(Len(client.sent) >= n /\ client.sent[n].kind # "blank" =>
           \/ client.half \/ client.closed \/ down \/ \E i \in DOMAIN client.sent : client.sent[i].kind = "toolong"
           \/ \E i \in DOMAIN client.got : client.got[i] = Line("response", n))

=============================================================================
