------------------------------- MODULE TcpServer -------------------------------
(***************************************************************************)
(* A tcp-server port (port/tcp_server.rs, port/listen.rs): it binds, waits *)
(* for its interface if it must, admits clients up to max_clients from the *)
(* allow list, and runs a task per session between the client's socket and *)
(* the bridge's queue of app events.                                       *)
(*                                                                         *)
(* A connection is a client's address with a number; its session is named  *)
(* by the address alone.  What the bridge does with the events is reduced  *)
(* to the sessions that it knows and the channel that it has for each.     *)
(***************************************************************************)
EXTENDS Naturals, Sequences, FiniteSets

CONSTANTS
  Conns,     \* the connections that clients make
  Peer,      \* the address of each: the session's name
  Lives,     \* the settings that a reload applies: max_clients (0: no limit) and the allow list
  AppQueue,  \* the bridge's queue of app events
  Frames,    \* how many frames a client sends, at most
  MaxEdits   \* how often the settings change

ASSUME TcpServerAssumption ==
  /\ IsFiniteSet(Conns) /\ \A c \in Conns : c \in DOMAIN Peer
  /\ Lives # {} /\ (\A l \in Lives : l.max \in Nat) /\ AppQueue \in Nat \ {0} /\ Frames \in Nat /\ MaxEdits \in Nat

VARIABLES
  port,    \* where the port's task is, and the state it shows
  stop,    \* its token
  live,    \* the settings in force
  count,   \* the atomic count of sessions
  sess,    \* for each connection: where its session's task is, the frame it holds
  sock,    \* for each connection: the client's side
  kicked,  \* the sessions whose token is cancelled
  queue,   \* app_tx
  known,   \* what the bridge knows: for each session's name, the connection whose channel it has
  hears,   \* the bridge takes app events
  edits

vars == <<port, stop, live, count, sess, sock, kicked, queue, known, hears, edits>>

Session(c, pcs) == sess[c].pc \in pcs
Counted(c) == Session(c, {"opening", "run", "frame", "write", "closing"})
Stopping(c) == stop \/ c \in kicked
Put(kind, c) == hears /\ Len(queue) < AppQueue /\ queue' = Append(queue, [kind |-> kind, c |-> c])

------------------------------------------------------------------------------
\* The port's task.

\* It binds; a missing interface is waited for, any other error is the end.
bind ==
  /\ port.pc = "bind"
  /\ \/ port' = [pc |-> "accept", state |-> "listening"]
     \/ port' = [pc |-> "retry", state |-> "waiting"]
     \/ port' = [pc |-> "over", state |-> "failed"]
  /\ UNCHANGED <<stop, live, count, sess, sock, kicked, queue, known, hears, edits>>

Retry ==
  /\ port.pc = "retry"
  /\ \/ port' = [port EXCEPT !.pc = "bind"]
     \/ stop /\ port' = [pc |-> "over", state |-> "stopped"]
  /\ UNCHANGED <<stop, live, count, sess, sock, kicked, queue, known, hears, edits>>

allowed(c) == live.allow = {} \/ Peer[c] \in live.allow

\* Variant with a defect: a client is counted where its session is known.
under_limit_known(c) == live.max = 0 \/ Cardinality(DOMAIN known) < live.max

under_limit(c) == live.max = 0 \/ count < live.max

\* A client is refused, or counted and given a session.
Accept(c) ==
  /\ port.pc = "accept" /\ sock[c] = "syn"
  /\ IF allowed(c) /\ under_limit(c)
     THEN /\ count' = count + 1 /\ sess' = [sess EXCEPT ![c].pc = "opening"]
          /\ sock' = [sock EXCEPT ![c] = "open"]
     ELSE sock' = [sock EXCEPT ![c] = "refused"] /\ UNCHANGED <<count, sess>>
  /\ UNCHANGED <<port, stop, live, kicked, queue, known, hears, edits>>

Stops ==
  /\ port.pc = "accept" /\ stop /\ port' = [pc |-> "over", state |-> "stopped"]
  /\ sock' = [c \in Conns |-> IF sock[c] = "syn" THEN "refused" ELSE sock[c]]
  /\ UNCHANGED <<stop, live, count, sess, kicked, queue, known, hears, edits>>

------------------------------------------------------------------------------
\* A session's task.

Step(c, pc) == sess' = [sess EXCEPT ![c].pc = pc]

\* The bridge is told of the session; one that has ended isn't there to be told.
Opened(c) ==
  /\ Session(c, {"opening"})
  /\ \/ Put("opened", c) /\ Step(c, "run") /\ UNCHANGED <<sock, count>>
     \/ /\ ~hears /\ Step(c, "gone") /\ sock' = [sock EXCEPT ![c] = "closed"]
        /\ count' = count - 1 /\ UNCHANGED queue
  /\ UNCHANGED <<port, stop, live, kicked, known, hears, edits>>

\* read_frame gives a frame, or the client is gone.
ReadFrame(c) ==
  /\ Session(c, {"run"})
  /\ \/ sock[c] = "open" /\ sess[c].frames < Frames /\ sess' = [sess EXCEPT ![c] = [pc |-> "frame", frames |-> @.frames + 1]]
     \/ sock[c] \in {"reset", "closed"} /\ Step(c, "closing")
  /\ UNCHANGED <<port, stop, live, count, sock, kicked, queue, known, hears, edits>>

\* The frame goes to the bridge, when there is room; nothing else is looked at meanwhile.
FrameSent(c) ==
  /\ Session(c, {"frame"})
  /\ \/ Put("frame", c) /\ Step(c, "run")
     \/ ~hears /\ Step(c, "closing") /\ UNCHANGED queue
  /\ UNCHANGED <<port, stop, live, count, sock, kicked, known, hears, edits>>

\* A frame of the bridge for this session is to be written.
WriteFrame(c) ==
  /\ Session(c, {"run"}) /\ Peer[c] \in DOMAIN known /\ known[Peer[c]] = c /\ Step(c, "write")
  /\ UNCHANGED <<port, stop, live, count, sock, kicked, queue, known, hears, edits>>

\* It is, if the client makes room; nothing else is looked at meanwhile, and nothing bounds the wait.
Written(c) ==
  /\ Session(c, {"write"})
  /\ \/ sock[c] = "open" /\ Step(c, "run")
     \/ sock[c] \in {"reset", "closed"} /\ Step(c, "closing")
  /\ UNCHANGED <<port, stop, live, count, sock, kicked, queue, known, hears, edits>>

\* Variant with a defect: a port that stops leaves its sessions.
Kicked_only(c) ==
  /\ Session(c, {"run"}) /\ c \in kicked /\ Step(c, "closing")
  /\ UNCHANGED <<port, stop, live, count, sock, kicked, queue, known, hears, edits>>

\* The token is seen between frames.
Kicked(c) ==
  /\ Session(c, {"run"}) /\ Stopping(c) /\ Step(c, "closing")
  /\ UNCHANGED <<port, stop, live, count, sock, kicked, queue, known, hears, edits>>

\* The socket is shut down, and the session isn't counted any more.
Shut(c) ==
  /\ Session(c, {"closing"}) /\ Step(c, "tell") /\ count' = count - 1
  /\ sock' = [sock EXCEPT ![c] = IF @ = "reset" THEN @ ELSE "closed"]
  /\ UNCHANGED <<port, stop, live, kicked, queue, known, hears, edits>>

\* Variant with a defect: the end of a session is told only if there is room.
Told_try(c) ==
  /\ Session(c, {"tell"}) /\ Step(c, "gone")
  /\ IF hears /\ Len(queue) < AppQueue THEN queue' = Append(queue, [kind |-> "closed", c |-> c]) ELSE UNCHANGED queue
  /\ UNCHANGED <<port, stop, live, count, sock, kicked, known, hears, edits>>

\* Then the bridge is told.
Told(c) ==
  /\ Session(c, {"tell"}) /\ Step(c, "gone")
  /\ Put("closed", c) \/ (~hears /\ UNCHANGED queue)
  /\ UNCHANGED <<port, stop, live, count, sock, kicked, known, hears, edits>>

------------------------------------------------------------------------------
\* The bridge, the daemon and the clients.

\* The bridge handles an app event: it knows sessions by their names.
BridgeTakes ==
  /\ hears /\ queue # <<>> /\ queue' = Tail(queue)
  /\ LET e == Head(queue)
         names == DOMAIN known
     IN  known' = CASE e.kind = "opened" -> [p \in names \cup {Peer[e.c]} |-> IF p = Peer[e.c] THEN e.c ELSE known[p]]
                    [] e.kind = "closed" -> [p \in names \ {Peer[e.c]} |-> known[p]]
                    [] OTHER -> known
  /\ UNCHANGED <<port, stop, live, count, sess, sock, kicked, hears, edits>>

\* A kick cancels the token of a session that the bridge knows.
Kick(c) ==
  /\ hears /\ c \notin kicked /\ \E p \in DOMAIN known : known[p] = c
  /\ kicked' = kicked \cup {c}
  /\ UNCHANGED <<port, stop, live, count, sess, sock, queue, known, hears, edits>>

BridgeEnds ==
  /\ hears /\ hears' = FALSE /\ queue' = <<>> /\ known' = <<>>
  /\ UNCHANGED <<port, stop, live, count, sess, sock, kicked, edits>>

StopPort == ~stop /\ stop' = TRUE /\ UNCHANGED <<port, live, count, sess, sock, kicked, queue, known, hears, edits>>

\* The settings that change without closing the listener.
Edit(l) ==
  /\ edits < MaxEdits /\ l # live /\ live' = l /\ edits' = edits + 1
  /\ UNCHANGED <<port, stop, count, sess, sock, kicked, queue, known, hears>>

\* A client connects: from an address whose earlier connection has ended on its side.
Connect(c) ==
  /\ sock[c] = "new" /\ port.pc = "accept"
  /\ \A d \in Conns : Peer[d] = Peer[c] => sock[d] \in {"new", "reset", "closed", "refused"}
  /\ sock' = [sock EXCEPT ![c] = "syn"]
  /\ UNCHANGED <<port, stop, live, count, sess, kicked, queue, known, hears, edits>>

Leave(c) ==
  /\ sock[c] = "open" /\ sock' = [sock EXCEPT ![c] = "reset"]
  /\ UNCHANGED <<port, stop, live, count, sess, kicked, queue, known, hears, edits>>

Init ==
  /\ port = [pc |-> "bind", state |-> "starting"] /\ stop = FALSE /\ live \in Lives /\ count = 0
  /\ sess = [c \in Conns |-> [pc |-> "none", frames |-> 0]] /\ sock = [c \in Conns |-> "new"]
  /\ kicked = {} /\ queue = <<>> /\ known = <<>> /\ hears = TRUE /\ edits = 0

Next ==
  \/ bind \/ Retry \/ Stops \/ BridgeTakes \/ BridgeEnds \/ StopPort
  \/ \E l \in Lives : Edit(l)
  \/ \E c \in Conns :
       \/ Accept(c) \/ Opened(c) \/ ReadFrame(c) \/ FrameSent(c) \/ WriteFrame(c) \/ Written(c)
       \/ Kicked(c) \/ Shut(c) \/ Told(c) \/ Kick(c) \/ Connect(c) \/ Leave(c)

Spec == Init /\ [][Next]_vars

\* Tasks go on, and the bridge takes its events.  A write to a client that is there is not one of
\* these steps: the client may stop reading.  A select that can take the token takes it in the
\* end, since it picks among what is ready at random.
PortStep == bind \/ (port.pc = "retry" /\ stop /\ Retry) \/ Stops
WriteFails(c) == sock[c] # "open" /\ Written(c)
SessionStep(c) == Opened(c) \/ FrameSent(c) \/ WriteFails(c) \/ Shut(c) \/ Told(c)
SocketOver(c) == sock[c] # "open" /\ ReadFrame(c)

LiveSpec ==
  /\ Spec /\ WF_vars(PortStep) /\ WF_vars(BridgeTakes)
  /\ \A c \in Conns : WF_vars(SessionStep(c)) /\ SF_vars(Kicked(c)) /\ SF_vars(SocketOver(c))

------------------------------------------------------------------------------

\* The atomic count is the number of sessions that hold a place, on every way out of a
\* session: one that leaked would make the port refuse clients for ever.
CountExact == count = Cardinality({c \in Conns : Counted(c)})

\* A client is admitted only while fewer than max_clients sessions run, also those that
\* the bridge hasn't heard of yet.
NeverOverMax ==
  [][\A c \in Conns : sess[c].pc = "none" /\ sess'[c].pc = "opening" =>
       live.max = 0 \/ Cardinality({d \in Conns : Counted(d)'}) <= live.max]_vars

\* The bridge doesn't keep a session whose client is gone: with the queue taken, it knows
\* only sessions that run, as long as no two connections have one name.
NoGhosts ==
  (\A c, d \in Conns : Peer[c] = Peer[d] => c = d) =>
    (hears /\ queue = <<>> => \A p \in DOMAIN known : ~Session(known[p], {"none", "opening", "gone"}))

\* The session's task still runs.
Runs(c) == Session(c, {"run", "frame", "write", "closing", "tell"})

\* The task waits for a client that stays and reads no more.
Stuck(c) == Session(c, {"write"}) /\ sock[c] = "open"

\* A session that was told to the bridge ends when its client leaves, the port stops or it is
\* kicked, and the bridge hears of it, however full its queue is.  What can keep it is one thing:
\* a frame written to a client that stays and never reads again.
SessionsEnd ==
  \A c \in Conns : []<>(sock[c] = "reset" \/ stop \/ c \in kicked => ~Runs(c)) \/ <>[]Stuck(c)

\* "Cancelling it makes the port drop the session (a `kick`, or a reload that tightens `allow`
\* or lowers `max_clients`)": a session whose token is cancelled ends.
KickDropsSession == \A c \in Conns : c \in kicked ~> ~Runs(c)
================================================================================
