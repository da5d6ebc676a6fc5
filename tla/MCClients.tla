------------------------------ MODULE MCClients ------------------------------
(***************************************************************************)
(* The daemon and those that come to it, for TLC: a BLE port with its      *)
(* phones, scanning and pairing, a connection of the control API, the      *)
(* activity that is reported to it, and what the TUI has under way and     *)
(* shows (a scan and pairing, the status list).  They share no state here, *)
(* and each property is about one of them: one of them runs in a           *)
(* behaviour, and the others rest where they started.                      *)
(***************************************************************************)
EXTENDS Naturals, Sequences, FiniteSets, TLC

VARIABLES
  active,   \* the component that takes steps
  s_pc, s_port, s_opening, s_file, s_evq, s_tasks, s_watchers, s_asks, s_link, s_dropping, s_told,
  s_stranded, s_unlisted, s_deaf, s_used, p_task, p_lock, p_pairings, p_scans, p_person, p_answer,
  p_loop, p_open, p_bluez, p_used, c_client, c_rd, c_wr, c_done, c_outbox, c_wire, c_cmds, c_answers,
  c_log, c_fwd, c_down, y_raw, y_slots, y_due, y_wanted, y_counted, y_lost, y_told, x_scan, x_pairing,
  x_conn, x_pending, x_next, x_up, x_down, x_tasks, x_used, t_real, t_conn, t_up, t_down, t_evs, t_st,
  t_shown, t_sel, t_at, t_folds, t_since, t_fresh, t_used

\* A BLE port: its phones and limit, sessions a phone may begin, links it may make, odd events
\* (a late report, a kill, a failure of BlueZ), and devices that BlueZ forgets.
Phone(phones, max, sessions, links, odd, forgets) ==
  [phones |-> phones, max |-> max, sessions |-> sessions, links |-> links, odd |-> odd, forgets |-> forgets]
ServerBounds ==
  {Phone({"a"}, 2, 1, 2, 1, 1), Phone({"a", "b"}, 1, 2, 2, 0, 0), Phone({"a"}, 1, 2, 1, 1, 0),
   Phone({"a"}, 1, 2, 2, 0, 1)}

\* Pairing: who asks for what, and how much of it the person and BlueZ see.
Asked(rs, asks, replies, news) == [requests |-> rs, asks |-> asks, replies |-> replies, news |-> news]
PairBounds == {Asked({"s1", "p1", "p2"}, 0, 0, 0), Asked({"p1"}, 2, 3, 0), Asked({"s1", "p1"}, 0, 0, 2),
               Asked({"s1", "p1"}, 1, 2, 0)}

\* The control API: a client that sends lines of every kind, or one that subscribes.
Sends == [kinds |-> {"cmd", "long", "blank", "bad", "toolong"}, requests |-> 2, events |-> 0]
Subscribes == [kinds |-> {"subscribe"}, requests |-> 1, events |-> 3]

\* The status list: changes under keys, with a lost connection, and with a bridge added.
StatusBounds ==
  {[changes |-> 2, adds |-> 0, losses |-> 0, keys |-> 2, frames |-> 0],
   [changes |-> 2, adds |-> 0, losses |-> 1, keys |-> 0, frames |-> 2],
   [changes |-> 1, adds |-> 1, losses |-> 0, keys |-> 1, frames |-> 0]}

Srv == INSTANCE BleServer WITH
  Phones <- {"a", "b"}, Limits <- {1, 2}, EventQueue <- 1, Bounds <- ServerBounds, pc <- s_pc,
  port <- s_port, opening <- s_opening, file <- s_file, evq <- s_evq, tasks <- s_tasks,
  watchers <- s_watchers, asks <- s_asks, link <- s_link, dropping <- s_dropping, told <- s_told,
  stranded <- s_stranded, unlisted <- s_unlisted, deaf <- s_deaf, used <- s_used

Pair == INSTANCE Pairing WITH
  Scans <- {"s1"}, Pairs <- {"p1", "p2"}, Device <- [p \in {"p1", "p2"} |-> "radio"], Devices <- {"radio"},
  StepQueue <- 1, ReplyQueue <- 1, Bounds <- PairBounds, task <- p_task, lock <- p_lock,
  pairings <- p_pairings, scans <- p_scans, person <- p_person, answer <- p_answer, loop <- p_loop,
  open <- p_open, bluez <- p_bluez, used <- p_used

Ctl == INSTANCE ControlServer WITH
  Plans <- {Sends, Subscribes}, Outbox <- 1, Commands <- 2, Backlog <- 2, Wire <- 1, client <- c_client,
  rd <- c_rd, wr <- c_wr, done <- c_done, outbox <- c_outbox, wire <- c_wire, cmds <- c_cmds,
  answers <- c_answers, log <- c_log, fwd <- c_fwd, down <- c_down

Act == INSTANCE Activity WITH
  Objects <- {"a", "b"}, Raw <- 2, Interval <- 2, Quiet <- 4, MaxCounts <- 3, raw <- y_raw,
  slots <- y_slots, due <- y_due, wanted <- y_wanted, counted <- y_counted, lost <- y_lost, told <- y_told

Scan == INSTANCE TuiScan WITH
  Devices <- {1}, Wanted <- 1, MaxScans <- 2, MaxAsks <- 2, MaxConns <- 2, MaxHandOffs <- 1,
  MaxLosses <- 1, MaxStops <- 1, MaxEscs <- 1, scan <- x_scan, pairing <- x_pairing, conn <- x_conn,
  pending <- x_pending, next <- x_next, up <- x_up, down <- x_down, tasks <- x_tasks, used <- x_used

Status == INSTANCE TuiStatus WITH
  Ids <- {1, 2}, Sessions <- {1, 2}, EventQueue <- 2, Bounds <- StatusBounds, real <- t_real,
  conn <- t_conn, up <- t_up, down <- t_down, evs <- t_evs, st <- t_st, shown <- t_shown, sel <- t_sel,
  at <- t_at, folds <- t_folds, since <- t_since, fresh <- t_fresh, used <- t_used

srv_vars == <<s_pc, s_port, s_opening, s_file, s_evq, s_tasks, s_watchers, s_asks, s_link, s_dropping,
  s_told, s_stranded, s_unlisted, s_deaf, s_used>>
pair_vars == <<p_task, p_lock, p_pairings, p_scans, p_person, p_answer, p_loop, p_open, p_bluez, p_used>>
ctl_vars == <<c_client, c_rd, c_wr, c_done, c_outbox, c_wire, c_cmds, c_answers, c_log, c_fwd, c_down>>
act_vars == <<y_raw, y_slots, y_due, y_wanted, y_counted, y_lost, y_told>>
scan_vars == <<x_scan, x_pairing, x_conn, x_pending, x_next, x_up, x_down, x_tasks, x_used>>
status_vars == <<t_real, t_conn, t_up, t_down, t_evs, t_st, t_shown, t_sel, t_at, t_folds, t_since,
  t_fresh, t_used>>
all == <<active, srv_vars, pair_vars, ctl_vars, act_vars, scan_vars, status_vars>>

------------------------------------------------------------------------------
\* A step of one component, while the others rest.
AsSrv(A) == active = "phones" /\ A /\ UNCHANGED <<active, pair_vars, ctl_vars, act_vars, scan_vars, status_vars>>
AsPair(A) == active = "pairing" /\ A /\ UNCHANGED <<active, srv_vars, ctl_vars, act_vars, scan_vars, status_vars>>
AsCtl(A) == active = "control" /\ A /\ UNCHANGED <<active, srv_vars, pair_vars, act_vars, scan_vars, status_vars>>
AsAct(A) == active = "activity" /\ A /\ UNCHANGED <<active, srv_vars, pair_vars, ctl_vars, scan_vars, status_vars>>
AsScan(A) == active = "scan" /\ A /\ UNCHANGED <<active, srv_vars, pair_vars, ctl_vars, act_vars, status_vars>>
AsStatus(A) == active = "status" /\ A /\ UNCHANGED <<active, srv_vars, pair_vars, ctl_vars, act_vars, scan_vars>>

\* One component starts as it may; where the others rest does not matter.
MCInit ==
  /\ active \in {"phones", "pairing", "control", "activity", "scan", "status"}
  /\ Srv!Init /\ (active # "phones" => s_used.bound.max = 2)
  /\ Pair!Init /\ (active # "pairing" => p_used.bound.asks = 2)
  /\ Ctl!Init /\ (active # "control" => c_client.plan = Sends)
  /\ Act!Init
  /\ Scan!Init
  /\ Status!Init /\ (active # "status" => t_real[1].id = 1 /\ t_used.bound.adds = 1)

MCNext ==
  \/ AsSrv(Srv!Next)
  \/ AsPair(Pair!Next)
  \/ AsCtl(Ctl!Next)
  \/ AsAct(Act!Next)
  \/ AsScan(Scan!Next)
  \/ AsStatus(Status!Next)

\* The fairness of each component's own specification.  Only the active one has steps, so that
\* fairness for one step of each at a time is fairness for all of them.
Fair1 ==
  \/ AsSrv(Srv!TakeEvent)
  \/ AsPair(Pair!PairReplySent)
  \/ AsCtl(Ctl!Receive)
  \/ AsScan(Scan!Open)
  \/ AsStatus(Status!Open)
Fair2 ==
  \/ AsSrv(Srv!Opened)
  \/ AsPair(Pair!GoesOn("s1"))
  \/ AsCtl(Ctl!Handle)
  \/ AsScan(Scan!Reads)
  \/ AsStatus(Status!on_event)
Fair3 ==
  \/ AsSrv(Srv!Refresh)
  \/ AsPair(Pair!GoesOn("p1"))
  \/ AsCtl(Ctl!Reader)
  \/ AsScan(Scan!Daemon)
  \/ AsStatus(Status!answered)
Fair4 ==
  \/ AsSrv(Srv!TasksGo)
  \/ AsPair(Pair!GoesOn("p2"))
  \/ AsCtl(Ctl!Writer)
  \/ AsStatus(Status!Handle)
Fair5 ==
  \/ AsSrv(Srv!Start)
  \/ AsCtl(Ctl!Forwarder)
Fair6 ==
  \/ AsSrv(Srv!WatcherChecks("a"))
  \/ AsCtl(Ctl!Answering(1))
Fair7 ==
  \/ AsSrv(Srv!WatcherChecks("b"))
  \/ AsCtl(Ctl!Answering(2))
Fair8 ==
  \/ AsSrv(Srv!Dropped("a"))
Fair9 ==
  \/ AsSrv(Srv!Dropped("b"))

MCSpec ==
  /\ MCInit /\ [][MCNext]_all
  /\ WF_all(Fair1) /\ WF_all(Fair2) /\ WF_all(Fair3) /\ WF_all(Fair4) /\ WF_all(Fair5) /\ WF_all(Fair6)
  /\ WF_all(Fair7) /\ WF_all(Fair8) /\ WF_all(Fair9)

------------------------------------------------------------------------------
\* BleServer.

\* Whatever reports come late, the bridge has been told of exactly the sessions
\* that the port has: each opens and closes once, in turn (the loop's check of
\* a report's generation).
SessionsAgree == active = "phones" => Srv!SessionsAgree

\* Once a run has started, it has asked to drop every phone that a killed run
\* served, and that has stayed connected (record_clients and drop_stale).
StaleDropped == active = "phones" => Srv!StaleDropped

\* A phone that was let in doesn't stay connected without a session: one it
\* lost to a late report, or let go of, is given back or its link is dropped
\* (watch_link and Check).  Left out is a phone that BlueZ had forgotten between two links, and
\* that the port no longer counts as watched.
WatchedPhonesHeard == Srv!WatchedPhonesHeard

------------------------------------------------------------------------------
\* Pairing.

\* Every prompt that is accepted was accepted by the very reply that the person gave to it,
\* and a pairing that asked is paired only so; when each prompt gets one reply at most, and
\* none comes unasked (ask() of pairing.rs takes the next reply of the channel).
PairedByReply == Pair!PairedByReply

\* Every request is answered, whatever the radio and the person do: a wait has a
\* timeout, and the lock and the daemon's loop are free again.
EveryRequestAnswered == Pair!EveryRequestAnswered

------------------------------------------------------------------------------
\* ControlServer.

\* An event comes once, in order, and a report of lost ones stands exactly where they are
\* missing: with nothing dropped at a full outbox, the lines account for every event.
EventsAccounted == active = "control" => Ctl!EventsAccounted

\* A request of a client that reads and keeps its end of the connection open is answered,
\* even one that waits for a scan, and behind a full outbox.  A half-closed connection, the
\* end of the daemon and a line that is too long end the connection with answers still out.
AnsweredById == Ctl!AnsweredById

------------------------------------------------------------------------------
\* Activity.

\* No byte is forgotten or counted twice between the channel, the slots and the events,
\* also for an object that was quiet and comes back.
BytesConserved == active = "activity" => Act!BytesConserved

------------------------------------------------------------------------------
\* TuiScan.

\* A scan and a pairing come to an end that is shown, also a hidden one: "It goes on, comes
\* back if it needs an answer, and says how it ended on the message line".  A hand-off drops
\* the connection and leaves the pairing as it is, without the answer that would end it.
UnderWayEnds == Scan!UnderWayEnds

------------------------------------------------------------------------------
\* TuiStatus.

\* What is on the screen catches up with the daemon, without polling: with the last change that
\* it can know of, or a later moment, also when that change came while an earlier answer was on
\* its way.  It can't know of another client's change that sends no event, nor of one whose event
\* was dropped with no other state event in the queue: those show after the next change.
StatusCatchesUp == <>[](active = "status" => Status!CaughtUp)
==============================================================================
