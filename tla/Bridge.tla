------------------------------- MODULE Bridge -------------------------------
(***************************************************************************)
(* One bridge of the daemon (bridge/mod.rs): the select loop that owns a   *)
(* TNC link and fans frames between it and any number of app sessions, and *)
(* the reader and writer tasks it spawns for each link.  The app ports,    *)
(* the TNC, the supervisor's commands and the clock are its environment.   *)
(*                                                                         *)
(* The loop's struct Run is the record run, and each of its methods is an  *)
(* operator from record to record, so that a handler composes them in the  *)
(* order the code calls them.  A frame from an app is the number of its    *)
(* submission and its KISS command byte.                                   *)
(***************************************************************************)
EXTENDS Naturals, Sequences, FiniteSets

CONSTANTS
  Sessions,            \* session ids the app ports can use
  Cmds,                \* command bytes of the frames the apps send
  SettingsSet,         \* TNC port settings the config can name
  Holds,               \* what port.connect/disconnect/release can ask for
  UPLINK_QUEUE_FRAMES, \* frames kept while the link comes up
  WRITER_QUEUE,        \* the link writer's channel
  APP_QUEUE,           \* the channel from the app ports
  TNC_QUEUE,           \* the channel from the link's reader and writer
  \* Bounds on what the environment does.
  MaxOpens, MaxFrames, MaxDowns, MaxCmds, MaxFaults

Connects == {"OnDemand", "Always"}
AppParams == {"Pass", "Drop"}
TncSettings == [connect : Connects, idle_timeout : Nat,
                app_params : AppParams, exit_kiss_on_disconnect : BOOLEAN]

ASSUME SessionsCounted == \A S \in SUBSET Sessions : Cardinality(S) \in Nat

ASSUME BridgeAssumption ==
  /\ Cmds \subseteq 0 .. 255
  /\ SettingsSet \subseteq TncSettings
  /\ Holds \subseteq {"none", "up", "down"}
  /\ UPLINK_QUEUE_FRAMES \in Nat \ {0}
  /\ WRITER_QUEUE \in Nat
  /\ UPLINK_QUEUE_FRAMES <= WRITER_QUEUE
  /\ {APP_QUEUE, TNC_QUEUE} \subseteq Nat \ {0}
  /\ {MaxOpens, MaxFrames, MaxDowns, MaxCmds, MaxFaults} \subseteq Nat

VARIABLES
  run,    \* the bridge task and the link tasks it has spawned
  appQ,   \* app_rx: events from the app ports
  tncQ,   \* tnc_rx: events from the links' readers and writers
  apps,   \* what each session id is to its port: "new", "in" or "out"
  used    \* how much of each bound the environment has used

vars == <<run, appQ, tncQ, apps, used>>

-----------------------------------------------------------------------------
(* The frame policy (bridge/policy.rs).                                    *)

CMD_DATA == 0
CMD_PARAMS == 1 .. 6
CMD_RETURN == 255

\* TRUE for Verdict::Pass.  Frames are never empty here: the deframer yields
\* none.
filter_app_frame(cmd, app_params) ==
  /\ cmd # CMD_RETURN
  /\ \/ cmd % 16 = CMD_DATA
     \/ cmd % 16 \in CMD_PARAMS /\ app_params = "Pass"

-----------------------------------------------------------------------------
(* The state of Run.  links[l] is the l-th link that came up: the          *)
(* generation its tasks were given, whether its reader and its writer are  *)
(* still there, the writer's channel q, the message it is writing, and the *)
(* last one it has written.  Len(links) is the counter tnc_connects.  A    *)
(* writer's messages are frame numbers, or ExitKiss.                       *)

ExitKiss == 0
Link == [gen : Nat, reader : BOOLEAN, writer : BOOLEAN,
         q : Seq(Nat), busy : Seq(Nat), last : Nat]

New(s) ==
  [phase |-> "running", ending |-> 0,
   settings |-> s, held |-> "none", sessions |-> {},
   link |-> "Idle", state |-> "Idle", waiting |-> "none",
   attempt |-> 0, generation |-> 0, idle_timer |-> FALSE,
   pending |-> <<>>, stale |-> 0,  \* the first stale frames are too old
   writer_tx |-> 0,                \* the link whose writer it sends to, or 0
   exit_kiss |-> FALSE,            \* the link has a way out of KISS mode
   links |-> <<>>,
   frames_up |-> 0, frames_down |-> 0, dropped |-> 0,
   \* History, not in the code: frames taken from apps, frames cleared
   \* uncounted with the pending queue, drops owed to slow sessions, and
   \* frames refused by a writer that was alive.
   taken |-> 0, cleared |-> 0, slow |-> 0, overrun |-> 0]

WriterLives(r) == r.writer_tx # 0 /\ r.links[r.writer_tx].writer
WriterHasRoom(r) == Len(r.links[r.writer_tx].q) < WRITER_QUEUE

\* A closed channel has all its capacity back.
app_ready(r) == WriterLives(r) => WriterHasRoom(r)

wants_link(r) ==
  IF r.held # "none" THEN r.held = "up"
  ELSE r.settings.connect = "Always" \/ r.sessions # {}

start_connect(r) ==
  [r EXCEPT !.generation = @ + 1, !.link = "Connecting",
            !.state = IF r.waiting = "none" THEN "Connecting" ELSE @]

\* Variant with a defect, to show that the properties can tell: attempts
\* survive a wait.
start_wait_keeps_attempt(r, kind) ==
  [r EXCEPT !.waiting = kind, !.link = "Backoff", !.state = kind]

start_wait(r, kind) ==
  [r EXCEPT !.waiting = kind, !.attempt = 0, !.link = "Backoff",
            !.state = kind]

start_backoff(r) ==
  [r EXCEPT !.attempt = @ + 1, !.link = "Backoff", !.state = "Backoff"]

clear_pending(r) ==
  [r EXCEPT !.cleared = @ + Len(r.pending), !.pending = <<>>, !.stale = 0]

\* Give up on whatever the link was for.
go_idle(r) == [clear_pending(r) EXCEPT !.waiting = "none", !.state = "Idle"]

send_writer(r, msg) ==
  [r EXCEPT !.links[r.writer_tx].q = Append(@, msg)]

say_exit_kiss(r) ==
  IF /\ r.link = "Connected" /\ WriterLives(r) /\ WriterHasRoom(r)
     /\ r.settings.exit_kiss_on_disconnect /\ r.exit_kiss
  THEN send_writer(r, ExitKiss) ELSE r

\* Dropping the sender (there is one only while connected) tells the writer
\* to finish.  Aborting a task is only a request: the reader goes on until
\* ReaderStop, a lost link's writer until WriterAbort.
drop_link(r) ==
  [r EXCEPT !.link = "Idle", !.writer_tx = 0, !.generation = @ + 1]

\* Variant with a defect, to show that the properties can tell: the
\* generation stays, or the writer's sender does.
disconnect_no_bump(r) ==
  go_idle([say_exit_kiss(r) EXCEPT !.link = "Idle", !.writer_tx = 0])
disconnect_keeps_sender(r) ==
  go_idle([say_exit_kiss(r) EXCEPT !.link = "Idle", !.generation = @ + 1])

disconnect(r) == go_idle(drop_link(say_exit_kiss(r)))

\* The writer is left to finish on its own, or until TEARDOWN_WAIT.
close(r) == disconnect(r)

queue_pending(r, n) ==
  IF Len(r.pending) >= UPLINK_QUEUE_FRAMES
  THEN [r EXCEPT !.pending = Append(Tail(@), n),
                 !.stale = IF @ > 0 THEN @ - 1 ELSE 0,
                 !.dropped = @ + 1]
  ELSE [r EXCEPT !.pending = Append(@, n)]

drop(r) == [r EXCEPT !.dropped = @ + 1]

uplink(r, n) ==
  CASE r.link = "Connected" ->
         IF WriterLives(r)
         THEN IF WriterHasRoom(r)
              THEN [send_writer(r, n) EXCEPT !.frames_up = @ + 1]
              ELSE [drop(r) EXCEPT !.overrun = @ + 1]
         ELSE drop(r)
    [] r.link = "Idle" /\ r.held = "down" -> drop(r)
    [] r.link = "Idle" /\ r.held # "down" ->
         start_connect(queue_pending(r, n))
    [] OTHER -> queue_pending(r, n)

-----------------------------------------------------------------------------
(* The handlers of the loop's events.                                      *)

\* Nobody wants the link any more: let go of it, at once or after a while.
release(r) ==
  IF r.settings.idle_timeout = 0 THEN close(r)
  ELSE [r EXCEPT !.idle_timer = TRUE]

connect_if_idle(r) == IF r.link = "Idle" THEN start_connect(r) ELSE r

on_app_opened(r, id) ==
  LET r1 == [r EXCEPT !.sessions = @ \cup {id}, !.idle_timer = FALSE] IN
  IF wants_link(r1) THEN connect_if_idle(r1) ELSE r1

on_app_closed(r, id) ==
  LET r1 == [r EXCEPT !.sessions = @ \ {id}] IN
  IF r1.sessions = {} /\ ~wants_link(r1) THEN release(r1) ELSE r1

\* Variant with a defect, to show that the properties can tell: frames the
\* policy refuses are not counted.
on_app_frame_uncounted(r, ev) ==
  LET r1 == [r EXCEPT !.taken = @ + 1] IN
  IF /\ ev.id \in r.sessions
     /\ filter_app_frame(ev.cmd, r.settings.app_params)
  THEN uplink(r1, ev.n) ELSE r1

on_app_frame(r, ev) ==
  LET r1 == [r EXCEPT !.taken = @ + 1] IN
  IF /\ ev.id \in r.sessions
     /\ filter_app_frame(ev.cmd, r.settings.app_params)
  THEN uplink(r1, ev.n) ELSE drop(r1)

on_app(r, ev) ==
  CASE ev.type = "SessionOpened" -> on_app_opened(r, ev.id)
    [] ev.type = "SessionClosed" -> on_app_closed(r, ev.id)
    [] ev.type = "Frame" -> on_app_frame(r, ev)

apply_settings(r, new) ==
  LET old == r.settings
      r1 == [r EXCEPT !.settings = new] IN
  CASE old.connect = "OnDemand" /\ new.connect = "Always" ->
         connect_if_idle([r1 EXCEPT !.idle_timer = FALSE])
    [] old.connect = "Always" /\ new.connect = "OnDemand" /\ r.sessions = {} ->
         release(r1)
    [] OTHER -> r1

on_connector(r) ==
  LET r1 == [close(r) EXCEPT !.attempt = 0] IN
  IF wants_link(r1) THEN start_connect(r1) ELSE r1

on_hold(r, hold) ==
  LET r1 == [r EXCEPT !.held = hold, !.idle_timer = FALSE] IN
  CASE wants_link(r1) -> connect_if_idle(r1)
    [] ~wants_link(r1) /\ hold # "none" -> close(r1)
    [] ~wants_link(r1) /\ hold = "none" -> release(r1)

\* A frame goes to every session, except those too slow to take it.
on_tnc_frame(r, ev, slow) ==
  IF ev.gen # r.generation THEN r
  ELSE [r EXCEPT !.frames_down = @ + 1,
                 !.dropped = @ + Cardinality(slow),
                 !.slow = @ + Cardinality(slow)]

on_tnc_closed(r, ev) ==
  LET r1 == drop_link(r) IN
  IF ev.gen # r.generation \/ r.link # "Connected" THEN r
  ELSE IF wants_link(r1) THEN start_backoff([r1 EXCEPT !.attempt = 0])
       ELSE [r1 EXCEPT !.state = "Idle"]

\* The pending frames that are still fresh, and how many of them the new
\* writer's queue takes.
fresh(r) == SubSeq(r.pending, r.stale + 1, Len(r.pending))
fits(r) ==
  IF Len(fresh(r)) <= WRITER_QUEUE THEN Len(fresh(r)) ELSE WRITER_QUEUE

\* Variant with a defect, to show that the properties can tell: the pending
\* frames are replayed newest first.
replayed_newest_first(r) ==
  [i \in 1 .. fits(r) |-> fresh(r)[fits(r) + 1 - i]]

replayed(r) == SubSeq(fresh(r), 1, fits(r))

\* The link is up: its tasks are spawned, and uplink replays the pending
\* frames.
link_up(r, exit_kiss) ==
  LET over == Len(fresh(r)) - fits(r)
      link == [gen |-> r.generation, reader |-> TRUE, writer |-> TRUE,
               q |-> replayed(r), busy |-> <<>>, last |-> 0]
  IN
  [r EXCEPT !.waiting = "none", !.exit_kiss = exit_kiss, !.attempt = 0,
            !.link = "Connected", !.state = "Connected",
            !.links = Append(@, link), !.writer_tx = Len(r.links) + 1,
            !.pending = <<>>, !.stale = 0, !.frames_up = @ + fits(r),
            !.dropped = @ + r.stale + over, !.overrun = @ + over]

on_link_ok(r, exit_kiss) ==
  LET r1 == link_up(r, exit_kiss) IN
  IF ~wants_link(r) /\ r.settings.idle_timeout = 0 THEN close(r1) ELSE r1

on_link_err(r, error) ==
  LET r1 == [r EXCEPT !.link = "Idle"] IN
  IF ~wants_link(r) THEN go_idle(r1)
  ELSE IF error = "Other" THEN start_backoff([r1 EXCEPT !.waiting = "none"])
       ELSE start_wait(r1, error)

\* Variant with a defect, to show that the properties can tell: what it
\* waited for is not forgotten, or nothing comes after the backoff.
on_backoff_over_keeps_waiting(r) ==
  LET r1 == [r EXCEPT !.link = "Idle"] IN
  IF wants_link(r) THEN start_connect(r1)
  ELSE [clear_pending(r1) EXCEPT !.state = "Idle"]
on_backoff_over_gives_up(r) == r

on_backoff_over(r) ==
  LET r1 == [r EXCEPT !.link = "Idle"] IN
  IF wants_link(r) THEN start_connect(r1) ELSE go_idle(r1)

\* Variant with a defect, to show that the properties can tell: the timer
\* closes nothing.
on_idle_elapsed_no_close(r) == [r EXCEPT !.idle_timer = FALSE]

on_idle_elapsed(r) ==
  LET r1 == [r EXCEPT !.idle_timer = FALSE] IN
  IF wants_link(r) THEN r1 ELSE close(r1)

-----------------------------------------------------------------------------
(* Init and the steps of the bridge's loop.                                *)

Init ==
  /\ \E s \in SettingsSet :
       run = IF s.connect = "Always" THEN start_connect(New(s)) ELSE New(s)
  /\ appQ = <<>> /\ tncQ = <<>>
  /\ apps = [s \in Sessions |-> "new"]
  /\ used = [opens |-> 0, frames |-> 0, downs |-> 0, cmds |-> 0, faults |-> 0]

Running == run.phase = "running"

TakeApp ==
  /\ Running /\ appQ # <<>> /\ app_ready(run)
  /\ run' = on_app(run, Head(appQ)) /\ appQ' = Tail(appQ)
  /\ UNCHANGED <<tncQ, apps, used>>

TakeTncFrame ==
  /\ Running /\ tncQ # <<>> /\ Head(tncQ).type = "Frame"
  /\ \E slow \in SUBSET run.sessions :
       run' = on_tnc_frame(run, Head(tncQ), slow)
  /\ tncQ' = Tail(tncQ)
  /\ UNCHANGED <<appQ, apps, used>>

TakeTncClosed ==
  /\ Running /\ tncQ # <<>> /\ Head(tncQ).type = "Closed"
  /\ run' = on_tnc_closed(run, Head(tncQ)) /\ tncQ' = Tail(tncQ)
  /\ UNCHANGED <<appQ, apps, used>>

ConnectOk ==
  /\ Running /\ run.link = "Connecting"
  /\ \E exit_kiss \in BOOLEAN : run' = on_link_ok(run, exit_kiss)
  /\ UNCHANGED <<appQ, tncQ, apps, used>>

\* Use one unit of a bound.
Use(what, max) == used[what] < max /\ used' = [used EXCEPT ![what] = @ + 1]

ConnectErr ==
  /\ Running /\ run.link = "Connecting"
  /\ \E error \in {"Unpaired", "WaitingForDevice", "Other"} :
       run' = on_link_err(run, error)
  /\ Use("faults", MaxFaults)
  /\ UNCHANGED <<appQ, tncQ, apps>>

BackoffOver ==
  /\ Running /\ run.link = "Backoff"
  /\ run' = on_backoff_over(run)
  /\ UNCHANGED <<appQ, tncQ, apps, used>>

IdleElapsed ==
  /\ Running /\ run.idle_timer
  /\ run' = on_idle_elapsed(run)
  /\ UNCHANGED <<appQ, tncQ, apps, used>>

\* Variant with a defect: the bridge waits for the writer and keeps its sender.
Shutdown_keeps_sender ==
  /\ Running
  /\ run' = [run EXCEPT !.phase = "stopping", !.ending = run.writer_tx]
  /\ UNCHANGED <<appQ, tncQ, apps, used>>

\* The loop ends, on the shutdown token or when the last app port is gone,
\* and waits for the teardown of the link it had.
Shutdown ==
  /\ Running
  /\ run' = [disconnect(run) EXCEPT !.phase = "stopping",
                                    !.ending = run.writer_tx]
  /\ UNCHANGED <<appQ, tncQ, apps, used>>

Stopped ==
  /\ run.phase = "stopping" /\ (run.ending # 0 => ~run.links[run.ending].writer)
  /\ run' = [run EXCEPT !.phase = "stopped"]
  /\ UNCHANGED <<appQ, tncQ, apps, used>>

-----------------------------------------------------------------------------
(* BridgeCmd: what the supervisor asks of a running bridge.  Kick cancels  *)
(* a session's token and Snapshot reads: neither changes Run.              *)

CmdSettings ==
  /\ Running /\ Use("cmds", MaxCmds)
  /\ \E new \in SettingsSet \ {run.settings} :
       run' = apply_settings(run, new)
  /\ UNCHANGED <<appQ, tncQ, apps>>

CmdConnector ==
  /\ Running /\ Use("cmds", MaxCmds)
  /\ run' = on_connector(run)
  /\ UNCHANGED <<appQ, tncQ, apps>>

CmdHold ==
  /\ Running /\ Use("cmds", MaxCmds)
  /\ \E hold \in Holds : run' = on_hold(run, hold)
  /\ UNCHANGED <<appQ, tncQ, apps>>

-----------------------------------------------------------------------------
(* The link's tasks.  Only the writer the bridge still sends to is wanted; *)
(* the others are being aborted, or are tearing a link down.               *)

TncEvent(type, l) == [type |-> type, gen |-> run.links[l].gen, link |-> l]

send_tnc(type, l) ==
  Len(tncQ) < TNC_QUEUE /\ tncQ' = Append(tncQ, TncEvent(type, l))

set_link(l, link) == [run EXCEPT !.links[l] = link]

\* What becomes of a link when its reader or its writer ends, and when the
\* writer takes a message and has written it.
end_reader(l) == [run.links[l] EXCEPT !.reader = FALSE]
end_writer(l) == [run.links[l] EXCEPT !.writer = FALSE, !.q = <<>>, !.busy = <<>>]
take(l) ==
  [run.links[l] EXCEPT !.busy = <<Head(run.links[l].q)>>, !.q = Tail(@)]
write(l) ==
  [run.links[l] EXCEPT !.busy = <<>>, !.last = Head(run.links[l].busy)]

ReaderFrame(l) ==
  /\ run.links[l].reader
  /\ send_tnc("Frame", l) /\ Use("downs", MaxDowns)
  /\ UNCHANGED <<run, appQ, apps>>

ReaderClosed(l) ==
  /\ run.links[l].reader
  /\ send_tnc("Closed", l) /\ Use("faults", MaxFaults)
  /\ run' = set_link(l, end_reader(l))
  /\ UNCHANGED <<appQ, apps>>

ReaderStop(l) ==
  /\ run.links[l].reader
  /\ l # run.writer_tx
  /\ run' = set_link(l, end_reader(l))
  /\ UNCHANGED <<appQ, tncQ, apps, used>>

WriterTake(l) ==
  /\ run.links[l].busy = <<>> /\ run.links[l].q # <<>>
  /\ run' = set_link(l, take(l))
  /\ UNCHANGED <<appQ, tncQ, apps, used>>

WriterWrite(l) ==
  /\ run.links[l].busy # <<>>
  /\ run' = set_link(l, write(l))
  /\ UNCHANGED <<appQ, tncQ, apps, used>>

\* Variant with a defect, to show that the properties can tell: a failed
\* write is not reported.
WriterFail_silent(l) ==
  /\ run.links[l].busy # <<>>
  /\ run' = set_link(l, end_writer(l)) /\ Use("faults", MaxFaults)
  /\ UNCHANGED <<tncQ, appQ, apps>>

\* A frame that can't be written closes the link; a teardown that can't be
\* is let go.
WriterFail(l) ==
  /\ run.links[l].busy # <<>>
  /\ IF Head(run.links[l].busy) = ExitKiss THEN UNCHANGED tncQ
     ELSE send_tnc("Closed", l)
  /\ run' = set_link(l, end_writer(l)) /\ Use("faults", MaxFaults)
  /\ UNCHANGED <<appQ, apps>>

\* The sender is gone and the queue is empty: shut the link down and end.
WriterDone(l) ==
  /\ run.links[l].writer
  /\ l # run.writer_tx
  /\ run.links[l].busy = <<>> /\ run.links[l].q = <<>>
  /\ run' = set_link(l, end_writer(l))
  /\ UNCHANGED <<appQ, tncQ, apps, used>>

\* Aborted: the link was lost, or TEARDOWN_WAIT is over (finish_writer).
WriterAbort(l) ==
  /\ run.links[l].writer
  /\ l # run.writer_tx
  /\ run' = set_link(l, end_writer(l))
  /\ UNCHANGED <<appQ, tncQ, apps, used>>

ReaderStep(l) == ReaderFrame(l) \/ ReaderClosed(l) \/ ReaderStop(l)

WriterStep(l) == \/ WriterTake(l) \/ WriterWrite(l) \/ WriterFail(l)
                 \/ WriterDone(l) \/ WriterAbort(l)

-----------------------------------------------------------------------------
(* The app ports, as the bridge sees them, and the age of pending frames.  *)

send_app(ev) == /\ run.phase # "stopped" /\ Len(appQ) < APP_QUEUE
                /\ appQ' = Append(appQ, ev)

AppOpen(id) ==
  /\ apps[id] # "in" /\ Use("opens", MaxOpens)
  /\ send_app([type |-> "SessionOpened", id |-> id])
  /\ apps' = [apps EXCEPT ![id] = "in"]
  /\ UNCHANGED <<run, tncQ>>

AppClose(id) ==
  /\ apps[id] = "in"
  /\ send_app([type |-> "SessionClosed", id |-> id])
  /\ apps' = [apps EXCEPT ![id] = "out"]
  /\ UNCHANGED <<run, tncQ, used>>

\* A BLE client's reader may still send a frame after the session closed.
AppSend(id) ==
  /\ apps[id] # "new" /\ Use("frames", MaxFrames)
  /\ \E cmd \in Cmds :
       send_app([type |-> "Frame", id |-> id, n |-> used.frames + 1,
                 cmd |-> cmd])
  /\ UNCHANGED <<run, tncQ, apps>>

\* The oldest pending frame that was still fresh is now UPLINK_QUEUE_AGE old.
FrameAges ==
  /\ run.stale < Len(run.pending)
  /\ run' = [run EXCEPT !.stale = @ + 1]
  /\ UNCHANGED <<appQ, tncQ, apps, used>>

Loop == \/ TakeApp \/ TakeTncFrame \/ TakeTncClosed
        \/ ConnectOk \/ ConnectErr \/ BackoffOver \/ IdleElapsed
        \/ Shutdown \/ Stopped
        \/ CmdSettings \/ CmdConnector \/ CmdHold

Next ==
  \/ Loop
  \/ \E l \in DOMAIN run.links : ReaderStep(l) \/ WriterStep(l)
  \/ \E id \in Sessions : AppOpen(id) \/ AppClose(id) \/ AppSend(id)
  \/ FrameAges

Spec == Init /\ [][Next]_vars

-----------------------------------------------------------------------------
(* Safety.                                                                 *)

LinkNames == {"Idle", "Connecting", "Connected", "Backoff"}
Waits == {"Unpaired", "WaitingForDevice"}

Run == [phase : {"running", "stopping", "stopped"}, ending : Nat,
        settings : TncSettings, held : {"none", "up", "down"},
        sessions : SUBSET Sessions,
        link : LinkNames, state : LinkNames \cup Waits,
        waiting : {"none"} \cup Waits,
        attempt : Nat, generation : Nat, idle_timer : BOOLEAN,
        pending : Seq(Nat), stale : Nat,
        writer_tx : Nat, exit_kiss : BOOLEAN, links : Seq(Link),
        frames_up : Nat, frames_down : Nat, dropped : Nat,
        taken : Nat, cleared : Nat, slow : Nat, overrun : Nat]

AppEvents == [type : {"SessionOpened", "SessionClosed"}, id : Sessions]
             \cup [type : {"Frame"}, id : Sessions, n : Nat, cmd : Cmds]
TncEvents == [type : {"Frame", "Closed"}, gen : Nat, link : Nat]

RunOK(r) ==
  /\ r \in Run
  /\ r.stale <= Len(r.pending) /\ Len(r.pending) <= UPLINK_QUEUE_FRAMES
  /\ \A l \in 1 .. Len(r.links) : Len(r.links[l].q) <= WRITER_QUEUE
  /\ r.writer_tx <= Len(r.links) /\ r.ending <= Len(r.links)

\* The fields of Run and the events in the channels have their Rust types;
\* the pending queue, the writers' queues and both channels stay within
\* their limits (UPLINK_QUEUE_FRAMES, WRITER_QUEUE, APP_QUEUE, 64); and the
\* writer's sender is for a link that exists.
TypeOK ==
  /\ RunOK(run)
  /\ appQ \in Seq(AppEvents) /\ Len(appQ) <= APP_QUEUE
  /\ tncQ \in Seq(TncEvents) /\ Len(tncQ) <= TNC_QUEUE
  /\ apps \in [Sessions -> {"new", "in", "out"}]
  /\ used \in [opens : Nat, frames : Nat, downs : Nat, cmds : Nat, faults : Nat]

\* What the bridge publishes on its watch channel is what the link is doing:
\* the TncLink variant, or what a poll is waiting for; writer_tx is `Some`
\* exactly while connected, and to the newest link; and frames wait only
\* while a link is being brought up.
LinkConsistent ==
  /\ run.state = IF run.waiting = "none" THEN run.link ELSE run.waiting
  /\ run.waiting # "none" => run.link \in {"Connecting", "Backoff"}
  /\ run.writer_tx = IF run.link = "Connected" THEN Len(run.links) ELSE 0
  /\ run.link \in {"Idle", "Connected"} => run.pending = <<>>

\* Wanted whatever `port.connect` says: not held down, and used or always on.
Wanted == /\ run.phase = "running" /\ run.held # "down"
          /\ run.sessions # {} \/ run.settings.connect = "Always"

\* A link somebody needs is always up or being brought up, whatever order
\* sessions, losses, settings, holds and restarts come in: no handler leaves
\* the bridge Idle with a session waiting (so uplink never finds it so).
WantedLinkPursued == Wanted => run.link # "Idle"

\* A link nobody wants is never forgotten: unless it is held down, the idle
\* timer that will close it is running.
NoOrphanLink ==
  /\ run.link # "Idle" /\ ~wants_link(run) /\ run.held # "down"
  => run.idle_timer

\* The generation check lets through only events of the link that is
\* connected now: what an aborted reader or a departing writer still sends
\* never reaches a session nor closes a newer link.
StaleEventsIgnored ==
  \A i \in 1 .. Len(tncQ) : tncQ[i].gen = run.generation =>
    run.link = "Connected" /\ tncQ[i].link = Len(run.links)

\* A connected link that has lost its reader or its writer is never left
\* looking connected: the Closed event that will bring it down is queued.
DeadLinkNoticed ==
  run.link = "Connected" =>
    LET l == Len(run.links) IN
    \/ run.links[l].reader /\ run.links[l].writer
    \/ \E i \in 1 .. Len(tncQ) :
         tncQ[i].type = "Closed" /\ tncQ[i].gen = run.generation

\* uplink drops a frame on a connected link only if the writer went away:
\* app_ready and the size of the pending queue keep its queue from
\* overflowing.
WriterNeverOverrun == run.overrun = 0

\* Every frame taken from an app is forwarded, counted as dropped, still
\* pending, or was discarded with the pending queue by a deliberate close
\* (the only frames that the counters miss).
FramesAccounted ==
  run.taken + run.slow
    = run.frames_up + run.dropped + run.cleared + Len(run.pending)

Increasing(s) == \A i, j \in 1 .. Len(s) : i < j => s[i] < s[j]
IsFrame(msg) == msg # ExitKiss
OnLink(l) == SelectSeq(<<run.links[l].last>> \o run.links[l].busy
                         \o run.links[l].q, IsFrame)
InAppQueue ==
  LET IsFrameEvent(ev) == ev.type = "Frame"
      evs == SelectSeq(appQ, IsFrameEvent) IN
  [i \in 1 .. Len(evs) |-> evs[i].n]

\* Frames reach the TNC in the order the apps sent them, each at most once:
\* across the app channel, the pending queue and its replay on connect, and
\* the writer's channel.
UplinkInOrder ==
  /\ \A l \in 1 .. Len(run.links) : Increasing(OnLink(l))
  /\ Increasing((IF WriterLives(run) THEN OnLink(run.writer_tx) ELSE <<>>)
                 \o run.pending \o InAppQueue)

\* Taking the TNC out of KISS mode is the last thing a link is told, and
\* only once the bridge has let go of it.
ExitKissLast ==
  \A l \in 1 .. Len(run.links) :
    LET out == run.links[l].busy \o run.links[l].q IN
    \A i \in 1 .. Len(out) :
      out[i] = ExitKiss => i = Len(out) /\ l # run.writer_tx

-----------------------------------------------------------------------------
(* Liveness.  The loop serves a branch that stays ready, a connect attempt *)
(* ends (each connector has a timeout), timers elapse, the TNC goes on     *)
(* taking what the writer writes, and finish_writer bounds a teardown.     *)
(* Nothing is assumed of what apps, TNC and supervisor choose to do.       *)

Fairness ==
  /\ WF_vars(TakeApp) /\ WF_vars(TakeTncFrame \/ TakeTncClosed)
  /\ WF_vars(ConnectOk \/ ConnectErr)
  /\ WF_vars(BackoffOver) /\ WF_vars(IdleElapsed) /\ WF_vars(Stopped)
  /\ WF_vars(\E l \in DOMAIN run.links : WriterTake(l) \/ WriterWrite(l))
  /\ WF_vars(\E l \in DOMAIN run.links : WriterDone(l) \/ WriterAbort(l))

FairSpec == Spec /\ Fairness

\* A link that is wanted comes up, through any number of failed connects and
\* waits, once the failures cease.
WantedLinkComesUp == Wanted ~> (run.link = "Connected" \/ ~Wanted)

\* A link nobody wants is let go, unless someone comes back.
UnwantedLinkReleased ==
  LET Unwanted == /\ run.phase = "running" /\ run.held # "down"
                  /\ ~wants_link(run) /\ run.link # "Idle"
  IN Unwanted ~> ~Unwanted

\* A bridge that is shut down ends: it waits for one writer, which either
\* finishes its teardown or is aborted.
ShutdownEnds == run.phase = "stopping" ~> run.phase = "stopped"

-----------------------------------------------------------------------------
(* What the docs and comments say and the code does not always do.         *)

\* docs/control-api.md of port.disconnect: "Take a TNC port's link down and
\* hold it down until `port.connect`".  apply_settings connects on a change
\* of `connect` to "always" without looking at held.
HeldDownStaysDown == run.held = "down" => run.link = "Idle"

\* docs/control-api.md of port.connect: "Bring a TNC port's link up now and
\* hold it up, whatever its `connect` policy".  apply_settings closes on a
\* change of `connect` to "on_demand" without looking at held.
HeldUpStaysUp ==
  run.held = "up" /\ run.phase = "running" => run.link # "Idle"

\* main, on shutdown: "Let the teardown reach the TNC before the bridge task
\* ends."  It waits for the link it still has, not for one that close() let
\* go of a moment before.
TeardownBeforeStop ==
  run.phase = "stopped" =>
    \A l \in 1 .. Len(run.links) :
      LET out == run.links[l].busy \o run.links[l].q IN
      \A i \in 1 .. Len(out) : out[i] # ExitKiss

-----------------------------------------------------------------------------
(* The port as the watchers of its state see it.                           *)

Port == INSTANCE TncPort WITH state <- run.state, attempt <- run.attempt

\* The states a `status` client or the TUI sees, and the attempts shown with
\* a backoff, follow one another only as TncPort allows.
StateAsWatched == Port!Spec

=============================================================================
