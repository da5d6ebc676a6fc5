-------------------------------- MODULE TuiScan --------------------------------
(***************************************************************************)
(* Scanning and pairing in the TUI (ctl/tui/app.rs): the boxes of a scan   *)
(* and of a pairing, the keys that work in them, the daemon's events and   *)
(* answers, and what happens to both when the connection goes or the TUI   *)
(* steps aside for ktbctl setup or edit (ctl/tui/mod.rs).                  *)
(*                                                                         *)
(* scan and pairing are sets of at most one box.  A device is its address; *)
(* the arrow keys can bring the selection to any device of the list, so    *)
(* that a key picks one.  The daemon is reduced to the tasks that it has   *)
(* for scans and pairings, one of which holds the adapter at a time.       *)
(***************************************************************************)
EXTENDS Naturals, Sequences, FiniteSets

CONSTANTS
  Devices,      \* the radios in reach
  Wanted,       \* the address of the TNC that p is pressed on
  MaxScans, MaxAsks, MaxConns, MaxHandOffs, MaxLosses, MaxStops,
  MaxEscs       \* how often Esc is pressed while a scan runs

VARIABLES
  scan,     \* App::scan
  pairing,  \* App::pairing
  conn,     \* the connection: its number, 0 with none, or quit
  pending,  \* Conn::pending: what each request waits for
  next,     \* Client::next_id
  up,       \* what was sent to the daemon
  down,     \* what the daemon sends on the requests connection
  tasks,    \* the daemon's scans and pairings
  used

vars == <<scan, pairing, conn, pending, next, up, down, tasks, used>>

Quit == MaxConns + 1
Up == conn \in 1..MaxConns
Budget == [scans |-> MaxScans, conns |-> MaxConns, handoffs |-> MaxHandOffs, losses |-> MaxLosses,
           stops |-> MaxStops, escs |-> MaxEscs]
Spend(what) == used[what] < Budget[what] /\ used' = [used EXCEPT ![what] = @ + 1]

NewScan(target) == [target |-> target, req |-> 0, devices |-> {}, over |-> FALSE, failed |-> FALSE, pair |-> {}]
NewPairing == [req |-> 0, ask |-> FALSE, end |-> FALSE, hidden |-> FALSE]
Answer(id, ok, devs) == [kind |-> "answer", id |-> id, ok |-> ok, devs |-> devs]

------------------------------------------------------------------------------
\* The connection.

\* Variant with a defect: only a pairing that is shown ends with the connection.
LostPairing_shown(p) == IF p.end \/ p.hidden THEN p ELSE [p EXCEPT !.ask = FALSE, !.end = TRUE]

LostScan(s) == IF s.over THEN s ELSE [s EXCEPT !.over = TRUE, !.failed = TRUE, !.pair = {}]
LostPairing(p) == IF p.end THEN p ELSE [p EXCEPT !.ask = FALSE, !.hidden = FALSE, !.end = TRUE]

\* The boxes become s and p, and a request goes out; without a connection they end.
act(s, p, then, of) ==
  IF Up THEN /\ scan' = IF then = "scan" THEN {[x EXCEPT !.req = next] : x \in s} ELSE s
             /\ pairing' = IF then = "pair" THEN {[x EXCEPT !.req = next] : x \in p} ELSE p
             /\ up' = Append(up, [id |-> next, what |-> then, of |-> of])
             /\ pending' = pending \cup {[id |-> next, then |-> then]} /\ next' = next + 1
  ELSE /\ scan' = {LostScan(x) : x \in s} /\ pairing' = {LostPairing(x) : x \in p}
       /\ UNCHANGED <<up, pending, next>>

Show(s, p) == scan' = s /\ pairing' = p /\ UNCHANGED <<up, pending, next>>
Drop == conn' = 0 /\ pending' = {} /\ next' = 1 /\ up' = <<>> /\ down' = <<>>

Open == /\ conn = 0 /\ Spend("conns") /\ conn' = used'.conns
        /\ UNCHANGED <<scan, pairing, pending, next, up, down, tasks>>

Lost ==
  /\ Up /\ Spend("losses") /\ Drop
  /\ scan' = {LostScan(s) : s \in scan} /\ pairing' = {LostPairing(p) : p \in pairing}
  /\ UNCHANGED tasks

------------------------------------------------------------------------------
\* Keys.

Shown == {p \in pairing : ~p.hidden}
\* Keys of the view: no box is open.  A pairing that is hidden goes on.
Free == scan = {} /\ Shown = {} /\ conn # Quit
InScan == Shown = {} /\ scan # {} /\ conn # Quit
KeyOnly == UNCHANGED <<conn, down, tasks>>

\* n: not while a pairing is under way.
start_scan ==
  /\ Free /\ pairing = {} /\ Spend("scans")
  /\ act({NewScan(FALSE)}, pairing, "scan", 0) /\ KeyOnly

\* p on a TNC that isn't paired looks for it, and pairs when it turns up.
pair_tnc ==
  /\ Free /\ pairing = {} /\ Spend("scans")
  /\ act({NewScan(TRUE)}, pairing, "scan", 0) /\ KeyOnly

\* The scan holds the adapter until it ends: Enter stops it, and the answer starts the pairing.
scan_enter ==
  /\ InScan /\ KeyOnly
  /\ \E s \in scan : \E d \in s.devices :
       /\ ~s.target
       /\ \/ s.over /\ act({}, {NewPairing}, "pair", 0) /\ UNCHANGED used
          \/ ~s.over /\ s.pair = {} /\ Spend("stops") /\ act({[s EXCEPT !.pair = {d}]}, pairing, "stop", s.req)

scan_esc ==
  /\ InScan /\ KeyOnly
  /\ \E s \in scan :
       \/ s.over /\ Show({}, pairing) /\ UNCHANGED used
       \/ ~s.over /\ Spend("escs") /\ act({}, pairing, "stop", s.req)

scan_again ==
  /\ InScan /\ KeyOnly /\ Spend("scans")
  /\ \E s \in scan : s.over /\ act({NewScan(s.target)}, pairing, "scan", 0)

\* a in the box of a scan hands the device to setup: the scan's box goes.
set_up ==
  /\ InScan /\ Spend("handoffs") /\ Drop
  /\ \E s \in scan : ~s.target /\ s.devices # {}
  /\ scan' = {} /\ UNCHANGED <<pairing, tasks>>

\* E and C step aside for edit, with the connection dropped and the boxes as they are.
hand_off ==
  /\ Free /\ Spend("handoffs") /\ Drop
  /\ UNCHANGED <<scan, pairing, tasks>>

\* A pairing that has ended is closed; Esc hides one that asks nothing; a prompt is answered,
\* y or n or with what was typed, once.
pairing_key ==
  /\ conn # Quit /\ KeyOnly /\ UNCHANGED used
  /\ \E p \in Shown :
       \/ p.end /\ Show(scan, {})
       \/ ~p.end /\ ~p.ask /\ Show(scan, {[p EXCEPT !.hidden = TRUE]})
       \/ /\ ~p.end /\ p.ask /\ p.req # 0
          /\ act(scan, {[p EXCEPT !.ask = FALSE]}, "reply", p.req)

quit == Free /\ conn' = Quit /\ pending' = {} /\ up' = <<>> /\ down' = <<>> /\ UNCHANGED <<scan, pairing, next, tasks, used>>

------------------------------------------------------------------------------
\* What the daemon sends.

Take(kind) == Up /\ down # <<>> /\ Head(down).kind = kind /\ down' = Tail(down) /\ UNCHANGED <<conn, tasks, used>>

\* A device is found: the one that p waits for stops the scan.
found ==
  /\ Take("found")
  /\ LET m == Head(down)
         mine == {s \in scan : s.req = m.id}
         Seen(s) == [s EXCEPT !.devices = @ \cup m.devs]
         Hit(s) == s.target /\ m.devs = {Wanted} /\ ~s.over /\ s.pair = {}
     IN  \/ mine = {} /\ Show(scan, pairing)
         \/ \E s \in mine : ~Hit(s) /\ Show({Seen(s)}, pairing)
         \/ \E s \in mine : Hit(s) /\ act({[Seen(s) EXCEPT !.pair = m.devs]}, pairing, "stop", s.req)

\* A prompt for the pairing brings it back if it is hidden.
pairing_step ==
  /\ Take("ask")
  /\ Show(scan, {IF p.req = Head(down).id THEN [p EXCEPT !.ask = TRUE, !.hidden = FALSE] ELSE p : p \in pairing})

\* Any answer to a scan ends the scan in the box, and starts the pairing that waits for it.
scanned(m) ==
  LET over(s) == [s EXCEPT !.over = TRUE, !.pair = {}, !.failed = ~m.ok \/ s.target,
                           !.devices = IF m.ok THEN m.devs ELSE @]
      rest == {[id |-> m.id, then |-> "scan"]}
      PairNext == /\ scan' = {} /\ pairing' = {[NewPairing EXCEPT !.req = next]} /\ next' = next + 1
                  /\ up' = Append(up, [id |-> next, what |-> "pair", of |-> 0])
                  /\ pending' = (pending \ rest) \cup {[id |-> next, then |-> "pair"]}
  IN  IF \E s \in scan : m.ok /\ s.pair # {} THEN PairNext
      ELSE /\ scan' = {over(s) : s \in scan} /\ pending' = pending \ rest /\ UNCHANGED <<pairing, up, next>>

\* The answer ends the pairing in the box; a hidden one says so on the message line.
paired(m) ==
  /\ pairing' = {[p EXCEPT !.ask = FALSE, !.end = TRUE] : p \in Shown}
  /\ pending' = pending \ {[id |-> m.id, then |-> "pair"]} /\ UNCHANGED <<scan, up, next>>

on_answer ==
  /\ Take("answer")
  /\ LET m == Head(down) IN \E w \in pending :
       /\ w.id = m.id
       /\ \/ w.then = "scan" /\ scanned(m)
          \/ w.then = "pair" /\ paired(m)
          \/ w.then \in {"stop", "reply"} /\ pending' = pending \ {w} /\ UNCHANGED <<scan, pairing, up, next>>

------------------------------------------------------------------------------
\* The daemon.

Tui == UNCHANGED <<scan, pairing, conn, pending, next, used>>
Tell(m) == down' = Append(down, m)
Mine(t) == t.conn = conn
NewTask(c) == [conn |-> conn, id |-> c.id, kind |-> c.what, stop |-> FALSE, ask |-> FALSE, asks |-> 0, found |-> {}, run |-> TRUE]

\* A task that was spawned and may not have run yet.
Spawned(t) == t.run /\ ~t.stop /\ t.asks = 0 /\ t.found = {}

\* It handles the commands in order.  A scan and a pairing are refused while the adapter is held, or
\* with no adapter.  Of two that are spawned one after the other either may get to hold it, and a
\* scan that doesn't hold it yet can't be stopped.
Handle ==
  /\ Up /\ up # <<>> /\ up' = Tail(up) /\ Tui
  /\ LET c == Head(up)
         for == {t \in tasks : Mine(t) /\ t.run /\ t.id = c.of}
         Ack == Tell(Answer(c.id, for # {}, {}))
     IN  \/ c.what \in {"scan", "pair"} /\ tasks = {} /\ tasks' = {NewTask(c)} /\ UNCHANGED down
         \/ c.what \in {"scan", "pair"} /\ Tell(Answer(c.id, FALSE, {})) /\ UNCHANGED tasks
         \/ /\ c.what \in {"scan", "pair"} /\ tasks' = {NewTask(c)}
            /\ \E t \in tasks : Spawned(t) /\ IF Mine(t) THEN Tell(Answer(t.id, FALSE, {})) ELSE UNCHANGED down
         \/ c.what = "stop" /\ Ack /\ tasks' = {IF t \in for THEN [t EXCEPT !.stop = TRUE] ELSE t : t \in tasks}
         \/ c.what = "stop" /\ (\E t \in for : Spawned(t)) /\ Tell(Answer(c.id, FALSE, {})) /\ UNCHANGED tasks
         \/ c.what = "reply" /\ Ack /\ tasks' = {IF t \in for THEN [t EXCEPT !.ask = FALSE] ELSE t : t \in tasks}

\* A device is found; the event is dropped when the connection's queue is full.
Find(t, d) ==
  /\ Up /\ Mine(t) /\ t.kind = "scan" /\ t.run /\ ~t.stop /\ d \notin t.found
  /\ Tell([kind |-> "found", id |-> t.id, ok |-> TRUE, devs |-> {d}]) \/ UNCHANGED down
  /\ tasks' = {[t EXCEPT !.found = @ \cup {d}]} /\ UNCHANGED up /\ Tui

\* A step of the pairing that needs an answer.
Ask(t) ==
  /\ Up /\ Mine(t) /\ t.kind = "pair" /\ t.run /\ ~t.ask /\ t.asks < MaxAsks
  /\ Tell([kind |-> "ask", id |-> t.id, ok |-> TRUE, devs |-> {}])
  /\ tasks' = {[t EXCEPT !.ask = TRUE, !.asks = @ + 1]} /\ UNCHANGED up /\ Tui

\* A scan ends when it is stopped or its time is up, a pairing when BlueZ or its time says so;
\* either may fail.
Ends(t) ==
  /\ t.run /\ tasks' = {[t EXCEPT !.run = FALSE]} /\ UNCHANGED up /\ Tui
  /\ IF Up /\ Mine(t) THEN \E ok \in BOOLEAN : Tell(Answer(t.id, ok, t.found))
                      ELSE UNCHANGED down

\* The adapter is let go of after the answer.
Release(t) == ~t.run /\ tasks' = {} /\ UNCHANGED <<up, down>> /\ Tui

Init ==
  /\ scan = {} /\ pairing = {} /\ conn = 0 /\ pending = {} /\ next = 1 /\ up = <<>> /\ down = <<>> /\ tasks = {}
  /\ used = [w \in DOMAIN Budget |-> 0]

Daemon == Handle \/ \E t \in tasks : Ends(t) \/ Release(t)
Reads == found \/ pairing_step \/ on_answer

Next ==
  \/ Open \/ Lost \/ start_scan \/ pair_tnc
  \/ scan_enter \/ scan_esc \/ scan_again \/ set_up \/ hand_off \/ pairing_key \/ quit
  \/ found \/ pairing_step \/ on_answer
  \/ Handle \/ \E t \in tasks : Ends(t) \/ Release(t) \/ Ask(t) \/ \E d \in Devices : Find(t, d)

Spec == Init /\ [][Next]_vars
\* The TUI connects and reads, and the daemon works; nobody has to press a key.
LiveSpec == Spec /\ WF_vars(Open) /\ WF_vars(Reads) /\ WF_vars(Daemon)

------------------------------------------------------------------------------
\* A scan and a pairing come to an end that is shown, also a hidden one: "It goes on, comes
\* back if it needs an answer, and says how it ended on the message line".  A hand-off drops
\* the connection and leaves the pairing as it is, without the answer that would end it.
UnderWayEnds ==
  /\ []<>(conn = Quit \/ used.handoffs > 0 \/ \A p \in pairing : p.end)
  /\ []<>(conn = Quit \/ \A s \in scan : s.over)
====
