----------------------------- MODULE BleServer -----------------------------
(***************************************************************************)
(* port/ble_server.rs: a port that serves phones over BLE.                 *)
(*                                                                         *)
(* One loop owns the clients and the advertisement. Around it run, for     *)
(* each session, the tasks that report its end (the phone's reader and     *)
(* writer, the wait for its link to drop, the wait for its kick) and, for  *)
(* each phone served, one that watches its link. All report through one    *)
(* bounded channel, and a report may be taken long after it was made: when *)
(* the phone is back with another session, or another link. The daemon may *)
(* be killed at any time; phones then stay connected to a service that is  *)
(* gone, until the next run drops those that the last one listed.          *)
(***************************************************************************)
EXTENDS Integers, FiniteSets, Sequences

CONSTANTS
  Phones,
  Limits,        \* values of max_clients
  EventQueue,    \* capacity of the port's event channel
  Bounds         \* the phones that come; max_clients at first; how many sessions start, how often they connect,
                 \* and are forgotten; and how often what is odd happens: streams that stop,
                 \* advertisements that BlueZ refuses, kicks, changes of max_clients and
                 \* names, stops and kills

VARIABLES
  pc,        \* "starting", "run", "opening" (a session), "stopped", "failed", "killed"
  port,      \* the loop's variables: clients, generation, max, watched, adv, refresh_at, state
  opening,   \* the request whose session is being opened, while that waits for the bridge
  file,      \* the list of phones in the runtime directory
  evq,       \* the event channel
  tasks,     \* the tasks of sessions: [kind, addr, gen, ended]
  watchers,  \* the tasks that watch links: [on, up, news], news being events not seen yet
  asks,      \* Write and Notify requests that the port hasn't taken
  link,      \* the phones connected
  dropping,  \* the phones whose links BlueZ was asked to drop
  told,      \* sessions opened less sessions closed, as the bridge was told
  stranded,  \* history: phones served by a run that was killed, and connected since
  unlisted,  \* history: those whose session was being opened
  deaf,      \* history: phones let in over their current link
  used

vars == <<pc, port, opening, file, evq, tasks, watchers, asks, link, dropping, told, stranded, unlisted, deaf, used>>

None == "none"
NoRequest == [kind |-> None, addr |-> None]
NoWatcher == [on |-> FALSE, up |-> FALSE, news |-> <<>>]
Clients == DOMAIN port.clients
Full(p) == Cardinality(DOMAIN p.clients) >= p.max

\* The budgets of the environment.
Odd == used.odd < used.bound.odd
Spend == Odd /\ used' = [used EXCEPT !.odd = @ + 1]

------------------------------------------------------------------------------
(* Advertising. BlueZ may refuse.                                          *)

\* What may come of registering an advertisement.
Outcomes == IF Odd THEN BOOLEAN ELSE {TRUE}

\* A registration that resumes advertising, in four branches of the loop.
resume(p, ok) == IF ok THEN [p EXCEPT !.adv = TRUE, !.state = "advertising"] ELSE p

\* One that replaces what there is; if it's refused the old one stays.
Tried(ok) == used' = IF ok THEN used ELSE [used EXCEPT !.odd = @ + 1]

Untried == UNCHANGED used

withdraw(p) == IF p.adv THEN [p EXCEPT !.adv = FALSE, !.state = "full"] ELSE p

------------------------------------------------------------------------------
(* The loop.                                                               *)

\* Asking BlueZ to drop links: it does, sooner or later.
disconnect(ps) == dropping' = dropping \cup (ps \cap link)

Here == pc = "run"

MaxChanged(m) ==
  /\ Here /\ m # port.max /\ Odd
  /\ LET p == [port EXCEPT !.max = m]
     IN  IF Full(p)
         THEN port' = withdraw(p)
         ELSE IF p.adv \/ p.refresh_at
         THEN port' = p
         ELSE \E ok \in Outcomes : port' = resume(p, ok)
  /\ used' = [used EXCEPT !.odd = @ + 1]
  /\ UNCHANGED <<pc, opening, file, evq, tasks, watchers, asks, link, dropping, told, stranded, unlisted, deaf>>

\* ADV_ROTATION_WAIT after a link dropped.
Refresh ==
  /\ Here /\ port.refresh_at
  /\ LET p == [port EXCEPT !.refresh_at = FALSE]
     IN  IF Full(p)
         THEN port' = [p EXCEPT !.state = "full"] /\ Untried
         ELSE \E ok \in Outcomes : port' = resume(p, ok) /\ Tried(ok)
  /\ UNCHANGED <<pc, opening, file, evq, tasks, watchers, asks, link, dropping, told, stranded, unlisted, deaf>>

\* The alias follows the name; an advertisement there is restarts with it.
NameChanged ==
  /\ Here /\ port.adv /\ Odd
  /\ \E ok \in Outcomes : port' = [port EXCEPT !.adv = ok]
  /\ used' = [used EXCEPT !.odd = @ + 1]
  /\ UNCHANGED <<pc, opening, file, evq, tasks, watchers, asks, link, dropping, told, stranded, unlisted, deaf>>

------------------------------------------------------------------------------
(* Requests of phones.                                                     *)

record_clients(p) == file' = DOMAIN p.clients

admit(a) == a \in Clients \/ ~Full(port)

Refuse(r) ==
  /\ Here /\ r \in asks /\ ~admit(r.addr)
  /\ asks' = asks \ {r} /\ disconnect({r.addr})
  /\ UNCHANGED <<pc, port, opening, file, evq, tasks, watchers, link, told, stranded, unlisted, deaf, used>>

Task(kind, a, g, ended) == [kind |-> kind, addr |-> a, gen |-> g, ended |-> ended]

next_generation == port.generation + 1

\* ensure_client for a phone without a session, up to the SessionOpened: with
\* the bridge's queue full that waits, and the loop with it.
EnsureClient(r) ==
  /\ Here /\ r \in asks /\ admit(r.addr) /\ r.addr \notin Clients
  /\ port.generation < used.bound.sessions
  /\ port' = [port EXCEPT !.generation = next_generation,
                          !.clients = [x \in Clients \cup {r.addr} |->
                             IF x = r.addr THEN [gen |-> next_generation, kicked |-> FALSE, writer |-> FALSE]
                             ELSE port.clients[x]]]
  /\ opening' = r /\ pc' = "opening"
  /\ asks' = asks \ {r}
  /\ UNCHANGED <<file, evq, tasks, watchers, link, dropping, told, stranded, unlisted, deaf, used>>

\* The streams that a request starts, and what it is to the advertisement. A
\* phone that writes gets a reader each time; one that subscribes gets the
\* session's only writer, and withdraws the advertisement at max_clients.
\* `new` tasks wait for the kick and for the link to drop.
attach(r, known, new) ==
  LET a == r.addr
      g == port.clients[a].gen
      gone == a \notin link
      writes == r.kind = "write"
      first == ~writes /\ ~port.clients[a].writer
      p == IF first THEN [port EXCEPT !.clients[a].writer = TRUE] ELSE port
  IN  /\ tasks' = tasks \cup new \cup (IF writes THEN {Task("reader", a, g, gone)} ELSE {})
                                 \cup (IF first THEN {Task("writer", a, g, gone)} ELSE {})
      /\ IF ~writes /\ Full(p) THEN port' = withdraw(p) /\ Untried
         ELSE IF known \/ Full(p) \/ ~p.adv THEN port' = p /\ Untried
         ELSE port' = p /\ \E ok \in Outcomes :
                 used' = [used EXCEPT !.odd = IF ok THEN @ ELSE @ + 1]
      /\ record_clients(p)
      /\ deaf' = IF gone THEN deaf ELSE deaf \cup {a}

Opened ==
  /\ pc = "opening"
  /\ LET a == opening.addr
         g == port.clients[a].gen
     IN  /\ told' = [told EXCEPT ![a] = @ + 1]
         /\ attach(opening, FALSE, {Task("kick", a, g, FALSE), Task("link", a, g, FALSE)})
  /\ pc' = "run" /\ opening' = NoRequest
  /\ UNCHANGED <<evq, watchers, asks, link, dropping, stranded, unlisted>>

\* A request of a phone that has a session.
Request(r) ==
  /\ Here /\ r \in asks /\ r.addr \in Clients
  /\ asks' = asks \ {r}
  /\ attach(r, TRUE, {})
  /\ UNCHANGED <<pc, opening, evq, watchers, link, dropping, told, stranded, unlisted>>

------------------------------------------------------------------------------
(* Reports.                                                                *)

\* Variant with a defect: a report isn't compared with the session there is.
current_not(e) == TRUE

\* Whether a report is about the session that there is now.
current(e) == e.addr \in Clients /\ port.clients[e.addr].gen = e.gen

Take(kinds) == Here /\ evq # <<>> /\ Head(evq).kind \in kinds /\ evq' = Tail(evq)

Stale ==
  /\ Take({"Gone", "Kicked"}) /\ ~current(Head(evq))
  /\ UNCHANGED <<pc, port, opening, file, tasks, watchers, asks, link, dropping, told, stranded, unlisted, deaf, used>>

\* Start watching a link.
watch(a) == watchers' = [watchers EXCEPT ![a] = [on |-> TRUE, up |-> a \in link, news |-> <<>>]]

\* Gone or Kicked, of the current session. Its kick task has been released,
\* and reports too; its writer ends as the bridge drops the session.
SessionEnds ==
  /\ Take({"Gone", "Kicked"}) /\ current(Head(evq))
  /\ LET e == Head(evq)
         a == e.addr
         rest == [x \in Clients \ {a} |-> port.clients[x]]
         p == [port EXCEPT !.clients = rest, !.watched = @ \cup {a}]
     IN  /\ disconnect(IF e.kind = "Kicked" THEN {a} ELSE {})
         /\ tasks' = {IF t.kind = "kick" /\ t.addr = a /\ t.gen = e.gen THEN [t EXCEPT !.ended = TRUE] ELSE t :
                       t \in {u \in tasks : u.kind # "writer" \/ u.addr # a \/ u.ended}}
         /\ record_clients(p)
         /\ told' = [told EXCEPT ![a] = @ - 1]
         /\ IF a \in port.watched THEN UNCHANGED watchers ELSE watch(a)
         /\ IF ~Full(p) /\ ~p.adv /\ ~p.refresh_at
            THEN \E ok \in Outcomes : port' = resume(p, ok) /\ Tried(ok)
            ELSE port' = p /\ Untried
  /\ UNCHANGED <<pc, opening, asks, link, stranded, unlisted, deaf>>

Unwatched ==
  /\ Take({"Unwatched"})
  /\ port' = [port EXCEPT !.watched = @ \ {Head(evq).addr}]
  /\ UNCHANGED <<pc, opening, file, tasks, watchers, asks, link, dropping, told, stranded, unlisted, deaf, used>>

\* Variant with a defect: phones without a session are left connected.
Check_not ==
  /\ Take({"Check"})
  /\ UNCHANGED <<pc, port, opening, file, tasks, watchers, asks, link, dropping, told, stranded, unlisted, deaf, used>>

\* A phone connected for LINK_GRACE with no session is dropped.
Check ==
  /\ Take({"Check"})
  /\ disconnect({Head(evq).addr} \ Clients)
  /\ UNCHANGED <<pc, port, opening, file, tasks, watchers, asks, link, told, stranded, unlisted, deaf, used>>

LinkDown ==
  /\ Take({"LinkDown"})
  /\ port' = [port EXCEPT !.adv = FALSE, !.refresh_at = TRUE]
  /\ UNCHANGED <<pc, opening, file, tasks, watchers, asks, link, dropping, told, stranded, unlisted, deaf, used>>

------------------------------------------------------------------------------
(* The tasks around the loop: they wait while the channel is full.         *)

Room == Len(evq) < EventQueue /\ pc \in {"run", "opening"}

Report(t) ==
  /\ Room /\ t \in tasks /\ t.ended
  /\ evq' = Append(evq, [kind |-> IF t.kind = "kick" THEN "Kicked" ELSE "Gone", addr |-> t.addr, gen |-> t.gen])
  /\ tasks' = tasks \ {t}
  /\ UNCHANGED <<pc, port, opening, file, watchers, asks, link, dropping, told, stranded, unlisted, deaf, used>>

\* A phone stops writing or unsubscribes, or a notification times out.
StreamStops(t) ==
  /\ t \in tasks /\ t.kind \in {"reader", "writer"} /\ ~t.ended /\ Spend
  /\ tasks' = (tasks \ {t}) \cup {[t EXCEPT !.ended = TRUE]}
  /\ UNCHANGED <<pc, port, opening, file, evq, watchers, asks, link, dropping, told, stranded, unlisted, deaf>>

\* An event of a device reaches its watcher, until BlueZ has forgotten that device.
Follows(a) == watchers[a].on /\ \A k \in DOMAIN watchers[a].news : watchers[a].news[k] # "forgotten"

News(a, n) ==
  watchers' = IF Follows(a) THEN [watchers EXCEPT ![a].news = Append(@, n)] ELSE watchers

\* link_checks takes the next event: a link that dropped is reported, and so is the watcher's
\* end with its device.
WatcherSees(a) ==
  /\ watchers[a].news # <<>>
  /\ LET n == Head(watchers[a].news)
         report == IF n = "forgotten" THEN {"Unwatched"}
                   ELSE IF n = "down" /\ watchers[a].up THEN {"LinkDown"} ELSE {}
     IN  /\ report # {} => Room
         /\ IF report = {} THEN UNCHANGED evq
            ELSE \E kind \in report : evq' = Append(evq, [kind |-> kind, addr |-> a, gen |-> 0])
         /\ watchers' = [watchers EXCEPT ![a] =
                            IF n = "forgotten" THEN NoWatcher
                            ELSE [on |-> TRUE, up |-> n = "up", news |-> Tail(@.news)]]
  /\ UNCHANGED <<pc, port, opening, file, tasks, asks, link, dropping, told, stranded, unlisted, deaf, used>>

\* LINK_GRACE passes. The bound on checks in the channel keeps it finite.
WatcherChecks(a) ==
  /\ watchers[a].up /\ watchers[a].news = <<>> /\ Room
  /\ \A k \in DOMAIN evq : evq[k] # [kind |-> "Check", addr |-> a, gen |-> 0]
  /\ evq' = Append(evq, [kind |-> "Check", addr |-> a, gen |-> 0])
  /\ UNCHANGED <<pc, port, opening, file, tasks, watchers, asks, link, dropping, told, stranded, unlisted, deaf, used>>

------------------------------------------------------------------------------
(* Phones and BlueZ.                                                       *)

PhoneConnects(a) ==
  /\ a \in used.bound.phones \ link /\ pc # "starting" /\ used.links < used.bound.links /\ used' = [used EXCEPT !.links = @ + 1]
  /\ link' = link \cup {a} /\ News(a, "up")
  /\ UNCHANGED <<pc, port, opening, file, evq, tasks, asks, dropping, told, stranded, unlisted, deaf>>

PhoneAsks(a, kind) ==
  /\ a \in link /\ pc \in {"run", "opening"} /\ a \notin dropping
  /\ [kind |-> kind, addr |-> a] \notin asks
  /\ ~\E t \in tasks : t.kind = (IF kind = "write" THEN "reader" ELSE "writer") /\ t.addr = a /\ ~t.ended
  /\ port.generation < used.bound.sessions
  /\ asks' = asks \cup {[kind |-> kind, addr |-> a]}
  /\ UNCHANGED <<pc, port, opening, file, evq, tasks, watchers, link, dropping, told, stranded, unlisted, deaf, used>>

LinkDrops(a) ==
  /\ a \in link
  /\ link' = link \ {a} /\ dropping' = dropping \ {a}
  /\ tasks' = {IF t.addr = a /\ t.kind # "kick" THEN [t EXCEPT !.ended = TRUE] ELSE t : t \in tasks}
  /\ News(a, "down")
  /\ stranded' = stranded \ {a} /\ deaf' = deaf \ {a}
  /\ UNCHANGED <<pc, port, opening, file, evq, asks, told, unlisted, used>>

\* BlueZ does as asked.
Dropped(a) == a \in dropping /\ LinkDrops(a)

\* BlueZ forgets a device that isn't connected, which ends the events of its watcher.
Forgets(a) ==
  /\ a \notin link /\ Follows(a)
  /\ a \notin used.forgot /\ Cardinality(used.forgot) < used.bound.forgets
  /\ News(a, "forgotten")
  /\ used' = [used EXCEPT !.forgot = @ \cup {a}]
  /\ UNCHANGED <<pc, port, opening, file, evq, tasks, asks, link, dropping, told, stranded, unlisted, deaf>>

\* The supervisor cancels a session's kick token.
Kicks(a) ==
  /\ pc = "run" /\ a \in Clients /\ ~port.clients[a].kicked /\ Spend
  /\ port' = [port EXCEPT !.clients[a].kicked = TRUE]
  /\ tasks' = {IF t.addr = a /\ t.kind = "kick" /\ t.gen = port.clients[a].gen
               THEN [t EXCEPT !.ended = TRUE] ELSE t : t \in tasks}
  /\ UNCHANGED <<pc, opening, file, evq, watchers, asks, link, dropping, told, stranded, unlisted, deaf>>

------------------------------------------------------------------------------
(* The life of a run.                                                      *)

Fresh == [clients |-> [a \in {} |-> None], generation |-> 0, max |-> port.max, watched |-> {},
          adv |-> TRUE, refresh_at |-> FALSE, state |-> "advertising"]

\* Variant with a defect: the list isn't read.
drop_stale_not == UNCHANGED dropping /\ file' = {}

\* Drop the phones that the list names and that are connected.
drop_stale == disconnect(file) /\ file' = {}

\* prepare, drop_stale, the GATT service and the advertisement.
Start ==
  /\ pc = "starting" /\ pc' = "run"
  /\ drop_stale
  /\ port' = Fresh
  /\ UNCHANGED <<opening, evq, tasks, watchers, asks, link, told, stranded, unlisted, deaf, used>>

\* It fails to, before the list is read or after.
StartFails ==
  /\ pc = "starting" /\ pc' = "failed" /\ Spend
  /\ drop_stale \/ UNCHANGED <<file, dropping>>
  /\ UNCHANGED <<port, opening, evq, tasks, watchers, asks, link, told, stranded, unlisted, deaf>>

\* What ends with a run, however it ends.
Gone ==
  /\ evq' = <<>> /\ tasks' = {} /\ asks' = {} /\ opening' = NoRequest
  /\ watchers' = [a \in Phones |-> NoWatcher] /\ deaf' = {}

\* The shutdown token, or the end of BlueZ's control streams: phones are dropped, the list is removed, and the bridge
\* is told of each session.
Stop ==
  /\ Here /\ Spend
  /\ disconnect(Clients) /\ file' = {}
  /\ told' = [a \in Phones |-> IF a \in Clients THEN told[a] - 1 ELSE told[a]]
  /\ port' = [Fresh EXCEPT !.adv = FALSE, !.state = "stopped"]
  /\ pc' = "stopped" /\ Gone
  /\ UNCHANGED <<link, stranded, unlisted>>

\* The daemon is killed: the bridge goes with it, links and the list stay.
Kill ==
  /\ pc \in {"run", "opening"} /\ Spend
  /\ stranded' = Clients \cap link /\ unlisted' = {opening.addr} \cap Clients
  /\ told' = [a \in Phones |-> 0]
  /\ port' = [Fresh EXCEPT !.adv = FALSE, !.state = "stopped"]
  /\ pc' = "killed" /\ Gone
  /\ UNCHANGED <<file, link, dropping>>

StartAgain ==
  /\ pc \in {"stopped", "failed", "killed"} /\ pc' = "starting"
  /\ UNCHANGED <<port, opening, file, evq, tasks, watchers, asks, link, dropping, told, stranded, unlisted, deaf, used>>

Init ==
  /\ pc = "starting" /\ opening = NoRequest /\ file = {} /\ evq = <<>> /\ tasks = {}
  /\ watchers = [a \in Phones |-> NoWatcher] /\ asks = {} /\ link = {} /\ dropping = {}
  /\ told = [a \in Phones |-> 0] /\ stranded = {} /\ unlisted = {} /\ deaf = {}
  /\ \E b \in Bounds :
       /\ used = [links |-> 0, odd |-> 0, forgot |-> {}, bound |-> b]
       /\ port = [clients |-> [a \in {} |-> None], generation |-> 0, max |-> b.max, watched |-> {},
                  adv |-> FALSE, refresh_at |-> FALSE, state |-> "starting"]

TakeEvent == Stale \/ SessionEnds \/ Unwatched \/ Check \/ LinkDown

TakeRequest == \E r \in asks : Refuse(r) \/ EnsureClient(r) \/ Request(r)

TasksGo == (\E t \in tasks : Report(t)) \/ (\E a \in Phones : WatcherSees(a))

Next ==
  \/ TakeEvent \/ TakeRequest \/ Opened \/ Refresh \/ NameChanged
  \/ TasksGo \/ Start \/ StartFails \/ Stop \/ Kill \/ StartAgain
  \/ \E m \in Limits : MaxChanged(m)
  \/ \E t \in tasks : StreamStops(t)
  \/ \E a \in Phones :
       \/ PhoneConnects(a) \/ LinkDrops(a) \/ Forgets(a) \/ Kicks(a) \/ WatcherChecks(a)
       \/ \E kind \in {"write", "notify"} : PhoneAsks(a, kind)

Spec == Init /\ [][Next]_vars

\* The loop's branches and the tasks go on, timers run out, the bridge takes
\* its events, and BlueZ drops the links that it's asked to.
Fairness ==
  /\ WF_vars(TakeEvent) /\ WF_vars(Opened) /\ WF_vars(Refresh) /\ WF_vars(TasksGo) /\ WF_vars(Start)
  /\ \A a \in Phones : WF_vars(WatcherChecks(a)) /\ WF_vars(Dropped(a))

LiveSpec == Spec /\ Fairness

------------------------------------------------------------------------------

\* Whatever reports come late, the bridge has been told of exactly the sessions
\* that the port has: each opens and closes once, in turn (the loop's check of
\* a report's generation).
SessionsAgree ==
  \A a \in Phones : told[a] = IF a \in Clients \ {opening.addr} THEN 1 ELSE 0

\* Once a run has started, it has asked to drop every phone that a killed run
\* served, and that has stayed connected (record_clients and drop_stale).
StaleDropped == pc = "run" => stranded \ unlisted \subseteq dropping

\* A phone that was let in doesn't stay connected without a session: one it
\* lost to a late report, or let go of, is given back or its link is dropped
\* (watch_link and Check).  Left out is a phone that BlueZ had forgotten between two links, and
\* that the port no longer counts as watched.
WatchedPhonesHeard ==
  \A a \in Phones : []<>(a \in deaf => a \in Clients \/ (a \in used.forgot /\ a \notin port.watched))

=============================================================================
