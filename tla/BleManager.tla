----------------------------- MODULE BleManager -----------------------------
(***************************************************************************)
(* The task that runs ble-server ports on their adapters (mod ble of       *)
(* supervisor.rs): it starts a port when its adapter is there, stops it    *)
(* when the adapter is unplugged or powered off, and follows an adapter's  *)
(* power through a monitor task per adapter.  What a port does once it     *)
(* runs is module BleServer; here an instance of a port only starts,       *)
(* powering its adapter on, serves, fails and ends.                        *)
(*                                                                         *)
(* BlueZ lists adapters by name; a name is reused once its adapter is      *)
(* unplugged, so an adapter has a name and a MAC, and a selector names one *)
(* by either or takes the first.                                           *)
(***************************************************************************)
EXTENDS Naturals, Sequences, FiniteSets, SequencesExt

CONSTANTS
  Names,        \* adapter names in BlueZ's order: a sequence
  Macs,         \* the adapters of the host
  Slots,        \* the ble-server ports that the supervisor may add
  Selector,     \* the adapter that each selects
  Bounds        \* how often the host's adapters change, and how many commands come

VARIABLES
  host,      \* for each name with an adapter: its MAC and whether it is powered
  slots,     \* for each port added: its place in the list, the instance that runs, last_adapter, seen_off
  ending,    \* the instances whose token is cancelled and that haven't ended
  monitors,  \* the names with an entry in the table of monitors
  watching,  \* for each name: the live monitor tasks of the adapter now there
  events,    \* the channel from the monitors and the session to the manager
  look,      \* what a reconcile has read: the adapters listed, those left to ask, those that answered
  pc,        \* "reconcile" before each wait, "look" within it, "wait", "stopped" or "panicked"
  removing,  \* whether a Remove waits for an instance to end
  used

vars == <<host, slots, ending, monitors, watching, events, look, pc, removing, used>>
hostVars == <<host, watching>>

Present == DOMAIN host
None == "none"
Nothing == [n \in {} |-> None]
NoLook == [names |-> Nothing, left |-> {}, present |-> Nothing]

\* No instance, and an instance as it is spawned.
Idle == [state |-> None]
Spawn(s, n) == [state |-> "starting", slot |-> s, name |-> n, mac |-> look.present[n].mac]

\* What BlueZ fails to do though the adapter is there.
Fails == used.fails < used.bound.fails /\ used' = [used EXCEPT !.fails = @ + 1]

------------------------------------------------------------------------------
(* reconcile asks BlueZ for the adapters' names, then each for its address *)
(* and power, and an adapter may come or go between two answers.           *)

First(ns) == LET here == SelectSeq(Names, LAMBDA n : n \in ns) IN IF here = <<>> THEN None ELSE Head(here)

\* Where the adapter that a port selects is, of those that are listed and those that answered.
\* The first one and one given by name are looked for in the list.
selected(s, names, present) ==
  LET sel == Selector[s]
  IN  CASE sel[1] = "default" -> First(names)
        [] sel[1] = "hci" -> First({sel[2]} \cap names)
        [] OTHER -> First({n \in DOMAIN present : present[n].mac = sel[2]})

want(s) == selected(s, DOMAIN look.names, look.present)

Runs(s) == slots[s].running.state # None
Finished(s) == slots[s].running.state = "failed"

still_right(s) == Runs(s) /\ ~Finished(s) /\ slots[s].running.name = want(s) /\ want(s) \in DOMAIN look.present

\* Variant with a defect: a port that saw its adapter off waits for that one.
may_start_not_seen_off(s) == want(s) \in DOMAIN look.present /\ ~slots[s].seen_off

may_start(s) == want(s) \in DOMAIN look.present /\ (look.present[want(s)].powered \/ ~slots[s].seen_off)

\* present[&name] is indexed with a name that may be listed only.
panics(s) == want(s) # None /\ want(s) \notin DOMAIN look.present

\* Cancelling the instances of some slots: one that hasn't ended yet will.
cancel(ss) == ending' = ending \cup {slots[s].running : s \in {t \in ss : Runs(t) /\ ~Finished(t)}}

\* adapter_names; if BlueZ can't say, there are none.
ListAdapters ==
  /\ pc = "reconcile" /\ pc' = "look"
  /\ \/ look' = [names |-> [n \in Present |-> host[n].mac], left |-> Present, present |-> Nothing] /\ UNCHANGED used
     \/ look' = NoLook /\ Fails
  /\ UNCHANGED <<host, slots, ending, monitors, watching, events, removing>>

\* The next adapter's address and power; one that answers gets a monitor if it has none. One
\* that is gone by now may have told its address before, and then counts as off.
AskAdapter ==
  /\ pc = "look" /\ look.left # {}
  /\ LET n == First(look.left)
         Answers(p) ==
           /\ look' = [look EXCEPT !.left = @ \ {n}, !.present = [x \in DOMAIN @ \cup {n} |-> IF x = n THEN p ELSE @[x]]]
           /\ monitors' = monitors \cup {n}
           /\ watching' = IF n \in Present \ monitors THEN [watching EXCEPT ![n] = @ + 1] ELSE watching
     IN  IF n \in Present THEN Answers(host[n])
         ELSE \/ Answers([mac |-> look.names[n], powered |-> FALSE])
              \/ /\ look' = [look EXCEPT !.left = @ \ {n}]
                 /\ UNCHANGED <<monitors, watching>>
  /\ UNCHANGED <<host, slots, ending, events, pc, removing, used>>

\* The rest of reconcile: drop the monitors of adapters that didn't answer; then, port by
\* port, stop one that runs on the wrong adapter or has ended, and start one that can run.  The
\* first port whose adapter was listed and didn't answer panics, and the manager's task ends.
Settle ==
  /\ pc = "look" /\ look.left = {}
  /\ monitors' = monitors \cap DOMAIN look.present
  /\ LET bad == {s \in DOMAIN slots : panics(s)}
         turn == {s \in DOMAIN slots : \A t \in bad : slots[s].nr <= slots[t].nr}
         wrong == {s \in turn : Runs(s) /\ ~still_right(s)}
         start == {s \in turn : (~Runs(s) \/ s \in wrong) /\ may_start(s)}
     IN  /\ cancel(wrong)
         /\ slots' = [s \in DOMAIN slots |->
                        [slots[s] EXCEPT !.running = CASE s \in start -> Spawn(s, want(s))
                                                       [] s \in wrong -> Idle
                                                       [] OTHER -> @,
                                         !.last = IF s \in start THEN want(s) ELSE @]]
         /\ pc' = IF bad = {} THEN "wait" ELSE "panicked"
  /\ look' = NoLook
  /\ UNCHANGED <<host, watching, events, removing, used>>

------------------------------------------------------------------------------
(* The manager's waits: each handler is followed by a reconcile.           *)

Waiting == pc = "wait" /\ ~removing

Without(s) == [t \in DOMAIN slots \ {s} |-> slots[t]]

\* Cmd::Add.
AddPort(s) ==
  /\ Waiting /\ s \notin DOMAIN slots /\ used.cmds < used.bound.cmds
  /\ slots' = [t \in DOMAIN slots \cup {s} |->
                 IF t = s THEN [nr |-> used.cmds, running |-> Idle, last |-> None, seen_off |-> FALSE] ELSE slots[t]]
  /\ used' = [used EXCEPT !.cmds = @ + 1]
  /\ pc' = "reconcile"
  /\ UNCHANGED <<ending, monitors, events, look, removing>> /\ UNCHANGED hostVars

\* Cmd::Remove: the port's instance is given PORT_STOP_WAIT to end.
RemovePort(s) ==
  /\ Waiting /\ s \in DOMAIN slots /\ used.cmds < used.bound.cmds
  /\ cancel({s})
  /\ slots' = Without(s)
  /\ removing' = Runs(s)
  /\ pc' = IF Runs(s) THEN pc ELSE "reconcile"
  /\ used' = [used EXCEPT !.cmds = @ + 1]
  /\ UNCHANGED <<monitors, events, look>> /\ UNCHANGED hostVars

\* The instance ended, or the wait timed out.
Removed ==
  /\ removing
  /\ removing' = FALSE /\ pc' = "reconcile"
  /\ UNCHANGED <<slots, ending, monitors, events, look, used>> /\ UNCHANGED hostVars

forget_monitor(n) == monitors' = monitors \ {n}

clear_seen_off(n) ==
  slots' = [s \in DOMAIN slots |-> [slots[s] EXCEPT !.seen_off = @ /\ slots[s].last # n]]

EventAdded(n) == clear_seen_off(n) /\ UNCHANGED <<ending, monitors>>

EventRemoved(n) == forget_monitor(n) /\ UNCHANGED <<ending, slots>>

EventPoweredOn(n) == clear_seen_off(n) /\ UNCHANGED <<ending, monitors>>

EventPoweredOff(n) ==
  LET here == {s \in DOMAIN slots : Runs(s) /\ slots[s].running.name = n}
  IN  /\ cancel(here)
      /\ slots' = [s \in DOMAIN slots |->
                     IF s \in here THEN [slots[s] EXCEPT !.running = Idle, !.seen_off = TRUE]
                     ELSE slots[s]]
      /\ UNCHANGED monitors

TakeEvent ==
  /\ Waiting /\ events # <<>>
  /\ LET e == Head(events)
     IN  CASE e[1] = "added" -> EventAdded(e[2])
           [] e[1] = "removed" -> EventRemoved(e[2])
           [] e[1] = "on" -> EventPoweredOn(e[2])
           [] OTHER -> EventPoweredOff(e[2])
  /\ events' = Tail(events) /\ pc' = "reconcile"
  /\ UNCHANGED <<look, removing, used>> /\ UNCHANGED hostVars

\* Event::Tick, every 30 seconds: nothing but another reconcile.
Tick ==
  /\ Waiting /\ pc' = "reconcile"
  /\ UNCHANGED <<slots, ending, monitors, events, look, removing, used>> /\ UNCHANGED hostVars

\* Shutdown: every instance is told to end.
Stop ==
  /\ Waiting /\ used.cmds < used.bound.cmds
  /\ cancel(DOMAIN slots)
  /\ slots' = [s \in DOMAIN slots |-> [slots[s] EXCEPT !.running = Idle]]
  /\ pc' = "stopped"
  /\ UNCHANGED <<monitors, events, look, removing, used>> /\ UNCHANGED hostVars

------------------------------------------------------------------------------
(* Instances: of a slot, or cancelled and ending.                          *)

\* Each live monitor of an adapter reports a change of its power.
report(n, on) == events \o [k \in 1..watching[n] |-> <<IF on THEN "on" ELSE "off", n>>]

power_on(n) ==
  /\ host' = [host EXCEPT ![n].powered = TRUE]
  /\ events' = IF host[n].powered THEN events ELSE report(n, TRUE)

Here(i) == i.name \in Present /\ host[i.name].mac = i.mac

Becomes(i, j) ==
  \/ /\ i \in ending /\ ending' = (ending \ {i}) \cup {j}
     /\ UNCHANGED slots
  \/ /\ i.slot \in DOMAIN slots /\ slots[i.slot].running = i
     /\ slots' = [slots EXCEPT ![i.slot].running = j]
     /\ UNCHANGED ending

Instances == ending \cup {slots[s].running : s \in {t \in DOMAIN slots : Runs(t)}}

\* prepare powers the adapter on; then the service is registered and advertised.
\* The token isn't looked at before that.
InstStart(i) ==
  /\ i.state = "starting" /\ Here(i)
  /\ power_on(i.name)
  /\ Becomes(i, [i EXCEPT !.state = "serving"])
  /\ UNCHANGED <<monitors, watching, look, pc, removing, used>>

\* An instance that fails has ended; a slot's own is seen in the next reconcile.
Fail(i) ==
  IF i \in ending THEN ending' = ending \ {i} /\ UNCHANGED slots
  ELSE Becomes(i, [i EXCEPT !.state = "failed"])

\* The adapter is gone, or was powered off and the control streams ended.
InstFail(i) ==
  /\ i.state \in {"starting", "serving"}
  /\ Here(i) => i.state = "serving" /\ ~host[i.name].powered
  /\ Fail(i)
  /\ UNCHANGED <<monitors, events, look, pc, removing, used>> /\ UNCHANGED hostVars

\* The adapter is there, and BlueZ refuses to power it on, or then the alias, the service or the
\* advertisement.
InstRefused(i) ==
  /\ i.state = "starting" /\ Here(i) /\ Fails
  /\ power_on(i.name) \/ UNCHANGED <<host, events>>
  /\ Fail(i)
  /\ UNCHANGED <<monitors, watching, look, pc, removing>>

\* A cancelled instance that has started ends.
InstEnd(i) ==
  /\ i \in ending /\ i.state = "serving"
  /\ ending' = ending \ {i}
  /\ UNCHANGED <<host, slots, monitors, watching, events, look, pc, removing, used>>

------------------------------------------------------------------------------

HostActs ==
  /\ used.host < used.bound.host /\ used' = [used EXCEPT !.host = @ + 1]
  /\ UNCHANGED <<slots, ending, monitors, look, pc, removing>>

\* An adapter gets the first free name.
Plug(m, on) ==
  /\ HostActs
  /\ \A n \in Present : host[n].mac # m
  /\ LET n == SelectSeq(Names, LAMBDA x : x \notin Present)[1]
     IN  /\ host' = [x \in Present \cup {n} |-> IF x = n THEN [mac |-> m, powered |-> on] ELSE host[x]]
         /\ events' = Append(events, <<"added", n>>)
  /\ UNCHANGED watching

\* The monitors of an adapter end with it.
Unplug(n) ==
  /\ HostActs
  /\ host' = [x \in Present \ {n} |-> host[x]]
  /\ watching' = [watching EXCEPT ![n] = 0]
  /\ events' = Append(events, <<"removed", n>>)

\* Someone turns an adapter off or on.
Power(n) ==
  /\ HostActs
  /\ host' = [host EXCEPT ![n].powered = ~@]
  /\ events' = report(n, ~host[n].powered)
  /\ UNCHANGED watching

Init ==
  /\ \/ host = [n \in {} |-> None]
     \/ \E m \in Macs : host = [n \in {Names[1]} |-> [mac |-> m, powered |-> TRUE]]
  /\ slots = [s \in {} |-> None] /\ ending = {}
  /\ monitors = {} /\ watching = [n \in ToSet(Names) |-> 0]
  /\ events = <<>> /\ look = NoLook /\ pc = "reconcile" /\ removing = FALSE
  /\ \E b \in Bounds : used = [host |-> 0, cmds |-> 0, fails |-> 0, bound |-> b]

Reconcile == ListAdapters \/ AskAdapter \/ Settle

Manager == Reconcile \/ TakeEvent \/ Removed \/ Tick

InstStep == \E i \in Instances : InstStart(i) \/ InstFail(i) \/ InstRefused(i) \/ InstEnd(i)

Next ==
  \/ Manager \/ InstStep \/ Stop
  \/ \E s \in Slots : AddPort(s) \/ RemovePort(s)
  \/ \E m \in Macs, on \in BOOLEAN : Plug(m, on)
  \/ \E n \in Present : Unplug(n) \/ Power(n)

Spec == Init /\ [][Next]_vars

\* The manager's loop goes on, with a tick at least every 30 seconds, and an
\* instance's start, failure and end each take bounded time.
Fairness == WF_vars(Reconcile) /\ WF_vars(TakeEvent) /\ WF_vars(Removed) /\ WF_vars(Tick) /\ WF_vars(InstStep)

LiveSpec == Spec /\ Fairness

------------------------------------------------------------------------------

\* The adapter that a port selects, as the host is now.
adapter(s) == selected(s, Present, host)

CanRun(s) == s \in DOMAIN slots /\ adapter(s) # None /\ host[adapter(s)].powered

Serves(s) ==
  s \in DOMAIN slots /\ LET i == slots[s].running
                        IN  i.state = "serving" /\ i.name = adapter(s) /\ Here(i)

\* As long as the manager runs, a port whose adapter stays present and powered ends up served
\* there, whatever came and went, failed or was told late before.
ServesWhenItCan ==
  \A s \in Slots : <>[](CanRun(s) /\ pc \notin {"stopped", "panicked"}) => <>[]Serves(s)

\* The promise of mod ble: a port is started when its adapter is present, again when it returns,
\* and again if it failed to start.  Only a shutdown ends that.
PortsComeBack ==
  \A s \in Slots : <>[](CanRun(s) /\ pc # "stopped") => <>[]Serves(s)
=============================================================================
