----------------------------- MODULE Announcer -----------------------------
(***************************************************************************)
(* The DNS-SD announcer (announce.rs): one task that keeps an Avahi entry  *)
(* group per bridge, with a service for each of its tcp-server ports that  *)
(* listens, and moves a bridge to its next name when Avahi reports a       *)
(* collision.  Around it: the supervisor that starts, stops and renames    *)
(* bridges, the follow_listening task of each port, the adjusted names in  *)
(* state.toml, and Avahi, which comes and goes and is seen through signals *)
(* that other tasks forward.                                               *)
(*                                                                         *)
(* A public name is a base and a number: <<"TH-D75", 1>> is "TH-D75" and   *)
(* <<"TH-D75", 2>> is "TH-D75 (2)".  Aborting a follow_listening task is   *)
(* taken to be immediate, and state.toml can be written.                   *)
(***************************************************************************)
EXTENDS Naturals, Sequences, FiniteSets, SequencesExt, FiniteSetsExt, TLC

CONSTANTS
  Bridges,     \* ids of the bridges
  Ports,       \* the tcp-server ports, in the order of their ids
  Listen,      \* Listen[b][p]: what the port of a bridge binds
  IfIndex,     \* the interfaces of the host, by name
  Holding,     \* the interface that has an address assigned
  Configured,  \* the public name that each starts with
  Bases,       \* what they may be renamed to
  MaxTries,    \* how many names sync tries in a row (20 in the code)
  Bounds       \* on the environment, one of which holds: the bridges that are run, and how often
               \* runs change, names are changed, retried and taken, and so on

VARIABLES
  sup,      \* sup[b]: whether the bridge runs and its configured name
  name,     \* name[b]: the watch with the effective public name of each run so far
  port,     \* port[b][p]: its listening state and the task that follows it
  cmds,     \* the channel of commands to the announcer
  spawned,  \* commands that tasks of public_name_changed have yet to send
  ann,      \* the announcer: bridges, available, and where its task is
  avahi,    \* whether it runs, its groups, and how many it has made
  signals,  \* what the forwarding tasks have: "group" and "server" events, in order each
  lan,      \* the names that other devices use
  store,    \* the adjusted names in state.toml
  lost,     \* history: the bridges whose last publish failed for another reason
  used

vars == <<sup, name, port, cmds, spawned, ann, avahi, signals, lan, store, lost, used>>

PortsOf(b) == DOMAIN Listen[b]
Spend(what) == used[what] < used.bound[what] /\ used' = [used EXCEPT ![what] = @ + 1]

------------------------------------------------------------------------------

\* Where a port that is bound is announced.
AnyIface == 0
for_listen(l) ==
  [port  |-> l.port,
   iface |-> CASE l.kind = "interface" -> IF l.at \in DOMAIN IfIndex THEN IfIndex[l.at] ELSE AnyIface
               [] l.kind = "wildcard" -> AnyIface
               [] OTHER -> IF l.at \in DOMAIN Holding THEN Holding[l.at] ELSE AnyIface,
   proto |-> CASE l.kind = "interface" -> "v4"
               [] l.kind = "wildcard" -> IF l.v6 THEN "any" ELSE "v4"
               [] OTHER -> IF l.v6 THEN "v6" ELSE "v4"]

\* Two services under one name that Avahi couldn't tell apart.
overlaps(s, t) ==
  /\ s.iface = t.iface \/ AnyIface \in {s.iface, t.iface}
  /\ s.proto = t.proto \/ "any" \in {s.proto, t.proto}

next_name(n) == <<n[1], n[2] + 1>>

\* Variant with a defect: every service is announced, overlapping or not.
distinct_all(services) == {services[p] : p \in DOMAIN services}

\* A bridge's services without those that overlap one taken before, in port order.
distinct(services) ==
  LET take(out, p) == IF p \in DOMAIN services /\ ~\E t \in out : overlaps(t, services[p])
                      THEN out \cup {services[p]} ELSE out
  IN  FoldLeft(take, {}, Ports)

\* state.toml: the adjusted name of a bridge, if made from the name configured now.
adjusted_public_name(b, configured) == {a.name : a \in {x \in store[b] : x.from = configured}}

------------------------------------------------------------------------------
\* The supervisor.

Run(b) == Len(name[b])
Bridge(b, configured, run) == [cmd |-> "bridge", bridge |-> b, configured |-> configured, run |-> run]
Down(b, p) == [cmd |-> "down", bridge |-> b, port |-> p]

\* A bridge starts: its effective name, then its ports and the tasks that follow them.
Start(b) ==
  /\ ~sup[b].running /\ Spend("runs")
  /\ LET c == sup[b].configured
         kept == adjusted_public_name(b, c)
     IN  /\ name' = [name EXCEPT ![b] = Append(@, IF kept = {} THEN c ELSE CHOOSE n \in kept : TRUE)]
         /\ store' = IF kept = {} THEN [store EXCEPT ![b] = {}] ELSE store
         /\ cmds' = Append(cmds, Bridge(b, c, Run(b) + 1))
  /\ sup' = [sup EXCEPT ![b].running = TRUE]
  /\ port' = [port EXCEPT ![b] = [p \in PortsOf(b) |-> [state |-> "starting", follow |-> "send"]]]
  /\ UNCHANGED <<spawned, ann, avahi, signals, lan, lost>>

\* A bridge stops: each port goes down, and the bridge is forgotten.
Stop(b) ==
  /\ sup[b].running /\ Spend("runs")
  /\ sup' = [sup EXCEPT ![b].running = FALSE]
  /\ port' = [port EXCEPT ![b] = [p \in PortsOf(b) |-> [state |-> "stopped", follow |-> "none"]]]
  /\ cmds' = cmds \o SelectSeq([i \in DOMAIN Ports |-> Down(b, Ports[i])], LAMBDA c : c.port \in PortsOf(b)) \o <<[cmd |-> "forget", bridge |-> b]>>
  /\ UNCHANGED <<name, spawned, ann, avahi, signals, lan, store, lost>>

\* announce = false and true again, as a live setting of a port.
Announce(b, p) ==
  /\ sup[b].running /\ Spend("runs")
  /\ \/ /\ port[b][p].follow # "none"
        /\ port' = [port EXCEPT ![b][p].follow = "none"]
        /\ cmds' = Append(cmds, Down(b, p))
     \/ /\ port[b][p].follow = "none"
        /\ port' = [port EXCEPT ![b][p].follow = "send"]
        /\ cmds' = Append(cmds, Bridge(b, sup[b].configured, Run(b)))
  /\ UNCHANGED <<sup, name, spawned, ann, avahi, signals, lan, store, lost>>

\* The configured name of a bridge changes; a task of its own tells the announcer.
public_name_changed(b, base) ==
  /\ Spend("renames")
  /\ sup[b].configured # <<base, 1>>
  /\ sup' = [sup EXCEPT ![b].configured = <<base, 1>>]
  /\ \/ /\ sup[b].running
        /\ store' = [store EXCEPT ![b] = {}]
        /\ name' = [name EXCEPT ![b][Run(b)] = <<base, 1>>]
        /\ spawned' = spawned \cup {Bridge(b, <<base, 1>>, Run(b))}
     \/ ~sup[b].running /\ UNCHANGED <<store, name, spawned>>
  /\ UNCHANGED <<port, cmds, ann, avahi, signals, lan, lost>>

\* One of its tasks sends the command.
Spawned(c) ==
  /\ c \in spawned
  /\ spawned' = spawned \ {c} /\ cmds' = Append(cmds, c)
  /\ UNCHANGED <<sup, name, port, ann, avahi, signals, lan, store, lost, used>>

\* bridge.retry_public_name.
retry_public_name(b) ==
  /\ Spend("retries")
  /\ store' = [store EXCEPT ![b] = {}]
  /\ \/ /\ sup[b].running
        /\ name' = [name EXCEPT ![b][Run(b)] = sup[b].configured]
        /\ cmds' = Append(cmds, Bridge(b, sup[b].configured, Run(b)))
     \/ ~sup[b].running /\ UNCHANGED <<name, cmds>>
  /\ UNCHANGED <<sup, port, spawned, ann, avahi, signals, lan, lost>>

\* A port listens: at once, or when its interface is there.
Listens(b, p) ==
  /\ port[b][p].state = "starting"
  /\ port' = [port EXCEPT ![b][p].state = "listening", ![b][p].follow = IF @ = "none" THEN @ ELSE "send"]
  /\ UNCHANGED <<sup, name, cmds, spawned, ann, avahi, signals, lan, store, lost, used>>

\* The task that follows a port tells the announcer what it sees.
follow_listening(b, p) ==
  /\ port[b][p].follow = "send"
  /\ cmds' = Append(cmds, IF port[b][p].state = "listening"
                          THEN [cmd |-> "up", bridge |-> b, port |-> p, service |-> for_listen(Listen[b][p])]
                          ELSE Down(b, p))
  /\ port' = [port EXCEPT ![b][p].follow = "sent"]
  /\ UNCHANGED <<sup, name, spawned, ann, avahi, signals, lan, store, lost, used>>

------------------------------------------------------------------------------
\* The announcer.  Its task waits, syncs the bridges of `ids` one by one, or is about
\* to move the first of them to the name `next`.

Waits == [at |-> "wait"]
Syncs(ids, tries) == IF ids = <<>> THEN Waits ELSE [at |-> "sync", ids |-> ids, tries |-> tries]
Adjusts(ids, tries) ==
  LET b == ann.bridges[Head(ids)]
  IN  [at |-> "adjust", ids |-> ids, tries |-> tries, next |-> next_name(name[Head(ids)][b.run])]
Known(b) == b \in DOMAIN ann.bridges
With(b, e) == [x \in DOMAIN ann.bridges \cup {b} |-> IF x = b THEN e ELSE ann.bridges[x]]
Without(b) == [x \in DOMAIN ann.bridges \ {b} |-> ann.bridges[x]]

\* Avahi without some groups.
Freed(gs) == [avahi EXCEPT !.groups = [g \in DOMAIN @ \ gs |-> @[g]]]

Handled == UNCHANGED <<sup, name, port, spawned, signals, lan, store, lost, used>>
Command(c) == ann.pc.at = "wait" /\ cmds # <<>> /\ Head(cmds).cmd = c /\ cmds' = Tail(cmds) /\ Handled
Resync(b, e) == ann' = [ann EXCEPT !.bridges = With(b, e), !.pc = Syncs(<<b>>, 0)] /\ UNCHANGED avahi
Ignored == UNCHANGED <<ann, avahi>>

\* Cmd::Bridge: one that is known is published again, under its name of now.
on_bridge ==
  /\ Command("bridge")
  /\ LET c == Head(cmds)
     IN  IF Known(c.bridge)
         THEN Resync(c.bridge, [ann.bridges[c.bridge] EXCEPT !.configured = c.configured, !.run = c.run])
         ELSE /\ ann' = [ann EXCEPT !.bridges = With(c.bridge,
                           [configured |-> c.configured, run |-> c.run, services |-> <<>>, group |-> {}])]
              /\ UNCHANGED avahi

on_forget ==
  /\ Command("forget")
  /\ LET b == Head(cmds).bridge
     IN  IF Known(b) THEN ann' = [ann EXCEPT !.bridges = Without(b)] /\ avahi' = Freed(ann.bridges[b].group)
         ELSE Ignored

on_up ==
  /\ Command("up")
  /\ LET c == Head(cmds)
         b == c.bridge
         s == ann.bridges[b].services
     IN  IF ~Known(b) \/ (c.port \in DOMAIN s /\ s[c.port] = c.service) THEN Ignored
         ELSE Resync(b, [ann.bridges[b] EXCEPT !.services =
                           [p \in DOMAIN s \cup {c.port} |-> IF p = c.port THEN c.service ELSE s[p]]])

on_down ==
  /\ Command("down")
  /\ LET c == Head(cmds)
         b == c.bridge
         s == ann.bridges[b].services
     IN  IF ~Known(b) \/ c.port \notin DOMAIN s THEN Ignored
         ELSE Resync(b, [ann.bridges[b] EXCEPT !.services = [p \in DOMAIN s \ {c.port} |-> s[p]]])

on_cmd == on_bridge \/ on_forget \/ on_up \/ on_down

bridge_for(g) == {b \in DOMAIN ann.bridges : g \in ann.bridges[b].group}

\* A signal of an entry group: only a collision has an effect.
GroupEvent ==
  /\ ann.pc.at = "wait" /\ signals.group # <<>>
  /\ signals' = [signals EXCEPT !.group = Tail(@)]
  /\ LET bs == bridge_for(Head(signals.group))
     IN  ann' = IF bs = {} THEN ann ELSE [ann EXCEPT !.pc = Adjusts(SetToSeq(bs), 0)]
  /\ UNCHANGED <<sup, name, port, cmds, spawned, avahi, lan, store, lost, used>>

\* Avahi is up, when all that isn't announced is, or down, when everything is withdrawn.
ServerEvent ==
  /\ ann.pc.at = "wait" /\ signals.server # <<>>
  /\ signals' = [signals EXCEPT !.server = Tail(@)]
  /\ \/ /\ Head(signals.server) = "up"
        /\ ann' = [ann EXCEPT !.available = TRUE,
                              !.pc = Syncs(SetToSortSeq({b \in DOMAIN ann.bridges : ann.bridges[b].group = {}}, <), 0)]
        /\ UNCHANGED avahi
     \/ /\ Head(signals.server) = "down"
        /\ ann' = [ann EXCEPT !.available = FALSE,
                              !.bridges = [b \in DOMAIN @ |-> [@[b] EXCEPT !.group = {}]]]
        /\ avahi' = Freed(UNION {ann.bridges[b].group : b \in DOMAIN ann.bridges})
  /\ UNCHANGED <<sup, name, port, cmds, spawned, lan, store, lost, used>>

\* Another group on this host has the name where a service would be announced.
Taken(g, n, services) ==
  \E h \in DOMAIN avahi.groups \ g : /\ avahi.groups[h].name = n
                                     /\ \E s \in services, t \in avahi.groups[h].services : overlaps(s, t)

\* What publishing in a group, or a new one, may come to: Reset or EntryGroupNew, AddService
\* and Commit.  A Reset whose reply is lost may leave the group as it was, and `left`: the
\* announcer forgets it without freeing it.
publish(group, n, services) ==
  LET gone == group # {} /\ ~(group \subseteq DOMAIN avahi.groups)
      g == IF group = {} THEN avahi.made + 1 ELSE CHOOSE x \in group : TRUE
      Fails(result) == [result |-> result, group |-> {}, avahi |-> Freed(group)]
      entry == [name |-> n, services |-> services, state |-> "registering", left |-> FALSE]
      left == [avahi EXCEPT !.groups = [x \in DOMAIN @ |-> [@[x] EXCEPT !.left = @ \/ x \in group]]]
  IN  (IF group # {} /\ used.lost < used.bound.lost THEN {[result |-> "lost", group |-> {}, avahi |-> left]} ELSE {})
      \cup
      {CASE avahi.state = "off" -> Fails("unavailable")
         [] avahi.state = "registering" \/ gone -> Fails("other")
         [] avahi.state = "running" /\ ~gone /\ Taken(group, n, services) -> Fails("collision")
         [] OTHER -> [result |-> "ok", group |-> {g},
                      avahi |-> [avahi EXCEPT !.made = IF group = {} THEN g ELSE @,
                                   !.groups = [x \in DOMAIN @ \cup {g} |-> IF x = g THEN entry ELSE @[x]]]]}

\* One turn of the loop of sync: nothing to announce, or a publish.
sync ==
  /\ ann.pc.at = "sync"
  /\ LET b == Head(ann.pc.ids)
         e == ann.bridges[b]
         services == distinct(e.services)
         next == Syncs(Tail(ann.pc.ids), 0)
     IN  \/ /\ ~ann.available \/ ann.pc.tries = MaxTries
            /\ ann' = [ann EXCEPT !.pc = next]
            /\ lost' = IF ann.available THEN lost \cup {b} ELSE lost
            /\ UNCHANGED <<avahi, used>>
         \/ /\ ann.available /\ ann.pc.tries < MaxTries /\ services = {}
            /\ ann' = [ann EXCEPT !.bridges[b].group = {}, !.pc = next]
            /\ avahi' = Freed(e.group) /\ UNCHANGED <<lost, used>>
         \/ /\ ann.available /\ ann.pc.tries < MaxTries /\ services # {}
            /\ \E r \in publish(e.group, name[b][e.run], services) :
                 /\ avahi' = r.avahi
                 /\ ann' = [ann EXCEPT !.bridges[b].group = r.group,
                              !.available = r.result # "unavailable",
                              !.pc = IF r.result = "collision" THEN Adjusts(ann.pc.ids, ann.pc.tries + 1) ELSE next]
                 /\ lost' = IF r.result \in {"other", "lost"} THEN lost \cup {b}
                            ELSE IF r.result = "ok" THEN lost \ {b} ELSE lost
                 /\ used' = [used EXCEPT !.lost = IF r.result = "lost" THEN @ + 1 ELSE @]
  /\ UNCHANGED <<sup, name, port, cmds, spawned, signals, lan, store>>

\* The next name, read before, is kept in state.toml and told to the BLE ports.
adjust_name ==
  /\ ann.pc.at = "adjust"
  /\ LET b == Head(ann.pc.ids)
     IN  /\ name' = [name EXCEPT ![b][ann.bridges[b].run] = ann.pc.next]
         /\ store' = [store EXCEPT ![b] = {[name |-> ann.pc.next, from |-> ann.bridges[b].configured]}]
  /\ ann' = [ann EXCEPT !.pc = Syncs(ann.pc.ids, ann.pc.tries)]
  /\ UNCHANGED <<sup, port, cmds, spawned, avahi, signals, lan, lost, used>>

------------------------------------------------------------------------------
\* Avahi, the network, and the daemon's end.

env == <<sup, name, port, cmds, spawned, ann, store, lost>>

\* A group's name is its own on the network, or isn't.
Established(g) ==
  /\ avahi.state = "running" /\ avahi.groups[g].state = "registering" /\ avahi.groups[g].name \notin lan
  /\ avahi' = [avahi EXCEPT !.groups[g].state = "established"]
  /\ UNCHANGED <<env, signals, lan, used>>

Collision(g) ==
  /\ avahi.state = "running" /\ avahi.groups[g].state # "collision" /\ avahi.groups[g].name \in lan
  /\ Spend("collisions")
  /\ avahi' = [avahi EXCEPT !.groups[g].state = "collision"]
  /\ signals' = [signals EXCEPT !.group = Append(@, g)]
  /\ UNCHANGED <<env, lan>>

\* Another device takes a name.
Joins(n) ==
  /\ n \notin lan /\ Spend("joins")
  /\ lan' = lan \cup {n}
  /\ UNCHANGED <<env, avahi, signals>>

\* Avahi ends, with its groups, or registers another host name.
AvahiGoes ==
  /\ avahi.state = "running" /\ Spend("avahi")
  /\ avahi' \in {[state |-> "off", groups |-> <<>>, made |-> 0], [avahi EXCEPT !.state = "registering"]}
  /\ signals' = [signals EXCEPT !.server = Append(@, "down")]
  /\ UNCHANGED <<env, lan>>

AvahiRuns ==
  /\ avahi.state # "running"
  /\ avahi' = [avahi EXCEPT !.state = "running"]
  /\ signals' = [signals EXCEPT !.server = Append(@, "up")]
  /\ UNCHANGED <<env, lan, used>>

Stopped == [b \in Bridges |-> [p \in PortsOf(b) |-> [state |-> "stopped", follow |-> "none"]]]
Starts == [bridges |-> <<>>, available |-> avahi.state = "running", pc |-> Waits]

\* The daemon ends, and Avahi drops its groups; what starts next has state.toml.
Kill ==
  /\ Spend("kills")
  /\ sup' = [b \in Bridges |-> [sup[b] EXCEPT !.running = FALSE]]
  /\ name' = [b \in Bridges |-> <<>>] /\ port' = Stopped
  /\ cmds' = <<>> /\ spawned' = {} /\ ann' = Starts /\ lost' = {}
  /\ avahi' = [avahi EXCEPT !.groups = <<>>] /\ signals' = [group |-> <<>>, server |-> <<>>]
  /\ UNCHANGED <<lan, store>>

Init ==
  /\ sup = [b \in Bridges |-> [running |-> FALSE, configured |-> Configured[b]]]
  /\ name = [b \in Bridges |-> <<>>] /\ port = Stopped
  /\ cmds = <<>> /\ spawned = {} /\ signals = [group |-> <<>>, server |-> <<>>]
  /\ avahi \in [state : {"running", "off"}, groups : {<<>>}, made : {0}]
  /\ ann = Starts
  /\ lan = {} /\ store = [b \in Bridges |-> {}] /\ lost = {}
  /\ \E bound \in Bounds : used = [what \in DOMAIN bound \ {"bridges"} |-> 0] @@ [bound |-> bound]

Supervises ==
  \/ \E b \in used.bound.bridges :
       \/ Start(b)
       \/ Stop(b)
       \/ retry_public_name(b)
       \/ \E base \in Bases : public_name_changed(b, base)
       \/ \E p \in PortsOf(b) : Announce(b, p)

Announces ==
  \/ on_bridge
  \/ on_forget
  \/ on_up
  \/ on_down
  \/ GroupEvent
  \/ ServerEvent
  \/ sync
  \/ adjust_name

Names == {Configured[b] : b \in Bridges} \cup {next_name(Configured[b]) : b \in Bridges} \cup {<<x, 1>> : x \in Bases}

Next ==
  \/ Supervises
  \/ Announces
  \/ \E c \in spawned : Spawned(c)
  \/ \E b \in Bridges : \E p \in PortsOf(b) :
       \/ Listens(b, p)
       \/ follow_listening(b, p)
  \/ \E g \in DOMAIN avahi.groups :
       \/ Established(g)
       \/ Collision(g)
  \/ \E n \in Names : Joins(n)
  \/ AvahiGoes
  \/ AvahiRuns
  \/ Kill

Spec == Init /\ [][Next]_vars

------------------------------------------------------------------------------
\* Properties.

\* Nothing is under way.
Quiet ==
  /\ cmds = <<>> /\ spawned = {} /\ signals.group = <<>> /\ signals.server = <<>> /\ ann.pc.at = "wait"
  /\ \A b \in Bridges : \A p \in PortsOf(b) : port[b][p].follow # "send"

\* What a bridge's ports listen on and announce.
Open(b) == {for_listen(Listen[b][p]) : p \in {q \in PortsOf(b) : port[b][q].state = "listening" /\ port[b][q].follow # "none"}}
Groups(b) == UNION {ann.bridges[x].group : x \in {b} \cap DOMAIN ann.bridges}

\* Once commands and signals are handled, Avahi has exactly what it should.  A bridge with a
\* port that listens has one group, under the bridge's public name, with services of its ports
\* that don't overlap and leave out only what overlaps (Announcer::sync and distinct); a bridge
\* with none, or whose last publish failed for no reason that sync knows, has no group.  Nor does
\* Avahi have other groups from the daemon, but for one kind, left by a lost reply to Reset.
AnnouncedAsListening ==
  Quiet /\ avahi.state = "running" =>
    /\ \A g \in DOMAIN avahi.groups : avahi.groups[g].left \/ \E b \in Bridges : Groups(b) = {g}
    /\ \A b \in Bridges :
         IF Open(b) = {} \/ b \in lost THEN Groups(b) = {}
         ELSE \E g \in DOMAIN avahi.groups :
                LET s == avahi.groups[g].services IN
                /\ Groups(b) = {g} /\ ~avahi.groups[g].left /\ avahi.groups[g].name = name[b][Run(b)]
                /\ s \subseteq Open(b)
                /\ \A x, y \in s : x # y => ~overlaps(x, y)
                /\ \A x \in Open(b) : \E y \in s : overlaps(x, y)

====
