------------------------------ MODULE MCDaemon ------------------------------
(***************************************************************************)
(* The daemon's configuration and what is made of it, for TLC: the store,  *)
(* which reads and writes the files; the supervisor, which makes the       *)
(* bridges follow it; the announcer, which tells the LAN of their ports;   *)
(* and what ktbctl asks for, in the TUI (a change with its questions, a    *)
(* form) and in the setup wizard (its scan, and its steps).  They share no *)
(* state here, and each property is about one of them: one of them runs in *)
(* a behaviour, and the others rest where they started.                    *)
(***************************************************************************)
EXTENDS ConfigStore, Supervisor, TLC

VARIABLES
  active,   \* the component that takes steps
  a_sup, a_name, a_port, a_cmds, a_spawned, a_ann, a_avahi, a_signals, a_lan, a_store, a_lost, a_used,
  d_dialog, d_form, d_pending, d_up, d_down, d_keys, d_apps, d_refused, d_used, f_form, f_sent, q_pc,
  q_shown, q_found, q_picked, q_asked, q_lines, q_tty, q_up, q_down, q_scan, q_heard, q_used, w_pc,
  w_s, w_w, w_tncs, w_bridges, w_apps, w_calls, w_hold, w_edits, w_used

\* The configurations that the supervisor is given.
DefaultAdapter == <<"default", "none">>

Port(role, kind, where) ==
  [role |-> role, kind |-> kind, where |-> where, adapter |-> DefaultAdapter, model |-> "none",
   tnc |-> "none", policy |-> "none", max |-> 0, allow |-> {}, announce |-> FALSE]

Serial(dev) == [Port("tnc", "serial", dev) EXCEPT !.policy = "always"]
Spp(addr) == [Port("tnc", "spp-client", addr) EXCEPT !.policy = "always", !.model = "d75"]
Tcp(at) == [Port("app", "tcp-server", at) EXCEPT !.announce = TRUE]
Ble == [Port("app", "ble-server", "none") EXCEPT !.max = 1]

Bridge(ports) ==
  [enabled |-> TRUE, name |-> "n", public_name |-> "N", app_params |-> "ignore", ports |-> ports]

Config(bs) == [log_level |-> "info", group |-> "none", bridges |-> bs]

One(tnc, app) == Config([b1 |-> Bridge([tnc |-> tnc, app |-> app])])
Two(x, y) == Config([b1 |-> x, b2 |-> y])

Base == One(Spp("t1"), Tcp("8001"))
With(c, f, v) == [c EXCEPT !.bridges["b1"][f] = v]
WithTnc(c, f, v) == [c EXCEPT !.bridges["b1"].ports["tnc"][f] = v]
WithApp(c, f, v) == [c EXCEPT !.bridges["b1"].ports["app"][f] = v]

\* One bridge: each kind of change to it or its ports.
OneBridge ==
  {Base,
   With(Base, "public_name", "M"), With(Base, "app_params", "allow"), With(Base, "enabled", FALSE),
   WithTnc(Base, "where", "t2"), WithTnc(Base, "policy", "on_demand"), WithTnc(Base, "model", "uv"),
   WithApp(Base, "max", 1), WithApp(Base, "allow", {"p1"}), WithApp(Base, "where", "8002"),
   WithApp(Base, "announce", FALSE),
   One(Spp("t1"), Ble), One(Serial("s1"), Tcp("8001"))}

\* Two bridges and two ports each, which hand sockets and TNCs to one another.
ServerPorts(a, c) == [tnc |-> Serial("s1"), a |-> Tcp(a), c |-> Tcp(c)]
TwoBridges ==
  LET b2(at) == Bridge([tnc |-> Serial("s2"), app |-> Tcp(at)])
  IN  {Two(Bridge(ServerPorts("8001", "8002")), b2("8003")),
       Two(Bridge(ServerPorts("8003", "8002")), b2("8001")),
       Two(Bridge([tnc |-> Serial("s1"), a |-> Tcp("8002"), d |-> Ble]), b2("8001")),
       Two([Bridge(ServerPorts("8001", "8002")) EXCEPT !.enabled = FALSE], b2("8002")),
       Config([b2 |-> b2("8001")])}

\* Fewer changes, for the races of a reload with sessions.
Limits == {Base, WithApp(Base, "max", 1), WithApp(Base, "allow", {"p1"}),
           WithApp(Base, "where", "8002"), WithTnc(Base, "where", "t2")}

SupervisorBounds ==
  {[configs |-> OneBridge, reloads |-> 2, opens |-> 0, faults |-> 1],
   [configs |-> TwoBridges, reloads |-> 2, opens |-> 0, faults |-> 0],
   [configs |-> Limits, reloads |-> 1, opens |-> 2, faults |-> 0]}

\* The files that the store begins with, what is put into them, and how often.
StoredPort(type, tnc, port, id) ==
    [type |-> type, id |-> id, role |-> {}, tnc |-> tnc, listen |-> Written("port", "", port), announce |-> {},
     adapter |-> {}, max_clients |-> {}, fine |-> TRUE]
StoredBridge(id, name, enabled, ports) ==
    [id |-> id, name |-> name, public_name |-> {}, enabled |-> enabled, port |-> ports, fine |-> TRUE]
Tnc(id, address, adapter) ==
    [id |-> id, spp |-> {[address |-> address, adapter |-> adapter]}, ble |-> {}, serial |-> {}, fine |-> TRUE]
Adapter(id, mac) == [id |-> id, mac |-> mac, fine |-> TRUE]

Ktbr(n) == <<"ktbr", n>>
StoredTcp(port) == StoredPort("tcp_server", "", port, {})
StoredSpp(tnc) == StoredPort("spp_client", tnc, 0, {<<"radio", 0>>})

Home == StoredBridge({Ktbr(0)}, "home", {}, <<StoredSpp("t0"), StoredTcp(8001)>>)
Field == StoredBridge({Ktbr(1)}, "field", {FALSE}, <<StoredSpp("t1"), StoredPort("tcp_server", "", 8001, {<<"lan", 0>>})>>)

Main(bs) == [NoFile EXCEPT !.adapter = <<Adapter("a0", "m0")>>, !.tnc = <<Tnc("t0", "x0", {Id("a0")})>>, !.bridge = bs]
Static(main, conf_d) == [main |-> main, conf_d |-> conf_d]
Plain == Static(Main(<<Home>>), <<>>)
\* The static files get a bridge with the dynamic one's id, or refer to its TNC.
Collides == Static(Main(<<Home>>), <<[NoFile EXCEPT !.bridge = <<[Field EXCEPT !.port = <<>>]>>]>>)
Leans == Static([Main(<<Home, StoredBridge({Ktbr(2)}, "leans", {FALSE}, <<StoredSpp("t1")>>)>>) EXCEPT !.global = {Id("a0")}], <<>>)

FieldText == [NoFile EXCEPT !.adapter = <<Adapter("a1", "m1")>>, !.tnc = <<Tnc("t1", "x1", {Id("a1")})>>, !.bridge = <<Field>>]
AllStatics == {Plain, Collides, Leans}
OneText == {FieldText}
TwoPeers == {"p1", "p2"}
Builtin == {<<"builtin">>}
NewBridge == {StoredBridge({}, "new", {TRUE}, <<StoredSpp("t1"), StoredTcp(8002)>>)}
NewPort == {StoredTcp(8004)}
NewTncs == {Tnc("t1", "x2", {Id("a1")}), Tnc("t2", "x1", {Id("a1")})}
NewAdapters == {Adapter("a2", "m1")}
AllIds == {Ktbr(0), Ktbr(1), Ktbr(2)}
Objects == {"t1", "t2", "a1", "a2"}

Edits == {"reload", "bridge.create", "bridge.update", "bridge.delete", "bridge.clone", "bridge.enable", "bridge.switch",
          "port.add", "port.update", "port.remove", "object.create", "object.update", "object.delete"}
StoreBounds ==
    {[statics |-> AllStatics, may |-> Edits, commands |-> 3, edits |-> 2, stateEdits |-> 0, kills |-> 0, faults |-> 0, unreadable |-> 0],
     [statics |-> {Plain}, may |-> {"reload", "bridge.enable", "bridge.switch", "config.put"}, commands |-> 2,
      edits |-> 1, stateEdits |-> 1, kills |-> 1, faults |-> 1, unreadable |-> 1]}

\* The theorems about the supervisor apply to these configurations.
ASSUME SupervisorTheoremsApply == ListensOnce /\ TncsAreClients /\ RolesKept

\* The announcer: bridges 1 and 2, whose names meet after a collision, or 3 with two ports.
Wifi == [kind |-> "interface", at |-> "wlan0", v6 |-> FALSE, port |-> 8001]
Everywhere == [kind |-> "wildcard", at |-> "", v6 |-> TRUE, port |-> 8002]
Listen == (1 :> [p1 |-> Wifi]) @@ (2 :> [p1 |-> Everywhere]) @@ (3 :> [p1 |-> Wifi, p2 |-> Everywhere])
Configured == (1 :> <<"A", 1>>) @@ (2 :> <<"A", 2>>) @@ (3 :> <<"A", 1>>)
Still == [bridges |-> {}, runs |-> 0, renames |-> 0, retries |-> 0, joins |-> 0, collisions |-> 0,
          avahi |-> 0, lost |-> 0, kills |-> 0]
Adjusted == [Still EXCEPT !.bridges = {1}, !.runs = 2, !.retries = 1, !.joins = 1, !.collisions = 2, !.kills = 1]
Both == [Still EXCEPT !.bridges = {1, 2}, !.runs = 2, !.joins = 1, !.collisions = 2, !.avahi = 1]
Renamed == [Still EXCEPT !.bridges = {1}, !.runs = 2, !.renames = 1, !.joins = 1, !.collisions = 2]
TwoPorts == [Still EXCEPT !.bridges = {3}, !.runs = 2, !.joins = 1, !.collisions = 1, !.lost = 1]

\* A change: a row of each kind, and the keys that are pressed on them.
Row(id, kind, yes) == [id |-> id, kind |-> kind, enabled |-> yes, editable |-> yes, tnc |-> yes, paired |-> yes]
AllRows ==
  {Row(1, "bridge", TRUE), [Row(2, "bridge", FALSE) EXCEPT !.editable = TRUE], Row(3, "port", TRUE),
   Row(4, "port", FALSE), Row(5, "session", TRUE), Row(6, "tnc", TRUE), Row(7, "adapter", FALSE), Row(8, "device", TRUE)}
ChangeBounds ==
  {[pressed |-> {"e", "d", "s", "-", "c", "k", "u", "R", "y", "n"}, keys |-> 2, forms |-> 0, arrivals |-> 1, losses |-> 1],
   [pressed |-> {"d", "-", "e", "y"}, keys |-> 3, forms |-> 0, arrivals |-> 0, losses |-> 0],
   [pressed |-> {"a", "Enter", "Esc", "q"}, keys |-> 4, forms |-> 2, arrivals |-> 1, losses |-> 1]}

\* A form: how many options a choice has, and the ids that are taken.
FormOptions == [type |-> 6, tnc_spp |-> 2, tnc_ble |-> 0, tnc_serial |-> 1, adapter |-> 2, connect |-> 2, model |-> 2,
                link |-> 3, mac |-> 2]
FormBases == [tnc |-> <<"d75", "tnc">>, adapter |-> <<"builtin", "dongle">>]
FormId(b, n) == [base |-> b, n |-> n]
FormTaken == [port |-> {FormId("lan", 1), FormId("lan", 2), FormId("radio", 2)}, bridge |-> {}, tnc |-> {FormId("d75", 1)},
              adapter |-> {FormId("dongle", 1)}]

\* The wizard: two adapters of which one or the other reaches the radio, or none.
SetupPlaces ==
  {[present |-> <<"hci0", "hci1">>, radio |-> "hci1", ble |-> {"hci0"}],
   [present |-> <<"hci0", "hci1">>, radio |-> "hci0", ble |-> {"default adapter"}],
   [present |-> <<>>, radio |-> "none", ble |-> {}]}

Ann == INSTANCE Announcer WITH
  Bridges <- 1..3, Ports <- <<"p1", "p2">>, Listen <- Listen, IfIndex <- "wlan0" :> 3,
  Holding <- "192.0.2.1" :> 2, Configured <- Configured, Bases <- {"B"}, MaxTries <- 2,
  Bounds <- {Adjusted, Both, Renamed, TwoPorts}, sup <- a_sup, name <- a_name, port <- a_port,
  cmds <- a_cmds, spawned <- a_spawned, ann <- a_ann, avahi <- a_avahi, signals <- a_signals, lan <- a_lan,
  store <- a_store, lost <- a_lost, used <- a_used

Dialog == INSTANCE TuiChange WITH
  Rows <- AllRows, Apps <- {1}, Bounds <- ChangeBounds, dialog <- d_dialog, form <- d_form,
  pending <- d_pending, up <- d_up, down <- d_down, keys <- d_keys, apps <- d_apps, refused <- d_refused,
  used <- d_used

Form == INSTANCE TuiForm WITH
  Kinds <- {"port", "bridge", "tnc", "adapter"}, Options <- FormOptions, Bases <- FormBases,
  Taken <- FormTaken, form <- f_form, sent <- f_sent

Pick == INSTANCE SetupScan WITH
  Devices <- {"d1", "d2"}, Likely <- {"d2"}, Paired <- {"d1"}, MaxLines <- 3, MaxScans <- 1, pc <- q_pc,
  shown <- q_shown, found <- q_found, picked <- q_picked, asked <- q_asked, lines <- q_lines, tty <- q_tty,
  up <- q_up, down <- q_down, scan <- q_scan, heard <- q_heard, used <- q_used

Wiz == INSTANCE Setup WITH
  Ways <- {"spp", "serial"}, TncIds <- {"d75", "d752"}, Places <- SetupPlaces, Listens <- {"8001", "8002"},
  OtherTnc <- {"d75"}, OtherListen <- {"8001"}, MaxOther <- 1, MaxTries <- 1, pc <- w_pc, s <- w_s,
  w <- w_w, tncs <- w_tncs, bridges <- w_bridges, apps <- w_apps, calls <- w_calls, hold <- w_hold,
  edits <- w_edits, used <- w_used

ann_vars == <<a_sup, a_name, a_port, a_cmds, a_spawned, a_ann, a_avahi, a_signals, a_lan, a_store, a_lost,
  a_used>>
change_vars == <<d_dialog, d_form, d_pending, d_up, d_down, d_keys, d_apps, d_refused, d_used>>
form_vars == <<f_form, f_sent>>
pick_vars == <<q_pc, q_shown, q_found, q_picked, q_asked, q_lines, q_tty, q_up, q_down, q_scan, q_heard,
  q_used>>
wiz_vars == <<w_pc, w_s, w_w, w_tncs, w_bridges, w_apps, w_calls, w_hold, w_edits, w_used>>
side_vars == <<ann_vars, change_vars, form_vars, pick_vars, wiz_vars>>
all == <<active, vars, sup_vars, side_vars>>

------------------------------------------------------------------------------
\* A step of one component, while the others rest.
AsStore(A) == active = "store" /\ A /\ UNCHANGED <<active, sup_vars, side_vars>>
AsSup(A) == active = "supervisor" /\ A /\ UNCHANGED <<active, vars, side_vars>>
AsAnn(A) ==
  /\ active = "announcer" /\ A
  /\ UNCHANGED <<active, vars, sup_vars, change_vars, form_vars, pick_vars, wiz_vars>>
AsDialog(A) ==
  /\ active = "change" /\ A
  /\ UNCHANGED <<active, vars, sup_vars, ann_vars, form_vars, pick_vars, wiz_vars>>
AsForm(A) ==
  /\ active = "form" /\ A
  /\ UNCHANGED <<active, vars, sup_vars, ann_vars, change_vars, pick_vars, wiz_vars>>
AsPick(A) ==
  /\ active = "pick" /\ A
  /\ UNCHANGED <<active, vars, sup_vars, ann_vars, change_vars, form_vars, wiz_vars>>
AsWiz(A) ==
  /\ active = "setup" /\ A
  /\ UNCHANGED <<active, vars, sup_vars, ann_vars, change_vars, form_vars, pick_vars>>

\* One component starts as it may; where the others rest does not matter.
MCInit ==
  /\ active \in {"store", "supervisor", "announcer", "change", "form", "pick", "setup"}
  /\ Init /\ (active # "store" => used.bound.kills = 1 /\ disk.main = Plain.main /\ disk.conf_d = <<>>)
  /\ SupInit /\ (active # "supervisor" => tally.bound.opens = 2 /\ job.new = Base /\ bluez /\ avahi)
  /\ Ann!Init /\ (active # "announcer" => a_avahi.state = "off" /\ a_used.bound = Both)
  /\ Dialog!Init /\ (active # "change" => d_apps = {} /\ d_used.bound.keys = 3)
  /\ Form!Init
  /\ Pick!Init
  /\ Wiz!Init /\ (active # "setup" => w_used.place.present = <<>>)

MCNext ==
  \/ AsStore(Next)
  \/ AsSup(SupNext)
  \/ AsAnn(Ann!Next)
  \/ AsDialog(Dialog!Next)
  \/ AsForm(Form!Next)
  \/ AsPick(Pick!Next)
  \/ AsWiz(Wiz!Next)

MCSpec == MCInit /\ [][MCNext]_all

------------------------------------------------------------------------------
\* Announcer.

\* Once commands and signals are handled, Avahi has exactly what it should: a group for each
\* bridge with a port that listens, under the bridge's public name, with services of its ports
\* that don't overlap and leave out only what overlaps (Announcer::sync and distinct), and no other
\* group of the daemon but one that a lost reply to Reset left.
AnnouncedAsListening == active = "announcer" => Ann!AnnouncedAsListening

------------------------------------------------------------------------------
\* TuiChange.

\* A change is forced only after the daemon has refused the same change because it would
\* disrupt someone: whatever else the person agrees to, it goes with non_disruptive first.
ForcedAfterRefusal == active = "change" => Dialog!ForcedAfterRefusal

------------------------------------------------------------------------------
\* TuiForm.

\* A definition has only keys that the config knows for its kind and type, all those that it
\* needs, and a TNC has one way to be reached, whatever is left in fields that don't apply.
DefinitionFits == active = "form" => Form!DefinitionFits

------------------------------------------------------------------------------
\* SetupScan.

\* The device that is set up is the one that stood at the number when it was typed, however
\* many devices were found before the line was read (pick_device, menu), unless the scan
\* ended under the line: read_line then gives it to the menu, which has its own order.
PickedAsShown == active = "pick" => Pick!PickedAsShown

------------------------------------------------------------------------------
\* Setup.

\* What somebody else wrote into a TNC's definition is never lost to the text that the
\* wizard puts back with a section added, however long it waited for a yes (setup_tnc).
EditsKept == active = "setup" => Wiz!EditsKept
==============================================================================
