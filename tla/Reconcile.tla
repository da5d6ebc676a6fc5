------------------------------ MODULE Reconcile ------------------------------
(***************************************************************************)
(* The reload plan (reconcile.rs): what applying a new configuration over  *)
(* the one in effect would do, and whom it would disrupt.                  *)
(*                                                                         *)
(* A configuration is the resolved one.  A port is one record for all      *)
(* kinds; a field its kind does not have is None (0 for max: validation    *)
(* refuses max_clients = 0, so 0 is "no limit").  "where" stands for what  *)
(* addresses the link: host and port, device address and channel, serial   *)
(* device, or listen socket.  "policy" stands for connect, idle_timeout    *)
(* and exit_kiss_on_disconnect.  The bridge and port plans are functions   *)
(* of the id; the order of the plan's lists only matters to the passes of  *)
(* apply, which module Supervisor has.                                     *)
(***************************************************************************)
EXTENDS Naturals, FiniteSets

None == "none"

ClientKinds == {"tcp-client", "spp-client", "ble-client", "serial"}
ServerKinds == {"tcp-server", "ble-server"}

\* What the plan knows of the running daemon: rt.active, the bridges whose TNC
\* link is up; rt.sessions, records of bridge, port, peer and seq; rt.mac, the
\* MAC that an adapter selector means now, or None.
sessions(rt, b, p) == {s \in rt.sessions : s.bridge = b /\ s.port = p}

tnc_active(rt, b) == b \in rt.active

same_adapter(rt, a, b) ==
  a = b \/ (rt.mac[a] # None /\ rt.mac[a] = rt.mac[b])

\* The sessions over max, newest first.
newest_beyond(ss, max) ==
  {s \in ss : Cardinality({t \in ss : t.seq < s.seq}) >= max}

allowed(allow, peer) == allow = {} \/ peer \in allow

\* Whether the change from port o to port n changes the link itself.
restart(rt, o, n) ==
  \/ o.role # n.role
  \/ o.kind # n.kind
  \/ o.where # n.where
  \/ ~same_adapter(rt, o.adapter, n.adapter)
  \/ o.model # n.model

\* The settings that are applied without restarting the port.
LiveSettings(p) == <<p.tnc, p.policy, p.max, p.allow, p.announce>>

\* The sessions that a live change of a server port disconnects.
kick(rt, b, id, o, n) ==
  LET ss == sessions(rt, b, id)
  IN  {s \in ss : o.allow # n.allow /\ ~allowed(n.allow, s.peer)}
        \cup (IF o.max # n.max /\ n.max # 0 THEN newest_beyond(ss, n.max) ELSE {})

PortPlan(action, disconnects, drops) ==
  [action |-> action, disconnects |-> disconnects, drops_tnc_link |-> drops]

started == PortPlan("started", {}, FALSE)

stopped(rt, b, id) == PortPlan("stopped", sessions(rt, b, id), FALSE)

\* Variant with a defect: a restart doesn't say whom it disconnects.
compare_port_silent(rt, b, id, o, n) ==
  IF restart(rt, o, n)
  THEN PortPlan("restarted", {}, n.role = "tnc" /\ tnc_active(rt, b))
  ELSE PortPlan(IF LiveSettings(o) = LiveSettings(n) THEN "unchanged" ELSE "updated",
                kick(rt, b, id, o, n), FALSE)

compare_port(rt, b, id, o, n) ==
  IF restart(rt, o, n)
  THEN IF n.role = "tnc"
       THEN PortPlan("restarted", {}, tnc_active(rt, b))
       ELSE PortPlan("restarted", sessions(rt, b, id), FALSE)
  ELSE PortPlan(IF LiveSettings(o) = LiveSettings(n) THEN "unchanged" ELSE "updated",
                kick(rt, b, id, o, n), FALSE)

BridgePlan(action, changes, ports, in_use) ==
  [action |-> action, changes |-> changes, ports |-> ports, stops_in_use |-> in_use]

stop_bridge(rt, b, br) ==
  LET pp == [id \in DOMAIN br.ports |-> stopped(rt, b, id)]
  IN  BridgePlan("stopped", {}, pp,
                 tnc_active(rt, b) \/ \E id \in DOMAIN pp : pp[id].disconnects # {})

compare_bridge(rt, b, o, n) ==
  LET changes == {f \in {"name", "public_name", "app_params"} : o[f] # n[f]}
      pp == [id \in DOMAIN o.ports \cup DOMAIN n.ports |->
               CASE id \notin DOMAIN n.ports -> stopped(rt, b, id)
                 [] id \notin DOMAIN o.ports -> started
                 [] OTHER -> compare_port(rt, b, id, o.ports[id], n.ports[id])]
      same == changes = {} /\ \A id \in DOMAIN pp : pp[id].action = "unchanged"
  IN  BridgePlan(IF same THEN "unchanged" ELSE "updated", changes, pp, FALSE)

Enabled(c) == {b \in DOMAIN c.bridges : c.bridges[b].enabled}

\* What applying new over old would do.
plan(rt, old, new) ==
  [global |-> {f \in {"log_level", "group"} : old[f] # new[f]},
   bridges |->
     [b \in Enabled(old) \cup Enabled(new) |->
        CASE b \notin Enabled(new) -> stop_bridge(rt, b, old.bridges[b])
          [] b \notin Enabled(old) ->
               BridgePlan("started", {}, [id \in DOMAIN new.bridges[b].ports |-> started], FALSE)
          [] OTHER -> compare_bridge(rt, b, old.bridges[b], new.bridges[b])]]

disconnects(pl) ==
  UNION {UNION {pl.bridges[b].ports[id].disconnects : id \in DOMAIN pl.bridges[b].ports} :
         b \in DOMAIN pl.bridges}

disruptive(pl) ==
  \/ disconnects(pl) # {}
  \/ \E b \in DOMAIN pl.bridges :
       \/ pl.bridges[b].stops_in_use
       \/ \E id \in DOMAIN pl.bridges[b].ports : pl.bridges[b].ports[id].drops_tnc_link
=============================================================================
