----------------------------- MODULE Supervisor -----------------------------
(***************************************************************************)
(* The supervisor (supervisor.rs): it holds the configuration in effect    *)
(* and the running bridges, and changes them by computing a plan and       *)
(* applying it in three passes: stops, live updates, starts.               *)
(*                                                                         *)
(* Each pass awaits the bridges and ports it talks to, so sessions come    *)
(* and go, links go up and down and adapters are plugged in between two    *)
(* passes, and between the snapshots the plan is made from and the first   *)
(* pass.  Those are the environment's actions, and count against bounds.   *)
(* A running bridge is what its tasks were given: the connector, the TNC   *)
(* settings, the public name, and a record for each running port.          *)
(***************************************************************************)
EXTENDS Reconcile, Sequences

CONSTANTS
  Workloads,     \* the valid configurations that starts and reloads find; how many
                 \* reloads there are, sessions that open, and faults
  Peers,         \* the apps that may connect
  Adapters       \* sequences of MACs that may be present, in hciN order

VARIABLES
  cfg,       \* Daemon.cfg, the configuration in effect
  bridges,   \* Daemon.bridges: a function of the running bridges' ids
  adjusted,  \* state.toml: the configured name a bridge's public name was
             \* adjusted from after a collision, or None
  bt,        \* what is set up when first needed, and kept: "session", "spp" and "ble"
             \* of Bt, and the "announcer"
  job,       \* the plan being applied: the configuration it leads to, the pass it is
             \* in, and the bridges that the second pass has yet to update; history:
             \* the sessions and links in its snapshot
  sess,      \* the open sessions
  kicked,    \* those told to go
  up,        \* the bridges whose TNC link is up
  adapters,  \* the MACs of the adapters present
  bluez,     \* whether BlueZ can be reached
  avahi,     \* whether Avahi can be reached
  failed,    \* history: what did not start, or restart, for want of BlueZ
  tally      \* how often the environment acted

sup_vars == <<cfg, bridges, adjusted, bt, job, sess, kicked, up, adapters, bluez, avahi, failed, tally>>
outside == <<sess, up, adapters, bluez, avahi, tally>>

------------------------------------------------------------------------------
(* The configurations: only a valid one is built.                          *)

Configs == UNION {d.configs : d \in Workloads}

\* An enabled bridge has exactly one TNC port.
OneTncPort(c) ==
  \A b \in Enabled(c) : \E t \in DOMAIN c.bridges[b].ports :
    \A id \in DOMAIN c.bridges[b].ports : c.bridges[b].ports[id].role = "tnc" <=> id = t

\* Two ports that listen on the same socket. Listen::conflicts_with also refuses
\* an address next to its wildcard: less is assumed here than is validated.
conflict(p, q) == p.kind = "tcp-server" /\ q.kind = "tcp-server" /\ p.where = q.where

\* Listen sockets of two enabled bridges don't conflict.
ListensApart(c) ==
  \A a, b \in Enabled(c) : \A i \in DOMAIN c.bridges[a].ports, j \in DOMAIN c.bridges[b].ports :
    conflict(c.bridges[a].ports[i], c.bridges[b].ports[j]) => a = b

ASSUME ValidConfigs ==
  \A c \in Configs : /\ DOMAIN c = {"log_level", "group", "bridges"}
                     /\ OneTncPort(c) /\ ListensApart(c)

------------------------------------------------------------------------------
(* What a bridge and its ports are given when they start.                  *)

Empty(c) == [c EXCEPT !.bridges = [b \in {} |-> None]]

tnc_port(br) == CHOOSE id \in DOMAIN br.ports : br.ports[id].role = "tnc"

settings_for(br) ==
  LET id == tnc_port(br)
  IN  [port_id |-> id, policy |-> br.ports[id].policy, app_params |-> br.app_params]

\* What a connector to a TNC port needs of Bt.
BtNeeds(p) == CASE p.kind = "spp-client" -> {"session", "spp"}
              [] p.kind = "ble-client" -> {"session"}
              [] p.kind = "ble-server" -> {"session", "ble"}
              [] OTHER -> {}

\* Whether what p needs is set up, or can be.
Reaches(p) == bluez \/ BtNeeds(p) \subseteq bt

\* connector_for fails for a server kind, and when it can't set up Bluetooth.
connector_ok(p) == p.kind \in ClientKinds /\ Reaches(p)

connector(p) == [kind |-> p.kind, where |-> p.where, adapter |-> p.adapter, model |-> p.model]

\* start_port: a client kind is skipped, with a warning, as an app port.
starts(p) == p.kind \in ServerKinds /\ Reaches(p)

\* There is an announcer, or one can be started.
announcer == avahi \/ "announcer" \in bt

running_port(p) ==
  [kind |-> p.kind, where |-> p.where, adapter |-> p.adapter, max |-> p.max,
   allow |-> p.allow, follow |-> p.announce /\ announcer]

RunningTnc == [kind |-> "tnc", where |-> None, adapter |-> None, max |-> 0,
               allow |-> {}, follow |-> FALSE]

effective_public_name(b, br) == [configured |-> br.public_name, adjusted |-> adjusted[b] = br.public_name]

app_ports_of(br) == {id \in DOMAIN br.ports : br.ports[id].role = "app"}

\* The bridge that start_bridge inserts.
started_bridge(b, br) ==
  LET apps == {id \in app_ports_of(br) : starts(br.ports[id])}
  IN  [connector |-> connector(br.ports[tnc_port(br)]),
       settings |-> settings_for(br),
       name |-> effective_public_name(b, br),
       ports |-> [id \in apps \cup {tnc_port(br)} |->
                    IF id \in apps THEN running_port(br.ports[id]) ELSE RunningTnc]]

\* The announcer that ports started or updated now set up.
announcer_for(ports) ==
  IF announcer /\ \E p \in ports : p.kind = "tcp-server" /\ p.announce THEN {"announcer"} ELSE {}

\* The settings of a running port after update_port.
update_running(rp, p) ==
  CASE rp.kind = "tcp-server" /\ p.kind = "tcp-server" ->
         [rp EXCEPT !.max = p.max, !.allow = p.allow,
                    !.follow = IF p.announce THEN rp.follow \/ announcer ELSE FALSE]
    [] rp.kind = "ble-server" /\ p.kind = "ble-server" -> [rp EXCEPT !.max = p.max]
    [] OTHER -> rp

------------------------------------------------------------------------------
(* The passes of apply.  RunPort(b, id) is the kind of a running port.     *)

Running(b) == b \in DOMAIN bridges
RunPort(b, id) == IF Running(b) /\ id \in DOMAIN bridges[b].ports
                  THEN bridges[b].ports[id].kind ELSE None

\* Variant with a defect: a listening port that is removed isn't stopped.
ports_to_stop_listening(b, bp) ==
  {id \in DOMAIN bp.ports :
     \/ bp.ports[id].action = "stopped" /\ RunPort(b, id) # "tcp-server"
     \/ bp.ports[id].action = "restarted" /\ RunPort(b, id) # "tnc"}

\* The ports of an updated bridge that the first pass stops.
ports_to_stop(b, bp) ==
  {id \in DOMAIN bp.ports :
     \/ bp.ports[id].action = "stopped"
     \/ bp.ports[id].action = "restarted" /\ RunPort(b, id) # "tnc"}

Without(f, S) == [x \in DOMAIN f \ S |-> f[x]]

\* Sessions end with their port, or their bridge.
ends(gone) == /\ sess' = {s \in sess : <<s.bridge, s.port>> \notin gone}
              /\ kicked' = {s \in kicked : <<s.bridge, s.port>> \notin gone}

InPlan(action) == {b \in DOMAIN job.plan.bridges : job.plan.bridges[b].action = action}

ApplyStops ==
  /\ job.pass = "stops"
  /\ LET dead == InPlan("stopped") \cap DOMAIN bridges
         upd == InPlan("updated") \cap DOMAIN bridges
         stop(b) == ports_to_stop(b, job.plan.bridges[b])
     IN  /\ bridges' = [b \in DOMAIN bridges \ dead |->
                          IF b \in upd THEN [bridges[b] EXCEPT !.ports = Without(@, stop(b))]
                          ELSE bridges[b]]
         /\ up' = up \ dead
         /\ ends((UNION {{<<b, id>> : id \in DOMAIN bridges[b].ports} : b \in dead})
                   \cup (UNION {{<<b, id>> : id \in stop(b)} : b \in upd}))
  /\ job' = [job EXCEPT !.pass = "updates", !.todo = InPlan("updated")]
  /\ UNCHANGED <<cfg, adjusted, bt, adapters, bluez, avahi, failed, tally>>

\* The second pass for one bridge: name, settings, connector, live settings.
tnc_updated(b, bp) ==
  \/ "app_params" \in bp.changes
  \/ \E id \in DOMAIN bp.ports : bp.ports[id].action = "updated" /\ RunPort(b, id) = "tnc"

Restarting(b, bp, br) ==
  {id \in DOMAIN bp.ports : /\ bp.ports[id].action = "restarted"
                            /\ RunPort(b, id) = "tnc"
                            /\ id \in DOMAIN br.ports}

\* Variant with a defect: the live settings of a server port aren't passed on.
updated_bridge_not_ports(b, bp, br) ==
  LET rb == bridges[b]
      again == {id \in Restarting(b, bp, br) : connector_ok(br.ports[id])}
  IN  [connector |-> IF again = {} THEN rb.connector
                     ELSE connector(br.ports[CHOOSE id \in again : TRUE]),
       settings |-> IF tnc_updated(b, bp) THEN settings_for(br) ELSE rb.settings,
       name |-> IF "public_name" \in bp.changes
                THEN [configured |-> br.public_name, adjusted |-> FALSE] ELSE rb.name,
       ports |-> rb.ports]

updated_bridge(b, bp, br) ==
  LET rb == bridges[b]
      again == {id \in Restarting(b, bp, br) : connector_ok(br.ports[id])}
  IN  [connector |-> IF again = {} THEN rb.connector
                     ELSE connector(br.ports[CHOOSE id \in again : TRUE]),
       settings |-> IF tnc_updated(b, bp) THEN settings_for(br) ELSE rb.settings,
       name |-> IF "public_name" \in bp.changes
                THEN [configured |-> br.public_name, adjusted |-> FALSE] ELSE rb.name,
       ports |-> [id \in DOMAIN rb.ports |->
                    IF id \in DOMAIN bp.ports /\ bp.ports[id].action = "updated"
                    THEN update_running(rb.ports[id], br.ports[id]) ELSE rb.ports[id]]]

\* The sessions told to go by BridgeCmd::Kick.
kicks(bp) == UNION {bp.ports[id].disconnects :
                      id \in {i \in DOMAIN bp.ports : bp.ports[i].action = "updated"}}

ApplyUpdate(b) ==
  /\ job.pass = "updates" /\ b \in job.todo
  /\ LET bp == job.plan.bridges[b]
         br == job.new.bridges[b]
         again == IF Running(b) THEN Restarting(b, bp, br) ELSE {}
         live == {id \in DOMAIN br.ports : /\ RunPort(b, id) \in ServerKinds
                                           /\ bp.ports[id].action = "updated"}
         renewed == {id \in again : connector_ok(br.ports[id])}
     IN  /\ bridges' = IF Running(b) THEN [bridges EXCEPT ![b] = updated_bridge(b, bp, br)]
                       ELSE bridges
         /\ bt' = bt \cup (UNION {BtNeeds(br.ports[id]) : id \in renewed})
                     \cup announcer_for({br.ports[id] : id \in live})
         \* A new connector ends the link that the old one made.
         /\ up' = IF renewed = {} THEN up ELSE up \ {b}
         /\ failed' = IF \E id \in again : ~Reaches(br.ports[id]) THEN failed \cup {b} ELSE failed
         /\ adjusted' = IF "public_name" \in bp.changes THEN [adjusted EXCEPT ![b] = None]
                        ELSE adjusted
         /\ kicked' = IF Running(b) THEN kicked \cup (sess \cap kicks(bp)) ELSE kicked
  /\ job' = [job EXCEPT !.todo = @ \ {b}]
  /\ UNCHANGED <<cfg, sess, adapters, bluez, avahi, tally>>

\* No plan: nothing is being applied.
NoPlan == [global |-> {}, bridges |-> [b \in {} |-> None]]

\* The third pass: new bridges, and new or restarted app ports of running ones.
ports_to_start(b, bp) ==
  {id \in DOMAIN bp.ports :
     \/ bp.ports[id].action = "started"
     \/ bp.ports[id].action = "restarted" /\ RunPort(b, id) = None}

with_ports(rb, br, ids) ==
  LET ok == {id \in ids : starts(br.ports[id])}
  IN  [rb EXCEPT !.ports = [id \in DOMAIN rb.ports \cup ok |->
                              IF id \in ok THEN running_port(br.ports[id]) ELSE rb.ports[id]]]

ApplyStarts ==
  /\ job.pass = "updates" /\ job.todo = {}
  /\ LET br(b) == job.new.bridges[b]
         tnc(b) == br(b).ports[tnc_port(br(b))]
         new == {b \in InPlan("started") : connector_ok(tnc(b))}
         upd == InPlan("updated") \cap DOMAIN bridges
         todo(b) == IF b \in new THEN app_ports_of(br(b))
                    ELSE ports_to_start(b, job.plan.bridges[b])
         lost == {b \in InPlan("started") : ~Reaches(tnc(b))}
                   \cup {b \in new \cup upd : \E id \in todo(b) :
                           br(b).ports[id].kind \in ServerKinds /\ ~Reaches(br(b).ports[id])}
     IN  /\ bridges' = [b \in DOMAIN bridges \cup new |->
                          CASE b \in new -> started_bridge(b, br(b))
                            [] b \in upd -> with_ports(bridges[b], br(b), todo(b))
                            [] OTHER -> bridges[b]]
         /\ bt' = bt \cup (UNION {BtNeeds(tnc(b)) : b \in new})
                     \cup (UNION {UNION {IF starts(br(b).ports[id]) THEN BtNeeds(br(b).ports[id]) ELSE {} :
                                           id \in todo(b)} : b \in new \cup upd})
                     \cup announcer_for(UNION {{br(b).ports[id] : id \in todo(b)} : b \in new \cup upd})
         \* effective_public_name drops an adjustment of another name.
         /\ adjusted' = [b \in DOMAIN adjusted |->
                           IF b \in new /\ adjusted[b] # br(b).public_name THEN None ELSE adjusted[b]]
         /\ failed' = (failed \ InPlan("stopped")) \cup lost
         \* At start-up, not reaching BlueZ ends the process.
         /\ job' = [job EXCEPT !.pass = IF job.boot /\ lost # {} THEN "exited" ELSE "idle",
                               !.boot = FALSE, !.plan = NoPlan,
                               !.seen = {}, !.active = {}]
  /\ cfg' = job.new
  /\ UNCHANGED <<sess, kicked, up, adapters, bluez, avahi, tally>>

------------------------------------------------------------------------------
(* Plans.                                                                  *)

\* The MAC that a selector means, from what Bt::adapters lists: nothing before
\* there is a session.
lookup(sel) ==
  LET present == IF "session" \in bt THEN adapters ELSE <<>>
  IN  CASE sel[1] = "mac" -> sel[2]
        [] sel[1] = "hci" /\ sel[2] < Len(present) -> present[sel[2] + 1]
        [] sel[1] = "default" /\ present # <<>> -> present[1]
        [] OTHER -> None

Selectors ==
  UNION {UNION {{c.bridges[b].ports[id].adapter : id \in DOMAIN c.bridges[b].ports} :
                  b \in DOMAIN c.bridges} : c \in Configs}

plan_for(new) ==
  plan([active |-> up, sessions |-> sess, mac |-> [s \in Selectors |-> lookup(s)]], cfg, new)

\* The job that the daemon starts with: a plan from nothing running.
StartUp(c) ==
  [pass |-> "stops", new |-> c, todo |-> {}, boot |-> TRUE,
   seen |-> {}, active |-> {},
   plan |-> plan([active |-> {}, sessions |-> {}, mac |-> [s \in Selectors |-> None]],
                 Empty(c), c)]

AtRest == job.pass = "idle"

may_apply(nd, pl) == ~(nd /\ disruptive(pl))

\* reload, change: the configuration is read and built, the plan made from
\* snapshots, and refused if it would disrupt and mustn't.  An invalid
\* configuration or a refusal changes nothing.
ReloadPlan(new, nd) ==
  /\ AtRest /\ tally.reloads < tally.bound.reloads
  /\ LET pl == plan_for(new)
     IN  /\ may_apply(nd, pl)
         /\ job' = [job EXCEPT !.pass = "stops", !.plan = pl, !.new = new,
                               !.seen = sess, !.active = up]
  /\ tally' = [tally EXCEPT !.reloads = @ + 1]
  /\ UNCHANGED <<cfg, bridges, adjusted, bt, sess, kicked, up, adapters, bluez, avahi, failed>>

\* session.kick, of a session the bridge's snapshot has.
Kick(s) ==
  /\ AtRest /\ s \in sess /\ s \notin kicked
  /\ kicked' = kicked \cup {s}
  /\ UNCHANGED <<cfg, bridges, adjusted, bt, job, failed>> /\ UNCHANGED outside

\* bridge.retry_public_name.
RetryPublicName(b) ==
  /\ AtRest /\ b \in DOMAIN cfg.bridges /\ adjusted[b] # None
  /\ adjusted' = [adjusted EXCEPT ![b] = None]
  /\ bridges' = IF Running(b)
                THEN [bridges EXCEPT ![b].name =
                        [configured |-> cfg.bridges[b].public_name, adjusted |-> FALSE]]
                ELSE bridges
  /\ UNCHANGED <<cfg, bt, job, kicked, failed>> /\ UNCHANGED outside

\* Shutdown, or the exit of a start-up without BlueZ: every bridge closes its
\* link, every session ends, and the next start finds some configuration.
Restart(c) ==
  /\ job.pass = "exited" \/ (AtRest /\ tally.faults < tally.bound.faults)
  /\ cfg' = Empty(c)
  /\ bridges' = [b \in {} |-> None]
  /\ bt' = {} /\ sess' = {} /\ kicked' = {} /\ up' = {} /\ failed' = {}
  /\ job' = StartUp(c)
  /\ tally' = [tally EXCEPT !.faults = IF AtRest THEN @ + 1 ELSE @]
  /\ UNCHANGED <<adjusted, adapters, bluez, avahi>>

------------------------------------------------------------------------------
(* The environment: apps, links, collisions, adapters, services.           *)

PortSessions(b, p) == {s \in sess : s.bridge = b /\ s.port = p}

\* A server port admits a peer under the settings it has now.
Open(b, p, peer) ==
  /\ tally.opens < tally.bound.opens
  /\ RunPort(b, p) \in ServerKinds
  /\ LET rp == bridges[b].ports[p]
     IN  /\ allowed(rp.allow, peer)
         /\ rp.max = 0 \/ Cardinality(PortSessions(b, p)) < rp.max
         /\ \A s \in PortSessions(b, p) : s.peer # peer
  /\ sess' = sess \cup {[bridge |-> b, port |-> p, peer |-> peer, seq |-> tally.opens]}
  /\ tally' = [tally EXCEPT !.opens = @ + 1]
  /\ UNCHANGED <<cfg, bridges, adjusted, bt, job, kicked, up, adapters, bluez, avahi, failed>>

\* A session ends on its own, or because it was kicked.
Close(s) ==
  /\ sess' = sess \ {s}
  /\ kicked' = kicked \ {s}
  /\ UNCHANGED <<cfg, bridges, adjusted, bt, job, up, adapters, bluez, avahi, failed, tally>>

LinkChanges(b) ==
  /\ up' = IF b \in up THEN up \ {b} ELSE up \cup {b}
  /\ UNCHANGED <<cfg, bridges, adjusted, bt, job, sess, kicked, adapters, bluez, avahi, failed, tally>>

\* The announcer renames a bridge after a collision.
Collision(b) ==
  /\ \E p \in DOMAIN bridges[b].ports : bridges[b].ports[p].follow
  /\ ~bridges[b].name.adjusted
  /\ bridges' = [bridges EXCEPT ![b].name.adjusted = TRUE]
  /\ adjusted' = [adjusted EXCEPT ![b] = bridges[b].name.configured]
  /\ UNCHANGED <<cfg, bt, job, kicked, failed>> /\ UNCHANGED outside

HostChanges ==
  /\ tally.faults < tally.bound.faults
  /\ tally' = [tally EXCEPT !.faults = @ + 1]
  /\ \/ \E a \in Adapters \ {adapters} : adapters' = a /\ UNCHANGED <<bluez, avahi>>
     \/ bluez' = ~bluez /\ UNCHANGED <<adapters, avahi>>
     \/ avahi' = ~avahi /\ UNCHANGED <<adapters, bluez>>
  /\ UNCHANGED <<cfg, bridges, adjusted, bt, job, sess, kicked, up, failed>>

SupInit ==
  \E d \in Workloads : \E c \in d.configs :
    /\ cfg = Empty(c)
    /\ bridges = [b \in {} |-> None]
    /\ adjusted = [b \in UNION {DOMAIN x.bridges : x \in Configs} |-> None]
    /\ bt = {} /\ sess = {} /\ kicked = {} /\ up = {} /\ failed = {}
    /\ adapters \in Adapters /\ bluez \in BOOLEAN /\ avahi \in BOOLEAN
    /\ job = StartUp(c)
    /\ tally = [reloads |-> 0, opens |-> 0, faults |-> 0, bound |-> d]

ApplyPlan == ApplyStops \/ (\E b \in job.todo : ApplyUpdate(b)) \/ ApplyStarts

SupNext ==
  \/ ApplyPlan
  \/ \E c \in tally.bound.configs, nd \in BOOLEAN : ReloadPlan(c, nd)
  \/ \E s \in sess : Kick(s) \/ Close(s)
  \/ \E b \in DOMAIN adjusted : RetryPublicName(b)
  \/ \E c \in tally.bound.configs : Restart(c)
  \/ \E b \in DOMAIN bridges : LinkChanges(b) \/ Collision(b)
  \/ \E b \in DOMAIN bridges, peer \in Peers : \E p \in DOMAIN bridges[b].ports : Open(b, p, peer)
  \/ HostChanges

SupSpec == SupInit /\ [][SupNext]_sup_vars

------------------------------------------------------------------------------
(* Properties.                                                             *)

Settled == AtRest /\ failed = {}

\* Once a plan is applied and nothing failed to start, the bridges that run are
\* the enabled ones whose TNC port can have a connector, and the app ports that
\* run are the configured servers, at their configured addresses with the
\* configured limits, whatever the sequence of reloads (apply's three passes).
\* Where the TNC port runs under its configured id, the bridge connects to the
\* configured TNC.
RunsAsConfigured ==
  Settled =>
    /\ DOMAIN bridges = {b \in Enabled(cfg) :
                          cfg.bridges[b].ports[tnc_port(cfg.bridges[b])].kind \in ClientKinds}
    /\ \A b \in DOMAIN bridges :
         LET br == cfg.bridges[b]
             want == {id \in app_ports_of(br) : br.ports[id].kind \in ServerKinds}
             tnc == br.ports[tnc_port(br)]
             c == bridges[b].connector
         IN  /\ want = {id \in DOMAIN bridges[b].ports : RunPort(b, id) \in ServerKinds}
             /\ \A id \in want :
                  LET rp == bridges[b].ports[id]
                      p == br.ports[id]
                  IN  /\ <<rp.kind, rp.where, rp.max>> = <<p.kind, p.where, p.max>>
                      /\ p.kind = "tcp-server" => rp.allow = p.allow /\ (rp.follow => p.announce)
             /\ RunPort(b, tnc_port(br)) = "tnc" =>
                  <<c.kind, c.where, c.model>> = <<tnc.kind, tnc.where, tnc.model>>

\* Between the passes no two running ports claim the same listen socket: what
\* a port gives up is free before another takes it (stops before starts).
SocketsClaimedOnce ==
  LET listeners == UNION {{<<b, id>> : id \in {i \in DOMAIN bridges[b].ports :
                                               RunPort(b, i) = "tcp-server"}} : b \in DOMAIN bridges}
  IN  \A x, y \in listeners :
        bridges[x[1]].ports[x[2]].where = bridges[y[1]].ports[y[2]].where => x = y

\* Applying a plan ends or kicks no session, and drops no link, that was in the
\* plan's snapshot unless the plan says so.
Foretold ==
  ApplyPlan =>
    /\ \A s \in (sess \ kicked) \cap job.seen :
         s \notin sess' \ kicked' => s \in disconnects(job.plan)
    /\ \A b \in (up \cap job.active) \ up' :
         \/ job.plan.bridges[b].stops_in_use
         \/ \E id \in DOMAIN job.plan.bridges[b].ports :
              job.plan.bridges[b].ports[id].drops_tnc_link

DisruptionsForetold == [][Foretold]_sup_vars

------------------------------------------------------------------------------
(* What validation does not ask of the configurations, and the properties  *)
(* above rest on.                                                          *)

\* The listen sockets of one bridge differ too: validate only compares those of
\* different bridges.
ListensOnce ==
  \A c \in Configs : \A b \in Enabled(c) : \A i, j \in DOMAIN c.bridges[b].ports :
    conflict(c.bridges[b].ports[i], c.bridges[b].ports[j]) => i = j

\* The TNC port is of a kind that connects: role = "tnc" is accepted on a server.
TncsAreClients ==
  \A c \in Configs : \A b \in Enabled(c) : \A id \in DOMAIN c.bridges[b].ports :
    c.bridges[b].ports[id].role = "tnc" => c.bridges[b].ports[id].kind \in ClientKinds

\* Every port has one of the two roles, and keeps it as long as it has its id.
RolesKept ==
  /\ \A c \in Configs : \A b \in Enabled(c) : \A id \in DOMAIN c.bridges[b].ports :
       c.bridges[b].ports[id].role \in {"tnc", "app"}
  /\ \A c, d \in Configs : \A b \in Enabled(c) \cap Enabled(d) :
       \A id \in DOMAIN c.bridges[b].ports \cap DOMAIN d.bridges[b].ports :
         c.bridges[b].ports[id].role = d.bridges[b].ports[id].role
=============================================================================
