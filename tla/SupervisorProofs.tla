-------------------------- MODULE SupervisorProofs --------------------------
(***************************************************************************)
(* Proofs about the supervisor: whatever the sequence of reloads, restarts *)
(* and host changes, running ports never claim a socket twice, a plan that *)
(* was applied without a failure leaves what is configured running, and    *)
(* applying a plan disrupts only whom the plan names.                      *)
(***************************************************************************)
EXTENDS Supervisor, TLAPS

------------------------------------------------------------------------------
(* Plans.                                                                  *)

\* What compare_port says of a port that both configurations have.
LEMMA ComparedPort ==
  ASSUME NEW rt, NEW b, NEW id, NEW o, NEW n
  PROVE  LET pp == compare_port(rt, b, id, o, n)
         IN  /\ pp.action \in {"restarted", "unchanged", "updated"}
             /\ pp.action # "restarted" => /\ o.role = n.role /\ o.kind = n.kind
                                           /\ o.where = n.where /\ o.model = n.model
             /\ pp.action = "unchanged" => o.max = n.max /\ o.allow = n.allow /\ o.announce = n.announce
             /\ pp.action = "restarted" /\ n.role = "tnc" => pp.drops_tnc_link = (b \in rt.active)
             /\ pp.action = "restarted" /\ n.role # "tnc" => pp.disconnects = sessions(rt, b, id)
<1> DEFINE pp == compare_port(rt, b, id, o, n)
<1>1. CASE restart(rt, o, n)
  BY <1>1, Zenon DEF compare_port, PortPlan, tnc_active
<1>2. CASE ~restart(rt, o, n)
  <2>1. pp = PortPlan(IF LiveSettings(o) = LiveSettings(n) THEN "unchanged" ELSE "updated",
                      kick(rt, b, id, o, n), FALSE)
    BY <1>2 DEF compare_port
  <2>2. pp.action = (IF LiveSettings(o) = LiveSettings(n) THEN "unchanged" ELSE "updated")
    BY <2>1 DEF PortPlan
  <2>3. pp.action = "unchanged" => o.max = n.max /\ o.allow = n.allow /\ o.announce = n.announce
    BY <2>2 DEF LiveSettings
  <2>4. o.role = n.role /\ o.kind = n.kind /\ o.where = n.where /\ o.model = n.model
    BY <1>2 DEF restart
  <2> HIDE DEF pp
  <2> QED BY <2>2, <2>3, <2>4 DEF pp
<1> HIDE DEF pp
<1> QED BY <1>1, <1>2 DEF pp

\* The bridges of a plan, and what it says of a bridge that only one of the
\* configurations has enabled.
LEMMA PlannedBridges ==
  ASSUME NEW rt, NEW old, NEW new
  PROVE  LET pl == plan(rt, old, new)
         IN  /\ DOMAIN pl.bridges = Enabled(old) \cup Enabled(new)
             /\ \A b \in Enabled(old) \ Enabled(new) :
                  pl.bridges[b] = stop_bridge(rt, b, old.bridges[b])
             /\ \A b \in Enabled(new) \ Enabled(old) : pl.bridges[b].action = "started"
             /\ \A b \in Enabled(old) \cap Enabled(new) :
                  pl.bridges[b] = compare_bridge(rt, b, old.bridges[b], new.bridges[b])
<1> DEFINE f == [b \in Enabled(old) \cup Enabled(new) |->
                   CASE b \notin Enabled(new) -> stop_bridge(rt, b, old.bridges[b])
                     [] b \notin Enabled(old) ->
                          BridgePlan("started", {}, [id \in DOMAIN new.bridges[b].ports |-> started], FALSE)
                     [] OTHER -> compare_bridge(rt, b, old.bridges[b], new.bridges[b])]
<1>1. plan(rt, old, new).bridges = f
  BY DEF plan
<1>2. \A b \in Enabled(old) \ Enabled(new) : f[b] = stop_bridge(rt, b, old.bridges[b])
  OBVIOUS
<1>3. \A b \in Enabled(new) \ Enabled(old) : f[b].action = "started"
  BY DEF BridgePlan
<1>4. \A b \in Enabled(old) \cap Enabled(new) :
        f[b] = compare_bridge(rt, b, old.bridges[b], new.bridges[b])
  OBVIOUS
<1>5. DOMAIN f = Enabled(old) \cup Enabled(new)
  OBVIOUS
<1> HIDE DEF f
<1> QED BY <1>1, <1>2, <1>3, <1>4, <1>5

\* A bridge that is stopped: every port's sessions are named.
LEMMA StoppedBridge ==
  ASSUME NEW rt, NEW b, NEW br
  PROVE  LET bp == stop_bridge(rt, b, br)
         IN  /\ bp.action = "stopped" /\ DOMAIN bp.ports = DOMAIN br.ports
             /\ \A id \in DOMAIN br.ports : bp.ports[id].disconnects = sessions(rt, b, id)
             /\ b \in rt.active => bp.stops_in_use
  BY DEF stop_bridge, BridgePlan, stopped, PortPlan, tnc_active

\* A bridge that both configurations have enabled, port by port.
LEMMA ComparedBridge ==
  ASSUME NEW rt, NEW b, NEW o, NEW n
  PROVE  LET bp == compare_bridge(rt, b, o, n)
         IN  /\ bp.action \in {"unchanged", "updated"}
             /\ DOMAIN bp.ports = DOMAIN o.ports \cup DOMAIN n.ports
             /\ bp.action = "unchanged" => \A id \in DOMAIN bp.ports : bp.ports[id].action = "unchanged"
             /\ \A id \in DOMAIN o.ports \ DOMAIN n.ports : bp.ports[id] = stopped(rt, b, id)
             /\ \A id \in DOMAIN n.ports \ DOMAIN o.ports : bp.ports[id] = started
             /\ \A id \in DOMAIN o.ports \cap DOMAIN n.ports :
                  bp.ports[id] = compare_port(rt, b, id, o.ports[id], n.ports[id])
<1> DEFINE bp == compare_bridge(rt, b, o, n)
<1> DEFINE pp == [id \in DOMAIN o.ports \cup DOMAIN n.ports |->
                    CASE id \notin DOMAIN n.ports -> stopped(rt, b, id)
                      [] id \notin DOMAIN o.ports -> started
                      [] OTHER -> compare_port(rt, b, id, o.ports[id], n.ports[id])]
           changes == {f \in {"name", "public_name", "app_params"} : o[f] # n[f]}
           same == changes = {} /\ \A id \in DOMAIN pp : pp[id].action = "unchanged"
<1>1. bp = BridgePlan(IF same THEN "unchanged" ELSE "updated", changes, pp, FALSE)
  BY DEF compare_bridge
<1> HIDE DEF changes
<1>2. /\ \A id \in DOMAIN o.ports \ DOMAIN n.ports : pp[id] = stopped(rt, b, id)
      /\ \A id \in DOMAIN n.ports \ DOMAIN o.ports : pp[id] = started
      /\ \A id \in DOMAIN o.ports \cap DOMAIN n.ports :
           pp[id] = compare_port(rt, b, id, o.ports[id], n.ports[id])
      /\ DOMAIN pp = DOMAIN o.ports \cup DOMAIN n.ports
  OBVIOUS
<1> HIDE DEF pp
<1>3. bp.ports = pp /\ bp.action = (IF same THEN "unchanged" ELSE "updated")
  BY <1>1 DEF BridgePlan
<1> HIDE DEF bp
<1>4. bp.action = "unchanged" => \A id \in DOMAIN bp.ports : bp.ports[id].action = "unchanged"
  BY <1>3
<1>5. bp.action \in {"unchanged", "updated"}
  BY <1>3
<1> HIDE DEF same
<1> QED BY <1>2, <1>3, <1>4, <1>5 DEF bp

------------------------------------------------------------------------------
(* What runs was configured.                                               *)

\* The records that the passes update have their fields.
Shaped(B) ==
  \A b \in DOMAIN B :
    /\ DOMAIN B[b] = {"connector", "settings", "name", "ports"}
    /\ \A id \in DOMAIN B[b].ports :
         DOMAIN B[b].ports[id] = {"kind", "where", "adapter", "max", "allow", "follow"}

\* A running port is where its configuration says; a TNC port is the bridge's
\* connector, and has no place of its own.
Keeps(rp, p) ==
  \/ rp.kind = "tnc"
  \/ rp.kind \in ServerKinds /\ rp.kind = p.kind /\ rp.where = p.where

\* Every bridge and port that runs is one of configuration c.
HeldBy(B, c) ==
  \A b \in DOMAIN B :
    /\ b \in Enabled(c)
    /\ \A id \in DOMAIN B[b].ports :
         /\ id \in DOMAIN c.bridges[b].ports
         /\ Keeps(B[b].ports[id], c.bridges[b].ports[id])

Snapshot(m) == [active |-> job.active, sessions |-> job.seen, mac |-> m]

\* The state is well formed, and the plan being applied is the one from the
\* configuration in effect to the new one, made from the job's snapshot.
PlanInv ==
  /\ DOMAIN job = {"pass", "new", "todo", "boot", "seen", "active", "plan"}
  /\ job.pass \in {"stops", "updates", "idle", "exited"}
  /\ job.new \in Configs
  /\ tally.bound \in Workloads
  /\ DOMAIN tally = {"reloads", "opens", "faults", "bound"}
  /\ cfg \in Configs \/ Enabled(cfg) = {}
  /\ job.pass \in {"stops", "updates"} => \E m : job.plan = plan(Snapshot(m), cfg, job.new)
  /\ job.pass = "updates" => job.todo \subseteq InPlan("updated")

\* What runs is configured: by the configuration in effect, and once the first
\* pass is over, by the new one too.
RunInv ==
  /\ Shaped(bridges)
  /\ HeldBy(bridges, cfg)
  /\ job.pass = "updates" => HeldBy(bridges, job.new)

\* A configuration that a start or a reload finds is one of Configs.
LEMMA FoundConfig ==
  ASSUME NEW d \in Workloads, NEW c \in d.configs
  PROVE  c \in Configs
  BY DEF Configs

\* Nothing is enabled before the first plan is applied.
LEMMA NothingEnabled ==
  ASSUME NEW c \in Configs
  PROVE  Enabled(Empty(c)) = {}
<1>1. DOMAIN c = {"log_level", "group", "bridges"}
  BY ValidConfigs
<1>2. Empty(c).bridges = [b \in {} |-> None]
  BY <1>1 DEF Empty
<1> QED BY <1>2 DEF Enabled

\* What the plan being applied says, bridge by bridge.
LEMMA PlanSays ==
  ASSUME PlanInv, job.pass \in {"stops", "updates"}
  PROVE  /\ DOMAIN job.plan.bridges = Enabled(cfg) \cup Enabled(job.new)
         /\ InPlan("stopped") = Enabled(cfg) \ Enabled(job.new)
         /\ InPlan("started") = Enabled(job.new) \ Enabled(cfg)
         /\ InPlan("updated") \subseteq Enabled(cfg) \cap Enabled(job.new)
         /\ \E m :
              /\ \A b \in InPlan("stopped") :
                   job.plan.bridges[b] = stop_bridge(Snapshot(m), b, cfg.bridges[b])
              /\ \A b \in Enabled(cfg) \cap Enabled(job.new) :
                   job.plan.bridges[b] =
                     compare_bridge(Snapshot(m), b, cfg.bridges[b], job.new.bridges[b])
<1>1. PICK m : job.plan = plan(Snapshot(m), cfg, job.new)
  BY DEF PlanInv
<1> DEFINE pl == job.plan
           both == Enabled(cfg) \cap Enabled(job.new)
<1>2. /\ DOMAIN pl.bridges = Enabled(cfg) \cup Enabled(job.new)
      /\ \A b \in Enabled(cfg) \ Enabled(job.new) :
           pl.bridges[b] = stop_bridge(Snapshot(m), b, cfg.bridges[b])
      /\ \A b \in Enabled(job.new) \ Enabled(cfg) : pl.bridges[b].action = "started"
      /\ \A b \in both :
           pl.bridges[b] = compare_bridge(Snapshot(m), b, cfg.bridges[b], job.new.bridges[b])
  BY <1>1, PlannedBridges
<1>3. \A b \in Enabled(cfg) \ Enabled(job.new) : pl.bridges[b].action = "stopped"
  BY <1>2, StoppedBridge
<1>4. \A b \in both : pl.bridges[b].action \in {"unchanged", "updated"}
  BY <1>2, ComparedBridge
<1> HIDE DEF both
<1>5. /\ InPlan("stopped") = Enabled(cfg) \ Enabled(job.new)
      /\ InPlan("started") = Enabled(job.new) \ Enabled(cfg)
      /\ InPlan("updated") \subseteq Enabled(cfg) \cap Enabled(job.new)
  BY <1>2, <1>3, <1>4 DEF InPlan, both
<1> QED BY <1>2, <1>5 DEF both

\* What the plan being applied says of a port of a bridge that stays enabled.
LEMMA PortSays ==
  ASSUME PlanInv, job.pass \in {"stops", "updates"}, NEW b \in Enabled(cfg) \cap Enabled(job.new), NEW id
  PROVE  LET o == cfg.bridges[b].ports
             n == job.new.bridges[b].ports
             pp == job.plan.bridges[b].ports
         IN  \E rt : /\ rt.active = job.active /\ rt.sessions = job.seen
                     /\ DOMAIN pp = DOMAIN o \cup DOMAIN n
                     /\ id \in DOMAIN o \ DOMAIN n => pp[id] = stopped(rt, b, id)
                     /\ id \in DOMAIN n \ DOMAIN o => pp[id] = started
                     /\ id \in DOMAIN o \cap DOMAIN n => pp[id] = compare_port(rt, b, id, o[id], n[id])
                     /\ id \in DOMAIN pp /\ b \notin InPlan("updated") => pp[id].action = "unchanged"
<1> DEFINE o == cfg.bridges[b]
           n == job.new.bridges[b]
           bp == job.plan.bridges[b]
<1>1. PICK m : bp = compare_bridge(Snapshot(m), b, o, n)
  BY PlanSays
<1>2. b \in DOMAIN job.plan.bridges
  BY PlanSays
<1> DEFINE rt == Snapshot(m)
<1>3. rt.active = job.active /\ rt.sessions = job.seen
  BY DEF Snapshot
<1> HIDE DEF rt, o, n, bp
<1> DEFINE cb == compare_bridge(rt, b, o, n)
<1>4. /\ cb.action \in {"unchanged", "updated"}
      /\ DOMAIN cb.ports = DOMAIN o.ports \cup DOMAIN n.ports
      /\ cb.action = "unchanged" => \A i \in DOMAIN cb.ports : cb.ports[i].action = "unchanged"
      /\ \A i \in DOMAIN o.ports \ DOMAIN n.ports : cb.ports[i] = stopped(rt, b, i)
      /\ \A i \in DOMAIN n.ports \ DOMAIN o.ports : cb.ports[i] = started
      /\ \A i \in DOMAIN o.ports \cap DOMAIN n.ports :
           cb.ports[i] = compare_port(rt, b, i, o.ports[i], n.ports[i])
  BY ComparedBridge
<1>5. bp = cb
  BY <1>1 DEF rt
<1> HIDE DEF cb
<1>6. b \notin InPlan("updated") => cb.action = "unchanged"
  BY <1>2, <1>4, <1>5 DEF InPlan, bp
<1>7. /\ DOMAIN bp.ports = DOMAIN o.ports \cup DOMAIN n.ports
      /\ id \in DOMAIN o.ports \ DOMAIN n.ports => bp.ports[id] = stopped(rt, b, id)
      /\ id \in DOMAIN n.ports \ DOMAIN o.ports => bp.ports[id] = started
      /\ id \in DOMAIN o.ports \cap DOMAIN n.ports =>
           bp.ports[id] = compare_port(rt, b, id, o.ports[id], n.ports[id])
      /\ id \in DOMAIN bp.ports /\ b \notin InPlan("updated") => bp.ports[id].action = "unchanged"
  BY <1>4, <1>5, <1>6
<1> QED BY <1>3, <1>7 DEF o, n, bp

\* The ports that the plan lists for such a bridge.
LEMMA PortsListed ==
  ASSUME PlanInv, job.pass \in {"stops", "updates"}, NEW b \in Enabled(cfg) \cap Enabled(job.new), NEW id
  PROVE  LET o == cfg.bridges[b].ports
             n == job.new.bridges[b].ports
             pp == job.plan.bridges[b].ports
         IN  /\ id \in DOMAIN pp <=> id \in DOMAIN o \cup DOMAIN n
             /\ id \in DOMAIN o \ DOMAIN n => pp[id].action = "stopped"
             /\ id \in DOMAIN n \ DOMAIN o => pp[id].action = "started"
             /\ id \in DOMAIN o \cap DOMAIN n => pp[id].action \in {"restarted", "unchanged", "updated"}
             /\ id \in DOMAIN pp /\ b \notin InPlan("updated") => pp[id].action = "unchanged"
<1> DEFINE o == cfg.bridges[b].ports
           n == job.new.bridges[b].ports
           pp == job.plan.bridges[b].ports
<1>1. PICK rt : /\ DOMAIN pp = DOMAIN o \cup DOMAIN n
                /\ id \in DOMAIN o \ DOMAIN n => pp[id] = stopped(rt, b, id)
                /\ id \in DOMAIN n \ DOMAIN o => pp[id] = started
                /\ id \in DOMAIN o \cap DOMAIN n => pp[id] = compare_port(rt, b, id, o[id], n[id])
                /\ id \in DOMAIN pp /\ b \notin InPlan("updated") => pp[id].action = "unchanged"
  BY PortSays
<1> HIDE DEF o, n, pp
<1>2. started.action = "started" /\ stopped(rt, b, id).action = "stopped"
  BY DEF started, stopped, PortPlan
<1>3. compare_port(rt, b, id, o[id], n[id]).action \in {"restarted", "unchanged", "updated"}
  BY ComparedPort
<1> QED BY <1>1, <1>2, <1>3 DEF o, n, pp

\* A port that the plan does not restart keeps its role and its link.
LEMMA PortKept ==
  ASSUME PlanInv, job.pass \in {"stops", "updates"}, NEW b \in Enabled(cfg) \cap Enabled(job.new),
         NEW id \in DOMAIN cfg.bridges[b].ports \cap DOMAIN job.new.bridges[b].ports,
         job.plan.bridges[b].ports[id].action # "restarted"
  PROVE  LET o == cfg.bridges[b].ports[id]
             n == job.new.bridges[b].ports[id]
         IN  /\ o.role = n.role /\ o.kind = n.kind /\ o.where = n.where /\ o.model = n.model
             /\ job.plan.bridges[b].ports[id].action = "unchanged" =>
                  o.max = n.max /\ o.allow = n.allow /\ o.announce = n.announce
<1> DEFINE o == cfg.bridges[b].ports[id]
           n == job.new.bridges[b].ports[id]
           pp == job.plan.bridges[b].ports[id]
<1>1. PICK rt : pp = compare_port(rt, b, id, o, n)
  BY PortSays
<1> HIDE DEF o, n
<1> DEFINE cp == compare_port(rt, b, id, o, n)
<1>2. /\ cp.action # "restarted" => o.role = n.role /\ o.kind = n.kind /\ o.where = n.where /\ o.model = n.model
      /\ cp.action = "unchanged" => o.max = n.max /\ o.allow = n.allow /\ o.announce = n.announce
  BY ComparedPort
<1> HIDE DEF cp
<1> QED BY <1>1, <1>2 DEF cp, o, n

\* Whom the plan names for a port that it stops or restarts.
LEMMA PortDisrupts ==
  ASSUME PlanInv, job.pass \in {"stops", "updates"}, NEW b \in Enabled(cfg) \cap Enabled(job.new),
         NEW id \in DOMAIN cfg.bridges[b].ports
  PROVE  LET n == job.new.bridges[b].ports
             pp == job.plan.bridges[b].ports[id]
             seen == {s \in job.seen : s.bridge = b /\ s.port = id}
         IN  /\ id \notin DOMAIN n => pp.disconnects = seen
             /\ id \in DOMAIN n /\ pp.action = "restarted" /\ n[id].role = "tnc" =>
                  pp.drops_tnc_link = (b \in job.active)
             /\ id \in DOMAIN n /\ pp.action = "restarted" /\ n[id].role # "tnc" =>
                  pp.disconnects = seen
<1> DEFINE o == cfg.bridges[b].ports
           n == job.new.bridges[b].ports
           pp == job.plan.bridges[b].ports[id]
<1>1. PICK rt : /\ rt.active = job.active /\ rt.sessions = job.seen
                /\ id \in DOMAIN o \ DOMAIN n => pp = stopped(rt, b, id)
                /\ id \in DOMAIN o \cap DOMAIN n => pp = compare_port(rt, b, id, o[id], n[id])
  BY PortSays
<1> DEFINE seen == {s \in job.seen : s.bridge = b /\ s.port = id}
<1>2. sessions(rt, b, id) = seen
  BY <1>1 DEF sessions
<1> HIDE DEF seen, n, pp
<1>3. stopped(rt, b, id).disconnects = sessions(rt, b, id)
  BY DEF stopped, PortPlan
<1> DEFINE cp == compare_port(rt, b, id, o[id], n[id])
<1>4. /\ cp.action = "restarted" /\ n[id].role = "tnc" => cp.drops_tnc_link = (b \in rt.active)
      /\ cp.action = "restarted" /\ n[id].role # "tnc" => cp.disconnects = sessions(rt, b, id)
  BY ComparedPort
<1> HIDE DEF cp
<1>5. /\ id \notin DOMAIN n => pp.disconnects = seen
      /\ id \in DOMAIN n /\ pp.action = "restarted" /\ n[id].role = "tnc" =>
           pp.drops_tnc_link = (b \in job.active)
      /\ id \in DOMAIN n /\ pp.action = "restarted" /\ n[id].role # "tnc" => pp.disconnects = seen
  BY <1>1, <1>2, <1>3, <1>4 DEF cp
<1> QED BY <1>5 DEF seen, n, pp

\* The first pass: what is left of each bridge.
LEMMA Stops ==
  ASSUME Shaped(bridges), ApplyStops,
         NEW stop, stop = [b \in DOMAIN bridges |->
                             IF b \in InPlan("updated") THEN ports_to_stop(b, job.plan.bridges[b]) ELSE {}]
  PROVE  /\ DOMAIN bridges' = DOMAIN bridges \ InPlan("stopped")
         /\ Shaped(bridges')
         /\ \A b \in DOMAIN bridges' :
              /\ bridges'[b].connector = bridges[b].connector
              /\ DOMAIN bridges'[b].ports = DOMAIN bridges[b].ports \ stop[b]
              /\ \A id \in DOMAIN bridges'[b].ports : bridges'[b].ports[id] = bridges[b].ports[id]
<1> DEFINE dead == InPlan("stopped") \cap DOMAIN bridges
           upd == InPlan("updated") \cap DOMAIN bridges
<1>1. bridges' = [b \in DOMAIN bridges \ dead |->
                    IF b \in upd
                    THEN [bridges[b] EXCEPT !.ports = Without(@, ports_to_stop(b, job.plan.bridges[b]))]
                    ELSE bridges[b]]
  BY DEF ApplyStops
<1>2. DOMAIN bridges' = DOMAIN bridges \ InPlan("stopped")
  BY <1>1
<1>3. ASSUME NEW b \in DOMAIN bridges'
      PROVE  /\ DOMAIN bridges'[b] = {"connector", "settings", "name", "ports"}
             /\ bridges'[b].connector = bridges[b].connector
             /\ DOMAIN bridges'[b].ports = DOMAIN bridges[b].ports \ stop[b]
             /\ \A id \in DOMAIN bridges'[b].ports : bridges'[b].ports[id] = bridges[b].ports[id]
  <2>1. b \in DOMAIN bridges /\ DOMAIN bridges[b] = {"connector", "settings", "name", "ports"}
    BY <1>2 DEF Shaped
  <2>2. CASE b \in upd
    <3>1. stop[b] = ports_to_stop(b, job.plan.bridges[b])
      BY <2>1, <2>2
    <3>2. bridges'[b] = [bridges[b] EXCEPT !.ports = Without(bridges[b].ports, stop[b])]
      BY <1>1, <1>2, <2>2, <3>1
    <3>3. bridges'[b].ports = Without(bridges[b].ports, stop[b])
      BY <3>2, <2>1
    <3>4. bridges'[b].connector = bridges[b].connector /\ DOMAIN bridges'[b] = DOMAIN bridges[b]
      BY <3>2, <2>1
    <3> QED BY <2>1, <3>3, <3>4 DEF Without
  <2>3. CASE b \notin upd
    <3>1. stop[b] = {}
      BY <2>1, <2>3
    <3>2. bridges'[b] = bridges[b]
      BY <1>1, <1>2, <2>3
    <3> QED BY <2>1, <3>1, <3>2
  <2> QED BY <2>2, <2>3
<1>4. Shaped(bridges')
  BY <1>2, <1>3 DEF Shaped
<1> QED BY <1>2, <1>3, <1>4

\* update_port keeps a port's kind and place, and passes the live settings on.
LEMMA UpdatedPort ==
  ASSUME NEW rp, DOMAIN rp = {"kind", "where", "adapter", "max", "allow", "follow"},
         NEW p
  PROVE  LET u == update_running(rp, p)
         IN  /\ DOMAIN u = DOMAIN rp /\ u.kind = rp.kind /\ u.where = rp.where
             /\ rp.kind \in ServerKinds /\ p.kind = rp.kind =>
                  /\ u.max = p.max
                  /\ rp.kind = "tcp-server" => u.allow = p.allow /\ (u.follow => p.announce)
<1> DEFINE u == update_running(rp, p)
<1>1. CASE rp.kind = "tcp-server" /\ p.kind = "tcp-server"
  <2>1. u = [rp EXCEPT !.max = p.max, !.allow = p.allow,
                       !.follow = IF p.announce THEN rp.follow \/ announcer ELSE FALSE]
    BY <1>1 DEF update_running
  <2>2. DOMAIN u = DOMAIN rp /\ u.kind = rp.kind /\ u.where = rp.where /\ u.max = p.max /\ u.allow = p.allow
    BY <2>1
  <2>3. u.follow = IF p.announce THEN rp.follow \/ announcer ELSE FALSE
    BY <2>1
  <2> QED BY <2>2, <2>3
<1>2. CASE rp.kind = "ble-server" /\ p.kind = "ble-server"
  <2>1. u = [rp EXCEPT !.max = p.max]
    BY <1>2 DEF update_running
  <2> QED BY <2>1, <1>2
<1>3. CASE ~(rp.kind = "tcp-server" /\ p.kind = "tcp-server") /\ ~(rp.kind = "ble-server" /\ p.kind = "ble-server")
  <2>1. u = rp
    BY <1>3 DEF update_running
  <2> QED BY <2>1, <1>3 DEF ServerKinds
<1> HIDE DEF u
<1> QED BY <1>1, <1>2, <1>3 DEF u

\* The TNC port that the second pass makes a new connector for.
Renewed(b) == {id \in Restarting(b, job.plan.bridges[b], job.new.bridges[b]) :
                 connector_ok(job.new.bridges[b].ports[id])}

\* The second pass: the bridge's ports stay, with the settings of the new
\* configuration, and its connector is a new one if the TNC port restarts.
LEMMA Updates ==
  ASSUME Shaped(bridges), NEW b, ApplyUpdate(b)
  PROVE  LET pp == job.plan.bridges[b].ports
             n == job.new.bridges[b].ports
         IN  /\ DOMAIN bridges' = DOMAIN bridges
             /\ Shaped(bridges')
             /\ \A a \in DOMAIN bridges : a # b => bridges'[a] = bridges[a]
             /\ b \in DOMAIN bridges =>
                  /\ bridges'[b].connector = IF Renewed(b) = {} THEN bridges[b].connector
                                             ELSE connector(n[CHOOSE id \in Renewed(b) : TRUE])
                  /\ DOMAIN bridges'[b].ports = DOMAIN bridges[b].ports
                  /\ \A id \in DOMAIN bridges[b].ports :
                       bridges'[b].ports[id] =
                         IF id \in DOMAIN pp /\ pp[id].action = "updated"
                         THEN update_running(bridges[b].ports[id], n[id]) ELSE bridges[b].ports[id]
<1> DEFINE bp == job.plan.bridges[b]
           br == job.new.bridges[b]
           again == Renewed(b)
<1>1. bridges' = IF Running(b) THEN [bridges EXCEPT ![b] = updated_bridge(b, bp, br)] ELSE bridges
  BY DEF ApplyUpdate
<1>2. CASE b \notin DOMAIN bridges
  BY <1>1, <1>2 DEF Running
<1>3. CASE b \in DOMAIN bridges
  <2>1. bridges' = [bridges EXCEPT ![b] = updated_bridge(b, bp, br)]
    BY <1>1, <1>3 DEF Running
  <2> DEFINE rb == updated_bridge(b, bp, br)
  <2>2. DOMAIN bridges' = DOMAIN bridges /\ bridges'[b] = rb
        /\ \A a \in DOMAIN bridges : a # b => bridges'[a] = bridges[a]
    BY <2>1, <1>3
  <2>3. /\ DOMAIN rb = {"connector", "settings", "name", "ports"}
        /\ rb.connector = IF again = {} THEN bridges[b].connector
                          ELSE connector(br.ports[CHOOSE id \in again : TRUE])
        /\ rb.ports = [id \in DOMAIN bridges[b].ports |->
                         IF id \in DOMAIN bp.ports /\ bp.ports[id].action = "updated"
                         THEN update_running(bridges[b].ports[id], br.ports[id]) ELSE bridges[b].ports[id]]
    BY DEF updated_bridge, Renewed
  <2> HIDE DEF rb
  <2>4. \A id \in DOMAIN bridges[b].ports :
          DOMAIN rb.ports[id] = {"kind", "where", "adapter", "max", "allow", "follow"}
    <3> SUFFICES ASSUME NEW id \in DOMAIN bridges[b].ports
                 PROVE  DOMAIN rb.ports[id] = {"kind", "where", "adapter", "max", "allow", "follow"}
      OBVIOUS
    <3>1. DOMAIN bridges[b].ports[id] = {"kind", "where", "adapter", "max", "allow", "follow"}
      BY <1>3 DEF Shaped
    <3>2. DOMAIN update_running(bridges[b].ports[id], br.ports[id]) = DOMAIN bridges[b].ports[id]
      BY <3>1, UpdatedPort, Zenon
    <3>3. \/ rb.ports[id] = update_running(bridges[b].ports[id], br.ports[id])
          \/ rb.ports[id] = bridges[b].ports[id]
      BY <2>3, Zenon
    <3> QED BY <3>1, <3>2, <3>3
  <2>5. DOMAIN rb.ports = DOMAIN bridges[b].ports
    BY <2>3
  <2>6. Shaped(bridges')
    <3> SUFFICES ASSUME NEW a \in DOMAIN bridges
                 PROVE  /\ DOMAIN bridges'[a] = {"connector", "settings", "name", "ports"}
                        /\ \A id \in DOMAIN bridges'[a].ports :
                             DOMAIN bridges'[a].ports[id] = {"kind", "where", "adapter", "max", "allow", "follow"}
      BY <2>2 DEF Shaped
    <3>1. CASE a = b
      BY <3>1, <2>2, <2>3, <2>4, <2>5, Zenon
    <3>2. CASE a # b
      BY <3>2, <2>2 DEF Shaped
    <3> QED BY <3>1, <3>2
  <2> QED BY <2>2, <2>3, <2>5, <2>6, Zenon
<1> QED BY <1>2, <1>3

\* A port that start_port starts is the configured one.
LEMMA StartedPort ==
  ASSUME NEW p, starts(p)
  PROVE  LET rp == running_port(p)
         IN  /\ DOMAIN rp = {"kind", "where", "adapter", "max", "allow", "follow"}
             /\ rp.kind \in ServerKinds /\ rp.kind = p.kind /\ rp.where = p.where
             /\ rp.max = p.max /\ rp.allow = p.allow /\ (rp.follow => p.announce)
  BY Zenon DEF starts, running_port

\* The ports among ids that start_port can start.
Able(br, ids) == {id \in ids : starts(br.ports[id])}

\* A bridge that start_bridge starts.
LEMMA StartedBridge ==
  ASSUME NEW b, NEW br
  PROVE  LET rb == started_bridge(b, br)
             apps == Able(br, app_ports_of(br))
         IN  /\ DOMAIN rb = {"connector", "settings", "name", "ports"}
             /\ rb.connector = connector(br.ports[tnc_port(br)])
             /\ DOMAIN rb.ports = apps \cup {tnc_port(br)}
             /\ \A id \in apps : rb.ports[id] = running_port(br.ports[id])
             /\ \A id \in DOMAIN rb.ports \ apps : rb.ports[id] = RunningTnc
  BY DEF started_bridge, Able

\* A running bridge with the ports that start_port starts.
LEMMA WithPorts ==
  ASSUME NEW rb, DOMAIN rb = {"connector", "settings", "name", "ports"}, NEW br, NEW ids
  PROVE  LET w == with_ports(rb, br, ids)
             ok == Able(br, ids)
         IN  /\ DOMAIN w = {"connector", "settings", "name", "ports"}
             /\ w.connector = rb.connector
             /\ DOMAIN w.ports = DOMAIN rb.ports \cup ok
             /\ \A id \in ok : w.ports[id] = running_port(br.ports[id])
             /\ \A id \in DOMAIN rb.ports \ ok : w.ports[id] = rb.ports[id]
<1> DEFINE w == with_ports(rb, br, ids)
           ok == Able(br, ids)
<1> DEFINE f == [id \in DOMAIN rb.ports \cup ok |->
                   IF id \in ok THEN running_port(br.ports[id]) ELSE rb.ports[id]]
<1>1. w = [rb EXCEPT !.ports = f]
  BY DEF with_ports, Able
<1>2. /\ DOMAIN f = DOMAIN rb.ports \cup ok
      /\ \A id \in ok : f[id] = running_port(br.ports[id])
      /\ \A id \in DOMAIN rb.ports \ ok : f[id] = rb.ports[id]
  OBVIOUS
<1> HIDE DEF f
<1>3. w.ports = f /\ w.connector = rb.connector /\ DOMAIN w = DOMAIN rb
  BY <1>1
<1> HIDE DEF w
<1> QED BY <1>2, <1>3 DEF w

\* The bridges that the third pass starts.
NewBridges ==
  {b \in InPlan("started") :
     connector_ok(job.new.bridges[b].ports[tnc_port(job.new.bridges[b])])}

\* The third pass, bridge by bridge.
LEMMA Starts ==
  ASSUME ApplyStarts
  PROVE  LET upd == InPlan("updated") \cap DOMAIN bridges
         IN  /\ DOMAIN bridges' = DOMAIN bridges \cup NewBridges
             /\ \A b \in NewBridges : bridges'[b] = started_bridge(b, job.new.bridges[b])
             /\ \A b \in upd \ NewBridges :
                  bridges'[b] = with_ports(bridges[b], job.new.bridges[b],
                                           ports_to_start(b, job.plan.bridges[b]))
             /\ \A b \in DOMAIN bridges \ (NewBridges \cup upd) : bridges'[b] = bridges[b]
<1> DEFINE new == NewBridges
           upd == InPlan("updated") \cap DOMAIN bridges
           f == [b \in DOMAIN bridges \cup new |->
                   CASE b \in new -> started_bridge(b, job.new.bridges[b])
                     [] b \in upd ->
                          with_ports(bridges[b], job.new.bridges[b],
                                     IF b \in new THEN app_ports_of(job.new.bridges[b])
                                     ELSE ports_to_start(b, job.plan.bridges[b]))
                     [] OTHER -> bridges[b]]
<1>1. bridges' = f
  BY Zenon DEF ApplyStarts, NewBridges
<1>2. DOMAIN f = DOMAIN bridges \cup new /\ new \cap upd = {}
  BY DEF NewBridges, InPlan
<1> HIDE DEF new
<1>3. ASSUME NEW b \in new PROVE f[b] = started_bridge(b, job.new.bridges[b])
  <2> HIDE DEF upd
  <2> QED BY <1>2
<1>4. ASSUME NEW b \in upd \ new
      PROVE  f[b] = with_ports(bridges[b], job.new.bridges[b], ports_to_start(b, job.plan.bridges[b]))
  OBVIOUS
<1>5. \A b \in DOMAIN bridges \ (new \cup upd) : f[b] = bridges[b]
  OBVIOUS
<1> HIDE DEF f
<1> QED BY <1>1, <1>2, <1>3, <1>4, <1>5 DEF new

\* A bridge that the third pass starts, and one that it starts ports of.
LEMMA StartsNew ==
  ASSUME ApplyStarts, NEW b \in NewBridges
  PROVE  LET br == job.new.bridges[b]
             apps == Able(br, app_ports_of(br))
         IN  /\ DOMAIN bridges'[b] = {"connector", "settings", "name", "ports"}
             /\ bridges'[b].connector = connector(br.ports[tnc_port(br)])
             /\ DOMAIN bridges'[b].ports = apps \cup {tnc_port(br)}
             /\ \A id \in apps : bridges'[b].ports[id] = running_port(br.ports[id])
             /\ \A id \in DOMAIN bridges'[b].ports \ apps : bridges'[b].ports[id] = RunningTnc
<1>1. bridges'[b] = started_bridge(b, job.new.bridges[b])
  BY Starts
<1> QED BY <1>1, StartedBridge

LEMMA StartsMore ==
  ASSUME ApplyStarts, Shaped(bridges), NEW b \in (InPlan("updated") \cap DOMAIN bridges) \ NewBridges
  PROVE  LET br == job.new.bridges[b]
             ok == Able(br, ports_to_start(b, job.plan.bridges[b]))
         IN  /\ DOMAIN bridges'[b] = {"connector", "settings", "name", "ports"}
             /\ bridges'[b].connector = bridges[b].connector
             /\ DOMAIN bridges'[b].ports = DOMAIN bridges[b].ports \cup ok
             /\ \A id \in ok : bridges'[b].ports[id] = running_port(br.ports[id])
             /\ \A id \in DOMAIN bridges[b].ports \ ok : bridges'[b].ports[id] = bridges[b].ports[id]
<1>1. DOMAIN bridges[b] = {"connector", "settings", "name", "ports"}
  BY DEF Shaped
<1>2. bridges'[b] = with_ports(bridges[b], job.new.bridges[b], ports_to_start(b, job.plan.bridges[b]))
  BY Starts
<1> DEFINE br == job.new.bridges[b]
           ids == ports_to_start(b, job.plan.bridges[b])
           w == with_ports(bridges[b], br, ids)
<1>3. /\ DOMAIN w = {"connector", "settings", "name", "ports"}
      /\ w.connector = bridges[b].connector
      /\ DOMAIN w.ports = DOMAIN bridges[b].ports \cup Able(br, ids)
      /\ \A id \in Able(br, ids) : w.ports[id] = running_port(br.ports[id])
      /\ \A id \in DOMAIN bridges[b].ports \ Able(br, ids) : w.ports[id] = bridges[b].ports[id]
  <2> HIDE DEF br, ids
  <2> QED BY <1>1, WithPorts
<1> HIDE DEF w
<1> QED BY <1>2, <1>3 DEF w

\* The initial state is a start-up.
LEMMA PlanInit ==
  SupInit => /\ PlanInv /\ Enabled(cfg) = {} /\ bridges = [b \in {} |-> None]
             /\ sess = {} /\ failed = {} /\ job.pass = "stops"
<1> SUFFICES ASSUME SupInit
             PROVE  /\ PlanInv /\ Enabled(cfg) = {} /\ bridges = [b \in {} |-> None]
                    /\ sess = {} /\ failed = {} /\ job.pass = "stops"
  OBVIOUS
<1>1. PICK d \in Workloads : \E c \in d.configs :
         /\ cfg = Empty(c) /\ job = StartUp(c)
         /\ tally = [reloads |-> 0, opens |-> 0, faults |-> 0, bound |-> d]
  BY DEF SupInit
<1>2. PICK c \in d.configs : /\ cfg = Empty(c) /\ job = StartUp(c)
                             /\ tally = [reloads |-> 0, opens |-> 0, faults |-> 0, bound |-> d]
  BY <1>1
<1>3. c \in Configs /\ Enabled(cfg) = {}
  BY <1>2, FoundConfig, NothingEnabled
<1> DEFINE m == [s \in Selectors |-> None]
<1>4. /\ DOMAIN job = {"pass", "new", "todo", "boot", "seen", "active", "plan"}
      /\ job.pass = "stops" /\ job.new = c /\ job.seen = {} /\ job.active = {}
      /\ job.plan = plan([active |-> {}, sessions |-> {}, mac |-> m], Empty(c), c)
  BY <1>2 DEF StartUp
<1>5. job.plan = plan(Snapshot(m), cfg, job.new)
  BY <1>2, <1>4 DEF Snapshot
<1>6. DOMAIN tally = {"reloads", "opens", "faults", "bound"} /\ tally.bound \in Workloads
  BY <1>2
<1>7. PlanInv
  BY <1>3, <1>4, <1>5, <1>6 DEF PlanInv
<1> QED BY <1>3, <1>4, <1>7 DEF SupInit

\* A restart is a start-up too.
LEMMA PlanRestart ==
  ASSUME PlanInv, NEW c \in tally.bound.configs, Restart(c)
  PROVE  PlanInv' /\ job'.pass = "stops" /\ bridges' = [b \in {} |-> None] /\ sess' = {} /\ failed' = {}
<1>1. c \in Configs /\ Enabled(Empty(c)) = {}
  BY FoundConfig, NothingEnabled DEF PlanInv
<1> DEFINE m == [s \in Selectors |-> None]
<1>2. cfg' = Empty(c) /\ job' = StartUp(c)
  BY DEF Restart
<1>3. /\ DOMAIN job' = {"pass", "new", "todo", "boot", "seen", "active", "plan"}
      /\ job'.pass = "stops" /\ job'.new = c /\ job'.seen = {} /\ job'.active = {}
      /\ job'.plan = plan([active |-> {}, sessions |-> {}, mac |-> m], Empty(c), c)
  BY <1>2 DEF StartUp
<1>4. job'.plan = plan([active |-> job'.active, sessions |-> job'.seen, mac |-> m], cfg', job'.new)
  BY <1>2, <1>3 DEF Snapshot
<1>5. DOMAIN tally' = {"reloads", "opens", "faults", "bound"} /\ tally'.bound \in Workloads
  BY DEF Restart, PlanInv
<1>6. PlanInv'
  BY <1>1, <1>2, <1>3, <1>4, <1>5, Zenon DEF PlanInv, Snapshot
<1> QED BY <1>3, <1>6 DEF Restart

\* A reload makes its plan from the configuration in effect.
LEMMA PlanReload ==
  ASSUME PlanInv, NEW c \in tally.bound.configs, NEW nd, ReloadPlan(c, nd)
  PROVE  PlanInv' /\ job'.pass = "stops"
<1>1. c \in Configs
  BY FoundConfig DEF PlanInv
<1> DEFINE m == [s \in Selectors |-> lookup(s)]
<1>2. job' = [job EXCEPT !.pass = "stops", !.plan = plan_for(c), !.new = c, !.seen = sess, !.active = up]
  BY DEF ReloadPlan
<1>3. /\ DOMAIN job' = DOMAIN job
      /\ job'.pass = "stops" /\ job'.new = c /\ job'.seen = sess /\ job'.active = up
      /\ job'.plan = plan_for(c)
  BY <1>2 DEF PlanInv
<1>4. plan_for(c) = plan([active |-> up, sessions |-> sess, mac |-> m], cfg, c)
  BY DEF plan_for
<1>5. cfg' = cfg
  BY DEF ReloadPlan
<1> HIDE DEF m
<1>6. job'.plan = plan([active |-> job'.active, sessions |-> job'.seen, mac |-> m], cfg', job'.new)
  BY <1>3, <1>4, <1>5 DEF Snapshot
<1>7. DOMAIN tally' = {"reloads", "opens", "faults", "bound"} /\ tally'.bound \in Workloads
  BY DEF ReloadPlan, PlanInv
<1>8. \E k : job'.plan = plan([active |-> job'.active, sessions |-> job'.seen, mac |-> k], cfg', job'.new)
  BY <1>6, Zenon
<1>9. PlanInv'
  BY <1>1, <1>3, <1>5, <1>7, <1>8, Zenon DEF PlanInv, Snapshot
<1> QED BY <1>3, <1>9

\* While nothing is planned or applied, the job stays as it is.
LEMMA PlanQuiet ==
  ASSUME PlanInv, UNCHANGED <<cfg, job>>,
         DOMAIN tally' = DOMAIN tally, tally'.bound = tally.bound
  PROVE  PlanInv'
<1>1. ASSUME NEW m PROVE Snapshot(m)' = Snapshot(m)
  BY DEF Snapshot
<1>2. InPlan("updated")' = InPlan("updated")
  BY DEF InPlan
<1> QED BY <1>1, <1>2 DEF PlanInv

\* The passes follow the plan: the first makes the second's list, the third
\* puts the new configuration into effect.
LEMMA PlanApply ==
  ASSUME PlanInv, ApplyPlan
  PROVE  /\ PlanInv'
         /\ ApplyStops => job'.pass = "updates" /\ job'.todo = InPlan("updated")
         /\ \A b : ApplyUpdate(b) => job'.pass = "updates" /\ job'.todo = job.todo \ {b}
         /\ ApplyStarts => job'.pass \in {"idle", "exited"}
         /\ ~ApplyStarts => cfg' = cfg /\ job'.new = job.new /\ job'.plan = job.plan
<1>1. tally' = tally
  BY Zenon DEF ApplyPlan, ApplyStops, ApplyUpdate, ApplyStarts
<1>2. DOMAIN job = {"pass", "new", "todo", "boot", "seen", "active", "plan"}
  BY DEF PlanInv
<1>3. ASSUME NEW todo, job' = [job EXCEPT !.pass = "updates", !.todo = todo],
             cfg' = cfg, todo \subseteq InPlan("updated"), job.pass \in {"stops", "updates"}
      PROVE  PlanInv' /\ job'.pass = "updates" /\ job'.todo = todo /\ job'.new = job.new /\ job'.plan = job.plan
  <2>1. /\ DOMAIN job' = DOMAIN job /\ job'.pass = "updates" /\ job'.todo = todo /\ job'.new = job.new
        /\ job'.plan = job.plan /\ job'.seen = job.seen /\ job'.active = job.active
    BY <1>2, <1>3
  <2>2. PICK m : job.plan = plan(Snapshot(m), cfg, job.new)
    BY <1>3 DEF PlanInv
  <2>3. job'.plan = plan([active |-> job'.active, sessions |-> job'.seen, mac |-> m], cfg', job'.new)
    BY <1>3, <2>1, <2>2 DEF Snapshot
  <2>4. InPlan("updated")' = InPlan("updated")
    BY <2>1 DEF InPlan
  <2>5. \E k : job'.plan = plan(Snapshot(k), cfg, job.new)'
    BY <2>3, Zenon DEF Snapshot
  <2> QED BY <1>1, <1>3, <2>1, <2>4, <2>5 DEF PlanInv
<1>4. CASE ApplyStops
  <2>1. /\ job' = [job EXCEPT !.pass = "updates", !.todo = InPlan("updated")] /\ cfg' = cfg
        /\ job.pass = "stops"
    BY <1>4 DEF ApplyStops
  <2>2. PlanInv' /\ job'.pass = "updates" /\ job'.todo = InPlan("updated") /\ job'.new = job.new /\ job'.plan = job.plan
    BY <1>3, <2>1, Zenon
  <2>3. ~ApplyStarts /\ \A b : ~ApplyUpdate(b)
    BY <2>1 DEF ApplyStarts, ApplyUpdate
  <2> QED BY <2>1, <2>2, <2>3
<1>5. ASSUME NEW b, ApplyUpdate(b)
      PROVE  /\ PlanInv' /\ job'.pass = "updates" /\ job'.todo = job.todo \ {b} /\ cfg' = cfg
             /\ job'.new = job.new /\ job'.plan = job.plan
  <2>1. /\ job' = [job EXCEPT !.todo = @ \ {b}] /\ cfg' = cfg
        /\ job.pass = "updates"
    BY <1>5 DEF ApplyUpdate
  <2>2. job' = [job EXCEPT !.pass = "updates", !.todo = job.todo \ {b}]
    BY <1>2, <2>1, Zenon
  <2>3. job.todo \ {b} \subseteq InPlan("updated")
    BY <2>1 DEF PlanInv
  <2> QED BY <1>3, <2>1, <2>2, <2>3, Zenon
<1>6. CASE ApplyStarts
  <2>1. /\ cfg' = job.new
        /\ job' = [job EXCEPT !.pass = job'.pass, !.boot = FALSE, !.plan = NoPlan, !.seen = {}, !.active = {}]
        /\ job'.pass \in {"idle", "exited"}
        /\ job.pass = "updates" /\ job.todo = {}
    BY <1>2, <1>6, Zenon DEF ApplyStarts
  <2>2. DOMAIN job' = DOMAIN job /\ job'.new = job.new
    BY <1>2, <2>1, Zenon
  <2>3. PlanInv'
    BY <1>1, <2>1, <2>2 DEF PlanInv
  <2>4. ~ApplyStops /\ \A b : ~ApplyUpdate(b)
    BY <2>1 DEF ApplyStops, ApplyUpdate
  <2> QED BY <1>6, <2>1, <2>3, <2>4
<1>7. CASE \E b \in job.todo : ApplyUpdate(b)
  <2>1. ~ApplyStops
    BY <1>7 DEF ApplyStops, ApplyUpdate
  <2>2. ~ApplyStarts
    BY <1>7, Zenon DEF ApplyStarts, ApplyUpdate
  <2> QED BY <1>5, <1>7, <2>1, <2>2
<1> QED BY <1>4, <1>6, <1>7 DEF ApplyPlan

\* The first pass leaves only what both configurations have.
LEMMA RunStops ==
  ASSUME PlanInv, RunInv, ApplyStops
  PROVE  RunInv'
<1> DEFINE stop == [b \in DOMAIN bridges |->
                      IF b \in InPlan("updated") THEN ports_to_stop(b, job.plan.bridges[b]) ELSE {}]
<1>1. Shaped(bridges) /\ HeldBy(bridges, cfg) /\ job.pass = "stops"
  BY DEF RunInv, ApplyStops
<1>2. /\ DOMAIN bridges' = DOMAIN bridges \ InPlan("stopped")
      /\ Shaped(bridges')
      /\ \A b \in DOMAIN bridges' :
           /\ DOMAIN bridges'[b].ports = DOMAIN bridges[b].ports \ stop[b]
           /\ \A id \in DOMAIN bridges'[b].ports : bridges'[b].ports[id] = bridges[b].ports[id]
  <2> HIDE DEF stop
  <2> QED BY <1>1, Stops, Zenon DEF stop
<1>3. HeldBy(bridges', cfg)
  BY <1>1, <1>2 DEF HeldBy
<1>4. HeldBy(bridges', job.new)
  <2> SUFFICES ASSUME NEW b \in DOMAIN bridges'
               PROVE  /\ b \in Enabled(job.new)
                      /\ \A id \in DOMAIN bridges'[b].ports :
                           /\ id \in DOMAIN job.new.bridges[b].ports
                           /\ Keeps(bridges'[b].ports[id], job.new.bridges[b].ports[id])
    BY DEF HeldBy
  <2>1. b \in Enabled(cfg) \cap Enabled(job.new) /\ b \in DOMAIN bridges
    BY <1>1, <1>2, PlanSays DEF HeldBy
  <2> DEFINE o == cfg.bridges[b].ports
             n == job.new.bridges[b].ports
             pp == job.plan.bridges[b].ports
  <2>2. ASSUME NEW id \in DOMAIN bridges'[b].ports
        PROVE  id \in DOMAIN n /\ Keeps(bridges'[b].ports[id], n[id])
    <3> DEFINE rp == bridges[b].ports[id]
    <3>1. /\ id \in DOMAIN bridges[b].ports /\ id \notin stop[b] /\ bridges'[b].ports[id] = rp
          /\ id \in DOMAIN o /\ Keeps(rp, o[id])
      BY <1>1, <1>2, <2>1 DEF HeldBy
    <3>2. RunPort(b, id) = rp.kind
      BY <2>1, <3>1 DEF RunPort, Running
    <3>3. /\ id \in DOMAIN pp
          /\ id \notin DOMAIN n => pp[id].action = "stopped"
          /\ b \notin InPlan("updated") => pp[id].action = "unchanged"
      BY <1>1, <2>1, <3>1, PortsListed
    <3>4. b \in InPlan("updated") => /\ pp[id].action # "stopped"
                                     /\ pp[id].action = "restarted" => rp.kind = "tnc"
      BY <2>1, <3>1, <3>2, <3>3 DEF ports_to_stop
    <3>5. id \in DOMAIN n
      BY <3>3, <3>4
    <3>6. CASE pp[id].action = "restarted"
      BY <3>1, <3>3, <3>4, <3>5, <3>6 DEF Keeps
    <3>7. CASE pp[id].action # "restarted"
      <4>1. id \in DOMAIN o \cap DOMAIN n
        BY <3>1, <3>5
      <4>2. o[id].kind = n[id].kind /\ o[id].where = n[id].where
        BY <1>1, <2>1, <3>7, <4>1, PortKept
      <4>3. Keeps(rp, o[id]) /\ bridges'[b].ports[id] = rp
        BY <3>1
      <4> HIDE DEF stop, o, n, pp, rp
      <4>4. Keeps(rp, n[id])
        BY <4>2, <4>3 DEF Keeps
      <4> QED BY <3>5, <4>3, <4>4
    <3> QED BY <3>5, <3>6, <3>7
  <2> QED BY <2>1, <2>2
<1>5. cfg' = cfg /\ job'.new = job.new
  BY PlanApply DEF ApplyPlan, ApplyStops, PlanInv
<1> QED BY <1>2, <1>3, <1>4, <1>5 DEF RunInv

\* The second pass moves no port.
LEMMA RunUpdates ==
  ASSUME PlanInv, RunInv, NEW b \in job.todo, ApplyUpdate(b)
  PROVE  RunInv'
<1> DEFINE bp == job.plan.bridges[b]
           br == job.new.bridges[b]
           again == Renewed(b)
<1>1. Shaped(bridges) /\ HeldBy(bridges, cfg) /\ HeldBy(bridges, job.new)
  BY DEF RunInv, ApplyUpdate
<1>2. /\ DOMAIN bridges' = DOMAIN bridges /\ Shaped(bridges')
      /\ \A a \in DOMAIN bridges : a # b => bridges'[a] = bridges[a]
      /\ b \in DOMAIN bridges =>
           /\ DOMAIN bridges'[b].ports = DOMAIN bridges[b].ports
           /\ \A id \in DOMAIN bridges[b].ports :
                \/ bridges'[b].ports[id] = update_running(bridges[b].ports[id], br.ports[id])
                \/ bridges'[b].ports[id] = bridges[b].ports[id]
  BY <1>1, Updates, Zenon
<1>3. \A a \in DOMAIN bridges :
        /\ DOMAIN bridges'[a].ports = DOMAIN bridges[a].ports
        /\ \A id \in DOMAIN bridges[a].ports :
             /\ bridges'[a].ports[id].kind = bridges[a].ports[id].kind
             /\ bridges'[a].ports[id].where = bridges[a].ports[id].where
  <2> SUFFICES ASSUME NEW a \in DOMAIN bridges, NEW id \in DOMAIN bridges[a].ports
               PROVE  /\ bridges'[a].ports[id].kind = bridges[a].ports[id].kind
                      /\ bridges'[a].ports[id].where = bridges[a].ports[id].where
    BY <1>2
  <2>1. DOMAIN bridges[a].ports[id] = {"kind", "where", "adapter", "max", "allow", "follow"}
    BY <1>1 DEF Shaped
  <2>2. \A p : /\ update_running(bridges[a].ports[id], p).kind = bridges[a].ports[id].kind
               /\ update_running(bridges[a].ports[id], p).where = bridges[a].ports[id].where
    BY <2>1, UpdatedPort, Zenon
  <2> QED BY <1>2, <2>2
<1>4. HeldBy(bridges', cfg) /\ HeldBy(bridges', job.new)
  <2>1. ASSUME NEW a \in DOMAIN bridges, NEW id \in DOMAIN bridges[a].ports, NEW p, Keeps(bridges[a].ports[id], p)
        PROVE  Keeps(bridges'[a].ports[id], p)
    BY <1>3, <2>1 DEF Keeps
  <2> QED BY <1>1, <1>2, <1>3, <2>1 DEF HeldBy
<1>5. cfg' = cfg /\ job'.new = job.new
  BY PlanApply, Zenon DEF ApplyPlan, ApplyUpdate, PlanInv
<1> QED BY <1>2, <1>4, <1>5 DEF RunInv

\* The TNC port of an enabled bridge is the one with that role.
LEMMA TncPort ==
  ASSUME NEW c \in Configs, NEW b \in Enabled(c)
  PROVE  LET br == c.bridges[b]
         IN  /\ tnc_port(br) \in DOMAIN br.ports
             /\ \A id \in DOMAIN br.ports : br.ports[id].role = "tnc" <=> id = tnc_port(br)
<1> DEFINE br == c.bridges[b]
<1>1. PICK t \in DOMAIN br.ports : \A id \in DOMAIN br.ports : br.ports[id].role = "tnc" <=> id = t
  BY ValidConfigs DEF OneTncPort
<1>2. tnc_port(br) \in DOMAIN br.ports /\ br.ports[tnc_port(br)].role = "tnc"
  BY <1>1 DEF tnc_port
<1> QED BY <1>1, <1>2

\* The ports that the third pass starts are ports of the new configuration.
LEMMA ToStart ==
  ASSUME PlanInv, job.pass = "updates", NEW b \in InPlan("updated"),
         NEW id \in ports_to_start(b, job.plan.bridges[b])
  PROVE  /\ b \in Enabled(cfg) \cap Enabled(job.new)
         /\ id \in DOMAIN job.new.bridges[b].ports
<1>1. b \in Enabled(cfg) \cap Enabled(job.new)
  BY PlanSays
<1> DEFINE o == cfg.bridges[b].ports
           n == job.new.bridges[b].ports
           pp == job.plan.bridges[b].ports
<1>2. id \in DOMAIN pp /\ pp[id].action # "stopped"
  BY DEF ports_to_start
<1>3. id \in DOMAIN n
  BY <1>1, <1>2, PortsListed
<1> QED BY <1>1, <1>3

\* The third pass starts what the new configuration has.
LEMMA RunStarts ==
  ASSUME PlanInv, RunInv, ApplyStarts
  PROVE  RunInv'
<1> DEFINE new == NewBridges
           upd == InPlan("updated") \cap DOMAIN bridges
           fields == {"kind", "where", "adapter", "max", "allow", "follow"}
           Good(b) == /\ DOMAIN bridges'[b] = {"connector", "settings", "name", "ports"}
                      /\ \A id \in DOMAIN bridges'[b].ports :
                           /\ DOMAIN bridges'[b].ports[id] = fields
                           /\ id \in DOMAIN job.new.bridges[b].ports
                           /\ Keeps(bridges'[b].ports[id], job.new.bridges[b].ports[id])
<1>1. Shaped(bridges) /\ HeldBy(bridges, job.new) /\ job.pass = "updates" /\ job.new \in Configs
  BY Zenon DEF RunInv, ApplyStarts, PlanInv
<1>2. /\ DOMAIN bridges' = DOMAIN bridges \cup new
      /\ \A b \in DOMAIN bridges \ (new \cup upd) : bridges'[b] = bridges[b]
  BY Starts
<1>3. ASSUME NEW b \in new
      PROVE  b \in Enabled(job.new) /\ Good(b)
  <2> DEFINE br == job.new.bridges[b]
             apps == Able(br, app_ports_of(br))
  <2>1. b \in Enabled(job.new)
    BY <1>1, PlanSays DEF NewBridges
  <2>2. tnc_port(br) \in DOMAIN br.ports
    BY <1>1, <2>1, TncPort
  <2>3. /\ DOMAIN bridges'[b] = {"connector", "settings", "name", "ports"}
        /\ DOMAIN bridges'[b].ports = apps \cup {tnc_port(br)}
        /\ \A id \in apps : bridges'[b].ports[id] = running_port(br.ports[id])
        /\ \A id \in DOMAIN bridges'[b].ports \ apps : bridges'[b].ports[id] = RunningTnc
    BY StartsNew
  <2>4. ASSUME NEW id \in apps
        PROVE  /\ DOMAIN bridges'[b].ports[id] = fields /\ id \in DOMAIN br.ports
               /\ Keeps(bridges'[b].ports[id], br.ports[id])
    <3>1. id \in DOMAIN br.ports /\ starts(br.ports[id])
      BY DEF app_ports_of, Able
    <3> HIDE DEF apps
    <3>2. bridges'[b].ports[id] = running_port(br.ports[id])
      BY <2>3, <2>4
    <3> HIDE DEF br
    <3> QED BY <3>1, <3>2, StartedPort DEF Keeps
  <2>5. DOMAIN RunningTnc = fields /\ RunningTnc.kind = "tnc"
    BY DEF RunningTnc
  <2> HIDE DEF apps
  <2>6. ASSUME NEW id \in DOMAIN bridges'[b].ports \ apps
        PROVE  /\ DOMAIN bridges'[b].ports[id] = fields /\ id \in DOMAIN br.ports
               /\ Keeps(bridges'[b].ports[id], br.ports[id])
    BY <2>2, <2>3, <2>5 DEF Keeps
  <2> QED BY <2>1, <2>3, <2>4, <2>6
<1>4. ASSUME NEW b \in upd \ new
      PROVE  b \in Enabled(job.new) /\ Good(b)
  <2> DEFINE br == job.new.bridges[b]
             ids == ports_to_start(b, job.plan.bridges[b])
             ok == Able(br, ids)
  <2>1. b \in Enabled(job.new) /\ DOMAIN bridges[b] = {"connector", "settings", "name", "ports"}
    BY <1>1 DEF Shaped, HeldBy
  <2>2. /\ DOMAIN bridges'[b] = {"connector", "settings", "name", "ports"}
        /\ DOMAIN bridges'[b].ports = DOMAIN bridges[b].ports \cup ok
        /\ \A id \in ok : bridges'[b].ports[id] = running_port(br.ports[id])
        /\ \A id \in DOMAIN bridges[b].ports \ ok : bridges'[b].ports[id] = bridges[b].ports[id]
    BY <1>1, StartsMore
  <2>3. ASSUME NEW id \in ok
        PROVE  /\ DOMAIN bridges'[b].ports[id] = fields /\ id \in DOMAIN br.ports
               /\ Keeps(bridges'[b].ports[id], br.ports[id])
    <3>1. id \in ids /\ starts(br.ports[id])
      BY DEF Able
    <3>2. id \in DOMAIN br.ports
      BY <1>1, <1>4, <3>1, ToStart
    <3> HIDE DEF ok
    <3>3. bridges'[b].ports[id] = running_port(br.ports[id])
      BY <2>2, <2>3
    <3> HIDE DEF br
    <3> QED BY <3>1, <3>2, <3>3, StartedPort DEF Keeps
  <2> HIDE DEF ok
  <2>4. ASSUME NEW id \in DOMAIN bridges[b].ports \ ok
        PROVE  /\ DOMAIN bridges'[b].ports[id] = fields /\ id \in DOMAIN br.ports
               /\ Keeps(bridges'[b].ports[id], br.ports[id])
    BY <1>1, <2>2 DEF Shaped, HeldBy
  <2> QED BY <2>1, <2>2, <2>3, <2>4
<1>5. ASSUME NEW b \in DOMAIN bridges \ (new \cup upd)
      PROVE  b \in Enabled(job.new) /\ Good(b)
  BY <1>1, <1>2 DEF Shaped, HeldBy
<1>6. \A b \in DOMAIN bridges' : b \in Enabled(job.new) /\ Good(b)
  <2> HIDE DEF new, upd, Good
  <2> QED BY <1>2, <1>3, <1>4, <1>5
<1>7. Shaped(bridges') /\ HeldBy(bridges', job.new)
  BY <1>6 DEF Shaped, HeldBy
<1>8. cfg' = job.new /\ job'.pass # "updates"
  BY PlanApply, Zenon DEF ApplyPlan, ApplyStarts
<1> QED BY <1>7, <1>8 DEF RunInv

\* A new public name changes nothing else of a bridge.
LEMMA Renamed ==
  ASSUME Shaped(bridges), NEW b \in DOMAIN bridges, NEW name,
         bridges' = [bridges EXCEPT ![b] = [bridges[b] EXCEPT !.name = name]]
  PROVE  /\ DOMAIN bridges' = DOMAIN bridges /\ Shaped(bridges')
         /\ \A a \in DOMAIN bridges : /\ bridges'[a].ports = bridges[a].ports
                                      /\ bridges'[a].connector = bridges[a].connector
<1>1. DOMAIN bridges[b] = {"connector", "settings", "name", "ports"}
  BY DEF Shaped
<1>2. DOMAIN bridges' = DOMAIN bridges /\ \A a \in DOMAIN bridges \ {b} : bridges'[a] = bridges[a]
  OBVIOUS
<1>3. bridges'[b] = [bridges[b] EXCEPT !.name = name]
  OBVIOUS
<1>4. /\ bridges'[b].ports = bridges[b].ports /\ bridges'[b].connector = bridges[b].connector
      /\ DOMAIN bridges'[b] = DOMAIN bridges[b]
  BY <1>1, <1>3
<1>5. Shaped(bridges')
  BY <1>2, <1>4 DEF Shaped
<1> QED BY <1>2, <1>4, <1>5

\* A step around the plans: no port or connector changes, and a session that
\* appears is one of a running port.
Around ==
  /\ UNCHANGED <<cfg, job, failed>>
  /\ DOMAIN tally' = DOMAIN tally /\ tally'.bound = tally.bound
  /\ DOMAIN bridges' = DOMAIN bridges /\ Shaped(bridges')
  /\ \A a \in DOMAIN bridges : /\ bridges'[a].ports = bridges[a].ports
                               /\ bridges'[a].connector = bridges[a].connector
  /\ \A s \in sess' : \/ s \in sess
                      \/ s.bridge \in DOMAIN bridges /\ s.port \in DOMAIN bridges[s.bridge].ports

\* Every step is a pass, a reload, a restart, or one around them.
LEMMA Steps ==
  ASSUME PlanInv, Shaped(bridges), [SupNext]_sup_vars
  PROVE  \/ ApplyPlan
         \/ \E c \in tally.bound.configs, nd \in BOOLEAN : ReloadPlan(c, nd)
         \/ \E c \in tally.bound.configs : Restart(c)
         \/ Around
<1>1. DOMAIN tally = {"reloads", "opens", "faults", "bound"}
  BY DEF PlanInv
<1>2. ASSUME UNCHANGED <<cfg, bridges, job, failed, tally>>, sess' \subseteq sess
      PROVE  Around
  BY <1>2 DEF Around
<1>3. ASSUME NEW s, Kick(s) PROVE Around
  BY <1>2, <1>3 DEF Kick, outside
<1>4. ASSUME NEW s, Close(s) PROVE Around
  BY <1>2, <1>4 DEF Close
<1>5. ASSUME NEW b, LinkChanges(b) PROVE Around
  BY <1>2, <1>5 DEF LinkChanges
<1>6. ASSUME NEW b \in DOMAIN bridges, NEW name, UNCHANGED <<cfg, job, failed, tally, sess>>,
             bridges' = [bridges EXCEPT ![b] = [bridges[b] EXCEPT !.name = name]]
      PROVE  Around
  <2>1. /\ DOMAIN bridges' = DOMAIN bridges /\ Shaped(bridges')
        /\ \A a \in DOMAIN bridges : /\ bridges'[a].ports = bridges[a].ports
                                     /\ bridges'[a].connector = bridges[a].connector
    BY <1>6, Renamed, Zenon
  <2> QED BY <1>6, <2>1 DEF Around
<1>7. ASSUME NEW b, RetryPublicName(b) PROVE Around
  <2>1. UNCHANGED <<cfg, job, failed, tally, sess>>
    BY <1>7 DEF RetryPublicName, outside
  <2>2. CASE b \in DOMAIN bridges
    <3> DEFINE name == [configured |-> cfg.bridges[b].public_name, adjusted |-> FALSE]
    <3>1. bridges' = [bridges EXCEPT ![b] = [bridges[b] EXCEPT !.name = name]]
      BY <1>7, <2>2 DEF RetryPublicName, Running
    <3> QED BY <1>6, <2>1, <2>2, <3>1, Zenon
  <2>3. CASE b \notin DOMAIN bridges
    <3>1. bridges' = bridges
      BY <1>7, <2>3 DEF RetryPublicName, Running
    <3> QED BY <1>2, <2>1, <3>1
  <2> QED BY <2>2, <2>3
<1>8. ASSUME NEW b \in DOMAIN bridges, Collision(b) PROVE Around
  <2>1. UNCHANGED <<cfg, job, failed, tally, sess>>
    BY <1>8 DEF Collision, outside
  <2> DEFINE name == [bridges[b].name EXCEPT !.adjusted = TRUE]
  <2>2. bridges' = [bridges EXCEPT ![b] = [bridges[b] EXCEPT !.name = name]]
    BY <1>8 DEF Collision
  <2> QED BY <1>6, <2>1, <2>2, Zenon
<1>9. ASSUME NEW b \in DOMAIN bridges, NEW peer, NEW p \in DOMAIN bridges[b].ports, Open(b, p, peer)
      PROVE  Around
  <2>1. /\ UNCHANGED <<cfg, bridges, job, failed>>
        /\ sess' = sess \cup {[bridge |-> b, port |-> p, peer |-> peer, seq |-> tally.opens]}
        /\ tally' = [tally EXCEPT !.opens = @ + 1]
    BY <1>9 DEF Open
  <2>2. DOMAIN tally' = DOMAIN tally /\ tally'.bound = tally.bound
    BY <1>1, <2>1
  <2> QED BY <2>1, <2>2 DEF Around
<1>10. ASSUME HostChanges PROVE Around
  <2>1. UNCHANGED <<cfg, bridges, job, failed, sess>> /\ tally' = [tally EXCEPT !.faults = @ + 1]
    BY <1>10 DEF HostChanges
  <2>2. DOMAIN tally' = DOMAIN tally /\ tally'.bound = tally.bound
    BY <1>1, <2>1
  <2> QED BY <2>1, <2>2 DEF Around
<1>11. ASSUME UNCHANGED sup_vars PROVE Around
  BY <1>2, <1>11 DEF sup_vars
<1> QED BY <1>3, <1>4, <1>5, <1>7, <1>8, <1>9, <1>10, <1>11 DEF SupNext

\* Whatever runs is in the configuration in effect, and between apply's stops and
\* its starts in the new one too; the plan being applied leads from one to the other.
THEOREM HeldInvariant == SupSpec => [](PlanInv /\ RunInv)
<1>1. SupInit => PlanInv /\ RunInv
  BY PlanInit DEF RunInv, Shaped, HeldBy
<1>2. PlanInv /\ RunInv /\ [SupNext]_sup_vars => (PlanInv /\ RunInv)'
  <2> SUFFICES ASSUME PlanInv, RunInv, [SupNext]_sup_vars PROVE PlanInv' /\ RunInv'
    OBVIOUS
  <2>1. CASE ApplyPlan
    <3>1. PlanInv'
      BY <2>1, PlanApply
    <3>2. RunInv'
      BY <2>1, RunStops, RunUpdates, RunStarts DEF ApplyPlan
    <3> QED BY <3>1, <3>2
  <2>2. ASSUME NEW c \in tally.bound.configs, NEW nd, ReloadPlan(c, nd) PROVE PlanInv' /\ RunInv'
    <3>1. PlanInv' /\ job'.pass = "stops"
      BY <2>2, PlanReload
    <3>2. UNCHANGED <<cfg, bridges>>
      BY <2>2 DEF ReloadPlan
    <3> QED BY <3>1, <3>2 DEF RunInv
  <2>3. ASSUME NEW c \in tally.bound.configs, Restart(c) PROVE PlanInv' /\ RunInv'
    <3>1. PlanInv' /\ job'.pass = "stops" /\ bridges' = [b \in {} |-> None]
      BY <2>3, PlanRestart
    <3> QED BY <3>1 DEF RunInv, Shaped, HeldBy
  <2>4. CASE Around
    <3>1. PlanInv'
      BY <2>4, PlanQuiet DEF Around
    <3>2. RunInv'
      BY <2>4 DEF Around, RunInv, HeldBy
    <3> QED BY <3>1, <3>2
  <2>5. Shaped(bridges)
    BY DEF RunInv
  <2> QED BY <2>1, <2>2, <2>3, <2>4, <2>5, Steps
<1> QED BY <1>1, <1>2, PTL DEF SupSpec

\* Listeners are ports of one configuration.
LEMMA ListenersConfigured ==
  ASSUME PlanInv, RunInv,
         NEW a \in DOMAIN bridges, NEW i \in DOMAIN bridges[a].ports, bridges[a].ports[i].kind = "tcp-server",
         NEW b \in DOMAIN bridges, NEW j \in DOMAIN bridges[b].ports, bridges[b].ports[j].kind = "tcp-server",
         bridges[a].ports[i].where = bridges[b].ports[j].where
  PROVE  \E c \in Configs : /\ a \in Enabled(c) /\ i \in DOMAIN c.bridges[a].ports
                            /\ b \in Enabled(c) /\ j \in DOMAIN c.bridges[b].ports
                            /\ conflict(c.bridges[a].ports[i], c.bridges[b].ports[j])
<1>1. HeldBy(bridges, cfg)
  BY DEF RunInv
<1>2. a \in Enabled(cfg) /\ b \in Enabled(cfg)
  BY <1>1 DEF HeldBy
<1>3. cfg \in Configs
  BY <1>2 DEF PlanInv
<1>4. /\ i \in DOMAIN cfg.bridges[a].ports /\ Keeps(bridges[a].ports[i], cfg.bridges[a].ports[i])
      /\ j \in DOMAIN cfg.bridges[b].ports /\ Keeps(bridges[b].ports[j], cfg.bridges[b].ports[j])
  BY <1>1 DEF HeldBy
<1>5. conflict(cfg.bridges[a].ports[i], cfg.bridges[b].ports[j])
  BY <1>4 DEF Keeps, conflict
<1> QED BY <1>2, <1>3, <1>4, <1>5

\* Ports of two bridges never listen on the same socket at the same time.
SocketsApart ==
  \A a, b \in DOMAIN bridges : \A i \in DOMAIN bridges[a].ports, j \in DOMAIN bridges[b].ports :
    conflict(bridges[a].ports[i], bridges[b].ports[j]) => a = b

\* With validation's check of the listen sockets of different bridges alone, no
\* reload makes two bridges claim one socket, not even between its passes: what
\* a bridge gives up, apply stops before another bridge starts on it.
THEOREM BridgesApart == SupSpec => []SocketsApart
<1>1. PlanInv /\ RunInv => SocketsApart
  <2> SUFFICES ASSUME PlanInv, RunInv, NEW a \in DOMAIN bridges, NEW b \in DOMAIN bridges,
                      NEW i \in DOMAIN bridges[a].ports, NEW j \in DOMAIN bridges[b].ports,
                      conflict(bridges[a].ports[i], bridges[b].ports[j])
               PROVE  a = b
    BY DEF SocketsApart
  <2>1. PICK c \in Configs : /\ a \in Enabled(c) /\ i \in DOMAIN c.bridges[a].ports
                             /\ b \in Enabled(c) /\ j \in DOMAIN c.bridges[b].ports
                             /\ conflict(c.bridges[a].ports[i], c.bridges[b].ports[j])
    BY ListenersConfigured DEF conflict
  <2> QED BY <2>1, ValidConfigs DEF ListensApart
<1> QED BY <1>1, HeldInvariant, PTL

\* When the listen sockets of each bridge differ too, no two running ports claim
\* the same socket, whatever reloads, restarts and failures there are (apply's
\* stops come before its starts).
THEOREM SocketsSafe == ListensOnce => (SupSpec => []SocketsClaimedOnce)
<1>1. ASSUME ListensOnce, PlanInv, RunInv PROVE SocketsClaimedOnce
  <2> DEFINE On(b) == {i \in DOMAIN bridges[b].ports : RunPort(b, i) = "tcp-server"}
             listeners == UNION {{<<b, id>> : id \in On(b)} : b \in DOMAIN bridges}
  <2> SUFFICES ASSUME NEW x \in listeners, NEW y \in listeners,
                      bridges[x[1]].ports[x[2]].where = bridges[y[1]].ports[y[2]].where
               PROVE  x = y
    BY DEF SocketsClaimedOnce
  <2>1. PICK a \in DOMAIN bridges : \E i \in On(a) : x = <<a, i>>
    OBVIOUS
  <2>2. PICK b \in DOMAIN bridges : \E j \in On(b) : y = <<b, j>>
    OBVIOUS
  <2>3. PICK i \in On(a) : x = <<a, i>>
    BY <2>1
  <2>4. PICK j \in On(b) : y = <<b, j>>
    BY <2>2
  <2>5. /\ i \in DOMAIN bridges[a].ports /\ bridges[a].ports[i].kind = "tcp-server"
        /\ j \in DOMAIN bridges[b].ports /\ bridges[b].ports[j].kind = "tcp-server"
    BY DEF RunPort, Running, None
  <2>6. bridges[a].ports[i].where = bridges[b].ports[j].where
    BY <2>3, <2>4
  <2> HIDE DEF listeners, On
  <2>7. PICK c \in Configs : /\ a \in Enabled(c) /\ i \in DOMAIN c.bridges[a].ports
                             /\ b \in Enabled(c) /\ j \in DOMAIN c.bridges[b].ports
                             /\ conflict(c.bridges[a].ports[i], c.bridges[b].ports[j])
    BY <1>1, <2>5, <2>6, ListenersConfigured
  <2>8. a = b
    BY <2>7, ValidConfigs DEF ListensApart
  <2>9. i = j
    BY <1>1, <2>7, <2>8 DEF ListensOnce
  <2> QED BY <2>3, <2>4, <2>8, <2>9
<1>2. ListensOnce => (PlanInv /\ RunInv => SocketsClaimedOnce)
  BY <1>1
<1> SUFFICES ASSUME ListensOnce PROVE SupSpec => []SocketsClaimedOnce
  OBVIOUS
<1>3. PlanInv /\ RunInv => SocketsClaimedOnce
  BY <1>2
<1> QED BY <1>3, HeldInvariant, PTL

------------------------------------------------------------------------------
(* Whom a plan disrupts.                                                   *)

\* A running port has the role that its record stands for.
AsRole(rp, p) ==
  /\ rp.kind = "tnc" => p.role = "tnc"
  /\ rp.kind \in ServerKinds => p.role = "app"

\* Ports run in their roles, and sessions are sessions of running ports.
RoleInv ==
  /\ \A b \in DOMAIN bridges : \A id \in DOMAIN bridges[b].ports :
       AsRole(bridges[b].ports[id], cfg.bridges[b].ports[id])
  /\ \A s \in sess : s.bridge \in DOMAIN bridges /\ s.port \in DOMAIN bridges[s.bridge].ports

Usual == RolesKept /\ TncsAreClients

\* The new configuration gives a running port the same role.
LEMMA NewRole ==
  ASSUME Usual, PlanInv, RunInv, RoleInv, NEW b \in DOMAIN bridges, NEW id \in DOMAIN bridges[b].ports,
         b \in Enabled(job.new), id \in DOMAIN job.new.bridges[b].ports
  PROVE  /\ job.new.bridges[b].ports[id].role = cfg.bridges[b].ports[id].role
         /\ AsRole(bridges[b].ports[id], job.new.bridges[b].ports[id])
<1>1. b \in Enabled(cfg) /\ id \in DOMAIN cfg.bridges[b].ports
  BY DEF RunInv, HeldBy
<1>2. cfg \in Configs /\ job.new \in Configs
  BY <1>1 DEF PlanInv
<1>3. job.new.bridges[b].ports[id].role = cfg.bridges[b].ports[id].role
  BY <1>1, <1>2 DEF Usual, RolesKept
<1> QED BY <1>3 DEF RoleInv, AsRole

\* The sessions that the first pass ends: those of the ports that it stops.
LEMMA Ended ==
  ASSUME ApplyStops, NEW s \in sess
  PROVE  /\ kicked' \subseteq kicked
         /\ s \in sess' <=>
              /\ ~(/\ s.bridge \in InPlan("stopped") \cap DOMAIN bridges
                   /\ s.port \in DOMAIN bridges[s.bridge].ports)
              /\ ~(/\ s.bridge \in InPlan("updated") \cap DOMAIN bridges
                   /\ s.port \in ports_to_stop(s.bridge, job.plan.bridges[s.bridge]))
<1> DEFINE dead == InPlan("stopped") \cap DOMAIN bridges
           upd == InPlan("updated") \cap DOMAIN bridges
           stop(b) == ports_to_stop(b, job.plan.bridges[b])
           all == UNION {{<<b, id>> : id \in DOMAIN bridges[b].ports} : b \in dead}
           some == UNION {{<<b, id>> : id \in stop(b)} : b \in upd}
<1>1. ends(all \cup some)
  BY DEF ApplyStops
<1>2. <<s.bridge, s.port>> \in all <=> s.bridge \in dead /\ s.port \in DOMAIN bridges[s.bridge].ports
  OBVIOUS
<1>3. <<s.bridge, s.port>> \in some <=> s.bridge \in upd /\ s.port \in stop(s.bridge)
  <2> HIDE DEF stop
  <2> QED OBVIOUS
<1> HIDE DEF all, some
<1>4. kicked' \subseteq kicked /\ (s \in sess' <=> <<s.bridge, s.port>> \notin all \cup some)
  BY <1>1 DEF ends
<1> QED BY <1>2, <1>3, <1>4

\* The first pass ends the sessions of the ports that it stops.
LEMMA RoleStops ==
  ASSUME PlanInv, RunInv, RoleInv, ApplyStops
  PROVE  RoleInv'
<1> DEFINE stop == [b \in DOMAIN bridges |->
                      IF b \in InPlan("updated") THEN ports_to_stop(b, job.plan.bridges[b]) ELSE {}]
<1>1. /\ DOMAIN bridges' = DOMAIN bridges \ InPlan("stopped")
      /\ \A b \in DOMAIN bridges' :
           /\ DOMAIN bridges'[b].ports = DOMAIN bridges[b].ports \ stop[b]
           /\ \A id \in DOMAIN bridges'[b].ports : bridges'[b].ports[id] = bridges[b].ports[id]
  <2> HIDE DEF stop
  <2> QED BY Stops, Zenon DEF stop, RunInv
<1>2. cfg' = cfg
  BY DEF ApplyStops
<1>3. ASSUME NEW b \in DOMAIN bridges', NEW id \in DOMAIN bridges'[b].ports
      PROVE  AsRole(bridges'[b].ports[id], cfg'.bridges[b].ports[id])
  <2> HIDE DEF stop
  <2> QED BY <1>1, <1>2, <1>3 DEF RoleInv
<1>4. ASSUME NEW s \in sess'
      PROVE  s.bridge \in DOMAIN bridges' /\ s.port \in DOMAIN bridges'[s.bridge].ports
  <2>1. s \in sess
    BY DEF ApplyStops, ends
  <2>2. s.bridge \in DOMAIN bridges /\ s.port \in DOMAIN bridges[s.bridge].ports
    BY <2>1 DEF RoleInv
  <2>3. /\ s.bridge \notin InPlan("stopped")
        /\ s.bridge \in InPlan("updated") => s.port \notin ports_to_stop(s.bridge, job.plan.bridges[s.bridge])
    BY <2>1, <2>2, Ended
  <2>4. s.bridge \in DOMAIN bridges'
    BY <1>1, <2>2, <2>3
  <2>5. s.port \notin stop[s.bridge]
    BY <2>2, <2>3
  <2> HIDE DEF stop
  <2> QED BY <1>1, <2>2, <2>4, <2>5
<1> QED BY <1>3, <1>4 DEF RoleInv

\* The second pass changes no port's kind, and no session's port.
LEMMA RoleUpdates ==
  ASSUME PlanInv, RunInv, RoleInv, NEW b, ApplyUpdate(b)
  PROVE  RoleInv'
<1> DEFINE bp == job.plan.bridges[b]
           br == job.new.bridges[b]
           again == Renewed(b)
<1>1. /\ DOMAIN bridges' = DOMAIN bridges
      /\ \A a \in DOMAIN bridges : a # b => bridges'[a] = bridges[a]
      /\ b \in DOMAIN bridges =>
           /\ DOMAIN bridges'[b].ports = DOMAIN bridges[b].ports
           /\ \A id \in DOMAIN bridges[b].ports :
                \/ bridges'[b].ports[id] = update_running(bridges[b].ports[id], br.ports[id])
                \/ bridges'[b].ports[id] = bridges[b].ports[id]
  BY Updates, Zenon DEF RunInv
<1>2. \A a \in DOMAIN bridges :
        /\ DOMAIN bridges'[a].ports = DOMAIN bridges[a].ports
        /\ \A id \in DOMAIN bridges[a].ports : bridges'[a].ports[id].kind = bridges[a].ports[id].kind
  <2> SUFFICES ASSUME NEW a \in DOMAIN bridges, NEW id \in DOMAIN bridges[a].ports
               PROVE  bridges'[a].ports[id].kind = bridges[a].ports[id].kind
    BY <1>1
  <2>1. DOMAIN bridges[a].ports[id] = {"kind", "where", "adapter", "max", "allow", "follow"}
    BY DEF RunInv, Shaped
  <2>2. \A p : update_running(bridges[a].ports[id], p).kind = bridges[a].ports[id].kind
    BY <2>1, UpdatedPort
  <2> QED BY <1>1, <2>2
<1>3. UNCHANGED <<cfg, sess>>
  BY DEF ApplyUpdate
<1>4. ASSUME NEW a \in DOMAIN bridges, NEW id \in DOMAIN bridges[a].ports
      PROVE  AsRole(bridges'[a].ports[id], cfg.bridges[a].ports[id])
  <2>1. AsRole(bridges[a].ports[id], cfg.bridges[a].ports[id])
    BY DEF RoleInv
  <2> QED BY <1>2, <2>1 DEF AsRole
<1>5. DOMAIN bridges' = DOMAIN bridges
  BY <1>1
<1> QED BY <1>2, <1>3, <1>4, <1>5 DEF RoleInv

\* What the third pass starts runs in its role.
LEMMA RoleStarts ==
  ASSUME Usual, PlanInv, RunInv, RoleInv, ApplyStarts
  PROVE  RoleInv'
<1> DEFINE new == NewBridges
           upd == InPlan("updated") \cap DOMAIN bridges
<1>1. /\ HeldBy(bridges, job.new) /\ HeldBy(bridges, cfg) /\ job.pass = "updates" /\ job.new \in Configs
      /\ Shaped(bridges)
  BY Zenon DEF RunInv, ApplyStarts, PlanInv
<1>2. /\ DOMAIN bridges' = DOMAIN bridges \cup new
      /\ \A b \in DOMAIN bridges \ (new \cup upd) : bridges'[b] = bridges[b]
  BY Starts
<1>3. new \cap DOMAIN bridges = {}
  BY <1>1, PlanSays DEF HeldBy, NewBridges
<1>4. \A b \in DOMAIN bridges : \A id \in DOMAIN bridges[b].ports :
        AsRole(bridges[b].ports[id], job.new.bridges[b].ports[id])
  BY <1>1, NewRole DEF HeldBy
<1>5. ASSUME NEW c \in Configs, NEW b \in Enabled(c), NEW id \in DOMAIN c.bridges[b].ports,
             starts(c.bridges[b].ports[id])
      PROVE  AsRole(running_port(c.bridges[b].ports[id]), c.bridges[b].ports[id])
  <2>1. c.bridges[b].ports[id].kind \in ServerKinds /\ c.bridges[b].ports[id].role \in {"tnc", "app"}
    BY <1>5 DEF starts, Usual, RolesKept
  <2>2. c.bridges[b].ports[id].role # "tnc"
    BY <2>1 DEF Usual, TncsAreClients, ClientKinds, ServerKinds
  <2>3. running_port(c.bridges[b].ports[id]).kind = c.bridges[b].ports[id].kind
    BY DEF running_port
  <2> QED BY <2>1, <2>2, <2>3 DEF AsRole, ServerKinds
<1>6. ASSUME NEW b \in new, NEW id \in DOMAIN bridges'[b].ports
      PROVE  AsRole(bridges'[b].ports[id], job.new.bridges[b].ports[id])
  <2> DEFINE br == job.new.bridges[b]
             apps == Able(br, app_ports_of(br))
  <2>1. b \in Enabled(job.new)
    BY <1>1, PlanSays DEF NewBridges
  <2>2. tnc_port(br) \in DOMAIN br.ports /\ br.ports[tnc_port(br)].role = "tnc"
    BY <1>1, <2>1, TncPort
  <2>3. /\ DOMAIN bridges'[b].ports = apps \cup {tnc_port(br)}
        /\ \A i \in apps : bridges'[b].ports[i] = running_port(br.ports[i])
        /\ \A i \in DOMAIN bridges'[b].ports \ apps : bridges'[b].ports[i] = RunningTnc
    BY StartsNew
  <2>4. CASE id \in apps
    <3>1. id \in DOMAIN br.ports /\ starts(br.ports[id])
      BY <2>4 DEF app_ports_of, Able
    <3>2. AsRole(running_port(br.ports[id]), br.ports[id])
      BY <1>1, <1>5, <2>1, <3>1
    <3> QED BY <2>3, <2>4, <3>2
  <2>5. CASE id \notin apps
    <3>1. id = tnc_port(br) /\ bridges'[b].ports[id] = RunningTnc
      BY <1>6, <2>3, <2>5
    <3>2. RunningTnc.kind = "tnc"
      BY DEF RunningTnc
    <3> QED BY <2>2, <3>1, <3>2 DEF AsRole, ServerKinds
  <2> QED BY <2>4, <2>5
<1>7. ASSUME NEW b \in upd \ new
      PROVE  /\ DOMAIN bridges[b].ports \subseteq DOMAIN bridges'[b].ports
             /\ \A id \in DOMAIN bridges'[b].ports :
                  AsRole(bridges'[b].ports[id], job.new.bridges[b].ports[id])
  <2> DEFINE br == job.new.bridges[b]
             ids == ports_to_start(b, job.plan.bridges[b])
             ok == Able(br, ids)
  <2>1. DOMAIN bridges[b] = {"connector", "settings", "name", "ports"}
    BY <1>1 DEF Shaped
  <2>2. /\ DOMAIN bridges'[b].ports = DOMAIN bridges[b].ports \cup ok
        /\ \A id \in ok : bridges'[b].ports[id] = running_port(br.ports[id])
        /\ \A id \in DOMAIN bridges[b].ports \ ok : bridges'[b].ports[id] = bridges[b].ports[id]
    BY <1>1, StartsMore
  <2>3. ASSUME NEW id \in ok PROVE AsRole(bridges'[b].ports[id], br.ports[id])
    <3>0. id \in ids /\ starts(br.ports[id])
      BY DEF Able
    <3>1. id \in DOMAIN br.ports /\ b \in Enabled(job.new) /\ starts(br.ports[id])
      BY <1>1, <1>7, <3>0, ToStart
    <3>2. AsRole(running_port(br.ports[id]), br.ports[id])
      BY <1>1, <1>5, <3>1
    <3> QED BY <2>2, <3>2
  <2> HIDE DEF ok
  <2>4. ASSUME NEW id \in DOMAIN bridges[b].ports \ ok PROVE AsRole(bridges'[b].ports[id], br.ports[id])
    BY <1>4, <2>2
  <2> QED BY <2>2, <2>3, <2>4
<1>8. ASSUME NEW b \in DOMAIN bridges', NEW id \in DOMAIN bridges'[b].ports
      PROVE  AsRole(bridges'[b].ports[id], job.new.bridges[b].ports[id])
  <2> HIDE DEF new, upd
  <2>1. CASE b \in new
    BY <1>6, <2>1
  <2>2. CASE b \in upd \ new
    BY <1>7, <2>2
  <2>3. CASE b \in DOMAIN bridges \ (new \cup upd)
    BY <1>2, <1>4, <2>3
  <2> QED BY <1>2, <1>8, <2>1, <2>2, <2>3
<1>9. cfg' = job.new /\ sess' = sess
  BY Zenon DEF ApplyStarts
<1>10. ASSUME NEW s \in sess
       PROVE  s.bridge \in DOMAIN bridges' /\ s.port \in DOMAIN bridges'[s.bridge].ports
  <2>1. s.bridge \in DOMAIN bridges /\ s.port \in DOMAIN bridges[s.bridge].ports /\ s.bridge \notin new
    BY <1>3 DEF RoleInv
  <2> HIDE DEF new, upd
  <2> QED BY <1>2, <1>7, <2>1
<1> QED BY <1>8, <1>9, <1>10 DEF RoleInv

\* Ports keep their roles while they run, and sessions are on running ports.
LEMMA RoleNext ==
  ASSUME Usual, PlanInv, RunInv, RoleInv, [SupNext]_sup_vars
  PROVE  RoleInv'
<1>1. CASE ApplyPlan
  BY <1>1, RoleStops, RoleUpdates, RoleStarts DEF ApplyPlan
<1>2. ASSUME NEW c, NEW nd, ReloadPlan(c, nd) PROVE RoleInv'
  BY <1>2 DEF ReloadPlan, RoleInv
<1>3. ASSUME NEW c \in tally.bound.configs, Restart(c) PROVE RoleInv'
  BY <1>3, PlanRestart DEF RoleInv
<1>4. CASE Around
  BY <1>4 DEF Around, RoleInv
<1>5. Shaped(bridges)
  BY DEF RunInv
<1> QED BY <1>1, <1>2, <1>3, <1>4, <1>5, Steps

\* A session that some port's plan names is one that the plan names.
LEMMA Named ==
  ASSUME NEW pl, NEW b \in DOMAIN pl.bridges, NEW id \in DOMAIN pl.bridges[b].ports,
         NEW s \in pl.bridges[b].ports[id].disconnects
  PROVE  s \in disconnects(pl)
<1>1. s \in UNION {pl.bridges[b].ports[i].disconnects : i \in DOMAIN pl.bridges[b].ports}
  OBVIOUS
<1> QED BY <1>1 DEF disconnects

\* The first pass ends only sessions, and drops only links, that the plan names.
LEMMA StopsForetold ==
  ASSUME Usual, PlanInv, RunInv, RoleInv, ApplyStops
  PROVE  /\ \A s \in (sess \ kicked) \cap job.seen : s \notin sess' \ kicked' => s \in disconnects(job.plan)
         /\ \A b \in (up \cap job.active) \ up' : job.plan.bridges[b].stops_in_use
<1>1. job.pass = "stops" /\ HeldBy(bridges, cfg)
  BY DEF ApplyStops, RunInv
<1>2. PICK m : \A b \in InPlan("stopped") :
                 job.plan.bridges[b] = stop_bridge(Snapshot(m), b, cfg.bridges[b])
  BY <1>1, PlanSays
<1>3. /\ Snapshot(m).active = job.active
      /\ \A b, id : sessions(Snapshot(m), b, id) = {s \in job.seen : s.bridge = b /\ s.port = id}
  BY DEF Snapshot, sessions
<1>4. ASSUME NEW s \in (sess \ kicked) \cap job.seen, s \notin sess' \ kicked'
      PROVE  s \in disconnects(job.plan)
  <2> DEFINE b == s.bridge
             id == s.port
  <2>1. b \in DOMAIN bridges /\ id \in DOMAIN bridges[b].ports
    BY DEF RoleInv
  <2>2. b \in Enabled(cfg) /\ id \in DOMAIN cfg.bridges[b].ports
    BY <1>1, <2>1 DEF HeldBy
  <2>3. b \in DOMAIN job.plan.bridges
    BY <1>1, <2>2, PlanSays
  <2>4. s \notin sess'
    BY <1>4, Ended
  <2>5. CASE b \in InPlan("stopped")
    <3>1. /\ DOMAIN job.plan.bridges[b].ports = DOMAIN cfg.bridges[b].ports
          /\ job.plan.bridges[b].ports[id].disconnects = sessions(Snapshot(m), b, id)
      <4>1. job.plan.bridges[b] = stop_bridge(Snapshot(m), b, cfg.bridges[b])
        BY <1>2, <2>5
      <4> DEFINE sb == stop_bridge(Snapshot(m), b, cfg.bridges[b])
      <4>2. /\ DOMAIN sb.ports = DOMAIN cfg.bridges[b].ports
            /\ \A i \in DOMAIN cfg.bridges[b].ports : sb.ports[i].disconnects = sessions(Snapshot(m), b, i)
        <5> HIDE DEF b
        <5> QED BY StoppedBridge
      <4> HIDE DEF sb, b, id
      <4> QED BY <2>2, <4>1, <4>2 DEF sb
    <3>2. s \in sessions(Snapshot(m), b, id)
      BY <1>3
    <3>3. s \in job.plan.bridges[b].ports[id].disconnects
      BY <3>1, <3>2
    <3> QED BY <2>2, <2>3, <3>1, <3>3, Named
  <2>6. CASE b \notin InPlan("stopped")
    <3>1. b \in InPlan("updated") /\ id \in ports_to_stop(b, job.plan.bridges[b])
      BY <2>1, <2>4, <2>6, Ended
    <3> DEFINE o == cfg.bridges[b].ports
               n == job.new.bridges[b].ports
               pp == job.plan.bridges[b].ports
    <3>2. b \in Enabled(cfg) \cap Enabled(job.new)
      BY <1>1, <3>1, PlanSays
    <3>3. /\ id \in DOMAIN pp
          /\ \/ pp[id].action = "stopped"
             \/ pp[id].action = "restarted" /\ bridges[b].ports[id].kind # "tnc"
      BY <2>1, <3>1 DEF ports_to_stop, RunPort, Running
    <3>4. CASE id \notin DOMAIN n
      <4>1. pp[id].disconnects = {t \in job.seen : t.bridge = b /\ t.port = id}
        BY <1>1, <2>2, <3>2, <3>4, PortDisrupts
      <4> QED BY <2>3, <3>3, <4>1, Named, Zenon
    <3>5. CASE id \in DOMAIN n
      <4>1. pp[id].action = "restarted" /\ bridges[b].ports[id].kind # "tnc"
        BY <1>1, <2>2, <3>2, <3>3, <3>5, PortsListed
      <4>2. bridges[b].ports[id].kind \in ServerKinds
        BY <1>1, <2>1, <4>1 DEF HeldBy, Keeps
      <4>3. n[id].role = "app"
        BY <2>1, <3>2, <3>5, <4>2, NewRole DEF AsRole
      <4>4. pp[id].disconnects = {t \in job.seen : t.bridge = b /\ t.port = id}
        BY <1>1, <2>2, <3>2, <3>5, <4>1, <4>3, PortDisrupts
      <4> QED BY <2>3, <3>3, <4>4, Named, Zenon
    <3> QED BY <3>4, <3>5
  <2> QED BY <2>5, <2>6
<1>5. ASSUME NEW b \in (up \cap job.active) \ up'
      PROVE  job.plan.bridges[b].stops_in_use
  <2>1. b \in InPlan("stopped")
    BY <1>5 DEF ApplyStops
  <2> QED BY <1>2, <1>3, <2>1, StoppedBridge
<1> QED BY <1>4, <1>5

\* The second pass kicks only sessions that the plan names, and drops a link
\* only with the TNC port that the plan restarts.
LEMMA UpdatesForetold ==
  ASSUME Usual, PlanInv, RunInv, RoleInv, NEW b \in job.todo, ApplyUpdate(b)
  PROVE  /\ \A s \in (sess \ kicked) \cap job.seen : s \notin sess' \ kicked' => s \in disconnects(job.plan)
         /\ \A a \in (up \cap job.active) \ up' :
              \E id \in DOMAIN job.plan.bridges[a].ports : job.plan.bridges[a].ports[id].drops_tnc_link
<1> DEFINE bp == job.plan.bridges[b]
           br == job.new.bridges[b]
<1>1. job.pass = "updates" /\ sess' = sess
  BY DEF ApplyUpdate
<1>2. b \in InPlan("updated")
  BY <1>1 DEF PlanInv
<1>3. b \in DOMAIN job.plan.bridges /\ b \in Enabled(cfg) \cap Enabled(job.new)
  BY <1>1, <1>2, PlanSays
<1>4. ASSUME NEW s \in (sess \ kicked) \cap job.seen, s \notin sess' \ kicked'
      PROVE  s \in disconnects(job.plan)
  <2>1. s \in kicked' /\ s \notin kicked
    BY <1>1, <1>4
  <2>2. s \in kicks(bp)
    BY <2>1 DEF ApplyUpdate
  <2>3. PICK id \in DOMAIN bp.ports : s \in bp.ports[id].disconnects
    BY <2>2 DEF kicks
  <2> QED BY <1>3, <2>3, Named
<1>5. ASSUME NEW a \in (up \cap job.active) \ up'
      PROVE  \E id \in DOMAIN job.plan.bridges[a].ports : job.plan.bridges[a].ports[id].drops_tnc_link
  <2> DEFINE again == IF Running(b) THEN Restarting(b, bp, br) ELSE {}
             renewed == {id \in again : connector_ok(br.ports[id])}
  <2>1. up' = IF renewed = {} THEN up ELSE up \ {b}
    BY DEF ApplyUpdate
  <2>2. a = b /\ renewed # {}
    <3> HIDE DEF renewed
    <3> QED BY <1>5, <2>1
  <2>3. PICK id \in renewed : TRUE
    BY <2>2
  <2>4. /\ id \in DOMAIN bp.ports /\ bp.ports[id].action = "restarted" /\ id \in DOMAIN br.ports
        /\ b \in DOMAIN bridges /\ id \in DOMAIN bridges[b].ports /\ bridges[b].ports[id].kind = "tnc"
    BY <2>3 DEF Restarting, RunPort, Running, None
  <2>5. id \in DOMAIN cfg.bridges[b].ports
    BY <2>4 DEF RunInv, HeldBy
  <2>6. br.ports[id].role = "tnc"
    BY <1>3, <2>4, NewRole DEF AsRole
  <2>7. bp.ports[id].drops_tnc_link = (b \in job.active)
    BY <1>1, <1>3, <2>4, <2>5, <2>6, PortDisrupts
  <2> QED BY <1>5, <2>2, <2>4, <2>7, Zenon
<1> QED BY <1>4, <1>5

\* When ports keep their roles and TNC ports connect, applying a plan ends or
\* kicks no session, and drops no link, that was in the plan's snapshot unless
\* the plan says so (apply does what plan told the user it would do).
THEOREM ForetoldSafe == RolesKept /\ TncsAreClients => (SupSpec => DisruptionsForetold)
<1> SUFFICES ASSUME Usual PROVE SupSpec => DisruptionsForetold
  BY DEF Usual
<1>1. SupInit => RoleInv
  BY PlanInit DEF RoleInv
<1>2. PlanInv /\ RunInv /\ RoleInv /\ [SupNext]_sup_vars => RoleInv'
  BY RoleNext
<1>3. PlanInv /\ RunInv /\ RoleInv => Foretold
  <2> SUFFICES ASSUME PlanInv, RunInv, RoleInv, ApplyPlan
               PROVE  /\ \A s \in (sess \ kicked) \cap job.seen :
                           s \notin sess' \ kicked' => s \in disconnects(job.plan)
                      /\ \A b \in (up \cap job.active) \ up' :
                           \/ job.plan.bridges[b].stops_in_use
                           \/ \E id \in DOMAIN job.plan.bridges[b].ports :
                                job.plan.bridges[b].ports[id].drops_tnc_link
    BY DEF Foretold
  <2>1. CASE ApplyStops
    BY <2>1, StopsForetold
  <2>2. ASSUME NEW b \in job.todo, ApplyUpdate(b)
        PROVE  /\ \A s \in (sess \ kicked) \cap job.seen :
                    s \notin sess' \ kicked' => s \in disconnects(job.plan)
               /\ \A a \in (up \cap job.active) \ up' :
                    \E id \in DOMAIN job.plan.bridges[a].ports : job.plan.bridges[a].ports[id].drops_tnc_link
    BY <2>2, UpdatesForetold
  <2>3. CASE ApplyStarts
    BY <2>3, Zenon DEF ApplyStarts
  <2> QED BY <2>1, <2>2, <2>3 DEF ApplyPlan
<1> QED BY <1>1, <1>2, <1>3, HeldInvariant, PTL DEF SupSpec, DisruptionsForetold

------------------------------------------------------------------------------
(* What is configured runs.                                                *)

\* The live settings and the connector of a running bridge are those of br.
SetAs(rp, p) ==
  rp.kind \in ServerKinds =>
    /\ rp.max = p.max
    /\ rp.kind = "tcp-server" => rp.allow = p.allow /\ (rp.follow => p.announce)

LiveAs(rb, br) == \A id \in DOMAIN rb.ports : SetAs(rb.ports[id], br.ports[id])

LinkAs(c, p) == c.kind = p.kind /\ c.where = p.where /\ c.model = p.model

ConnAs(rb, br) ==
  \A id \in DOMAIN rb.ports : rb.ports[id].kind = "tnc" => LinkAs(rb.connector, br.ports[id])

\* The configuration that a bridge has been brought to.
Target(b) == IF job.pass = "updates" /\ b \notin job.todo THEN job.new ELSE cfg

\* The server ports to be running, and those that the third pass is to start.
Wanted(br) == {id \in app_ports_of(br) : br.ports[id].kind \in ServerKinds}

Due(b, id) == /\ b \in InPlan("updated") /\ id \in DOMAIN job.plan.bridges[b].ports
              /\ job.plan.bridges[b].ports[id].action \in {"started", "restarted"}

\* Each bridge has the settings of the configuration it was brought to; and
\* unless something failed, the connector and the ports too, as far as the
\* passes have come.
WholeInv ==
  /\ job.pass = "updates" =>
       \A b \in DOMAIN bridges : \A id \in DOMAIN bridges[b].ports :
         job.plan.bridges[b].ports[id].action = "restarted" => bridges[b].ports[id].kind = "tnc"
  /\ \A b \in DOMAIN bridges : LiveAs(bridges[b], Target(b).bridges[b])
  /\ \A b \in DOMAIN bridges \ failed : ConnAs(bridges[b], Target(b).bridges[b])
  /\ \A b \in Enabled(cfg) \ failed :
       b \in DOMAIN bridges \/ (job.pass = "updates" /\ b \notin Enabled(job.new))
  /\ job.pass # "updates" =>
       \A b \in DOMAIN bridges \ failed : Wanted(cfg.bridges[b]) \subseteq DOMAIN bridges[b].ports
  /\ job.pass = "updates" =>
       \A b \in DOMAIN bridges \ failed : \A id \in Wanted(job.new.bridges[b]) :
         id \in DOMAIN bridges[b].ports \/ Due(b, id)

\* A port that starts has the configured settings, and a connector leads where
\* its port says.
LEMMA StartedAs ==
  ASSUME NEW p, starts(p)
  PROVE  SetAs(running_port(p), p) /\ running_port(p).kind # "tnc"
<1> DEFINE rp == running_port(p)
<1>1. /\ rp.kind \in ServerKinds /\ rp.max = p.max /\ rp.allow = p.allow
      /\ rp.follow => p.announce
  BY StartedPort
<1> HIDE DEF rp
<1> QED BY <1>1 DEF SetAs, ServerKinds, rp

LEMMA Connects ==
  ASSUME NEW p
  PROVE  LinkAs(connector(p), p)
<1>1. connector(p).kind = p.kind /\ connector(p).where = p.where /\ connector(p).model = p.model
  BY DEF connector
<1> QED BY <1>1 DEF LinkAs

\* The first pass stops what restarts or goes, and nothing else.
LEMMA WholeStops ==
  ASSUME Usual, PlanInv, RunInv, RoleInv, WholeInv, ApplyStops
  PROVE  WholeInv'
<1> DEFINE stop == [b \in DOMAIN bridges |->
                      IF b \in InPlan("updated") THEN ports_to_stop(b, job.plan.bridges[b]) ELSE {}]
<1>1. /\ DOMAIN bridges' = DOMAIN bridges \ InPlan("stopped")
      /\ \A b \in DOMAIN bridges' :
           /\ bridges'[b].connector = bridges[b].connector
           /\ DOMAIN bridges'[b].ports = DOMAIN bridges[b].ports \ stop[b]
           /\ \A id \in DOMAIN bridges'[b].ports : bridges'[b].ports[id] = bridges[b].ports[id]
  <2> HIDE DEF stop
  <2> QED BY Stops, Zenon DEF stop, RunInv
<1>2. /\ cfg' = cfg /\ failed' = failed /\ job.pass = "stops" /\ job'.pass = "updates"
      /\ job'.new = job.new /\ job'.plan = job.plan /\ job'.todo = InPlan("updated")
  <2>1. cfg' = cfg /\ failed' = failed /\ job.pass = "stops"
    BY DEF ApplyStops
  <2>2. ~ApplyStarts
    BY <2>1 DEF ApplyStarts
  <2> QED BY <2>1, <2>2, PlanApply DEF ApplyPlan
<1>3. HeldBy(bridges', cfg) /\ HeldBy(bridges', job.new)
  BY <1>2, RunStops DEF RunInv
<1>4. ASSUME NEW b \in DOMAIN bridges'
      PROVE  /\ b \in DOMAIN bridges /\ b \in Enabled(cfg) \cap Enabled(job.new)
             /\ \A id \in DOMAIN bridges'[b].ports :
                  /\ id \in DOMAIN bridges[b].ports
                  /\ id \in DOMAIN cfg.bridges[b].ports \cap DOMAIN job.new.bridges[b].ports
  BY <1>1, <1>3, <1>4 DEF HeldBy
<1>5. ASSUME NEW b \in DOMAIN bridges', NEW id \in DOMAIN bridges'[b].ports,
             job.plan.bridges[b].ports[id].action = "restarted"
      PROVE  bridges'[b].ports[id].kind = "tnc"
  <2> DEFINE o == cfg.bridges[b].ports
             n == job.new.bridges[b].ports
             pp == job.plan.bridges[b].ports
  <2>1. /\ b \in DOMAIN bridges /\ b \in Enabled(cfg) \cap Enabled(job.new)
        /\ id \in DOMAIN bridges[b].ports /\ id \in DOMAIN o \cap DOMAIN n
        /\ id \notin stop[b] /\ bridges'[b].ports[id] = bridges[b].ports[id]
    BY <1>1, <1>4
  <2>2. id \in DOMAIN pp /\ b \in InPlan("updated")
    BY <1>2, <1>5, <2>1, PortsListed
  <2>3. id \notin ports_to_stop(b, job.plan.bridges[b])
    BY <2>1, <2>2
  <2>4. RunPort(b, id) = bridges[b].ports[id].kind
    BY <2>1 DEF RunPort, Running
  <2> QED BY <1>5, <2>1, <2>2, <2>3, <2>4 DEF ports_to_stop
<1>6. ASSUME NEW b \in DOMAIN bridges', b \notin InPlan("updated"), NEW id \in DOMAIN bridges'[b].ports
      PROVE  LET o == cfg.bridges[b].ports[id]
                 n == job.new.bridges[b].ports[id]
             IN  /\ o.max = n.max /\ o.allow = n.allow /\ o.announce = n.announce
                 /\ o.kind = n.kind /\ o.where = n.where /\ o.model = n.model
  <2> DEFINE o == cfg.bridges[b].ports
             n == job.new.bridges[b].ports
             pp == job.plan.bridges[b].ports
  <2>1. b \in Enabled(cfg) \cap Enabled(job.new) /\ id \in DOMAIN o \cap DOMAIN n
    BY <1>4, <1>6
  <2>2. pp[id].action = "unchanged"
    BY <1>2, <1>6, <2>1, PortsListed
  <2> QED BY <1>2, <2>1, <2>2, PortKept
<1>7. ASSUME NEW b \in DOMAIN bridges'
      PROVE  LiveAs(bridges'[b], Target(b)'.bridges[b])
  <2>1. LiveAs(bridges[b], cfg.bridges[b])
    BY <1>2, <1>4 DEF WholeInv, Target
  <2>2. CASE b \in InPlan("updated")
    <3>1. Target(b)' = cfg
      BY <1>2, <2>2 DEF Target
    <3> HIDE DEF stop
    <3> QED BY <1>1, <1>4, <2>1, <3>1 DEF LiveAs
  <2>3. CASE b \notin InPlan("updated")
    <3>1. Target(b)' = job.new
      BY <1>2, <2>3 DEF Target
    <3> SUFFICES ASSUME NEW id \in DOMAIN bridges'[b].ports
                 PROVE  SetAs(bridges'[b].ports[id], job.new.bridges[b].ports[id])
      BY <3>1 DEF LiveAs
    <3>2. bridges'[b].ports[id] = bridges[b].ports[id] /\ id \in DOMAIN bridges[b].ports
      <4> HIDE DEF stop
      <4> QED BY <1>1, <1>4
    <3>3. SetAs(bridges[b].ports[id], cfg.bridges[b].ports[id])
      BY <2>1, <3>2 DEF LiveAs
    <3>4. LET o == cfg.bridges[b].ports[id]
              n == job.new.bridges[b].ports[id]
          IN  o.max = n.max /\ o.allow = n.allow /\ o.announce = n.announce
      BY <1>6, <2>3
    <3> QED BY <3>2, <3>3, <3>4 DEF SetAs
  <2> QED BY <2>2, <2>3
<1>8. ASSUME NEW b \in DOMAIN bridges' \ failed
      PROVE  ConnAs(bridges'[b], Target(b)'.bridges[b])
  <2>1. ConnAs(bridges[b], cfg.bridges[b])
    BY <1>2, <1>4 DEF WholeInv, Target
  <2>2. CASE b \in InPlan("updated")
    <3>1. Target(b)' = cfg
      BY <1>2, <2>2 DEF Target
    <3> HIDE DEF stop
    <3> QED BY <1>1, <1>4, <2>1, <3>1 DEF ConnAs
  <2>3. CASE b \notin InPlan("updated")
    <3>1. Target(b)' = job.new
      BY <1>2, <2>3 DEF Target
    <3> SUFFICES ASSUME NEW id \in DOMAIN bridges'[b].ports, bridges'[b].ports[id].kind = "tnc"
                 PROVE  LinkAs(bridges'[b].connector, job.new.bridges[b].ports[id])
      BY <3>1 DEF ConnAs
    <3>2. /\ bridges'[b].ports[id] = bridges[b].ports[id] /\ id \in DOMAIN bridges[b].ports
          /\ bridges'[b].connector = bridges[b].connector
      <4> HIDE DEF stop
      <4> QED BY <1>1, <1>4
    <3>3. LinkAs(bridges[b].connector, cfg.bridges[b].ports[id])
      BY <2>1, <3>2 DEF ConnAs
    <3>4. LET o == cfg.bridges[b].ports[id]
              n == job.new.bridges[b].ports[id]
          IN  o.kind = n.kind /\ o.where = n.where /\ o.model = n.model
      BY <1>6, <2>3
    <3> QED BY <3>2, <3>3, <3>4 DEF LinkAs
  <2> QED BY <2>2, <2>3
<1>9. ASSUME NEW b \in Enabled(cfg) \ failed
      PROVE  b \in DOMAIN bridges' \/ b \notin Enabled(job.new)
  BY <1>1, <1>2, PlanSays DEF WholeInv
<1>10. ASSUME NEW b \in DOMAIN bridges' \ failed, NEW id \in Wanted(job.new.bridges[b])
       PROVE  id \in DOMAIN bridges'[b].ports \/ Due(b, id)
  <2> DEFINE o == cfg.bridges[b].ports
             n == job.new.bridges[b].ports
             pp == job.plan.bridges[b].ports
  <2>1. b \in DOMAIN bridges /\ b \in Enabled(cfg) \cap Enabled(job.new)
    BY <1>4
  <2>2. id \in DOMAIN n /\ n[id].role = "app" /\ n[id].kind \in ServerKinds
    BY DEF Wanted, app_ports_of
  <2>3. id \in DOMAIN pp
    BY <1>2, <2>1, <2>2, PortsListed
  <2>4. CASE pp[id].action \in {"started", "restarted"}
    <3>1. b \in InPlan("updated")
      BY <1>2, <2>1, <2>3, <2>4, PortsListed
    <3> QED BY <2>3, <2>4, <3>1 DEF Due
  <2>5. CASE pp[id].action \notin {"started", "restarted"}
    <3>1. id \in DOMAIN o /\ pp[id].action \in {"unchanged", "updated"}
      BY <1>2, <2>1, <2>2, <2>5, PortsListed
    <3>2. o[id].role = n[id].role /\ o[id].kind = n[id].kind
      BY <1>2, <2>1, <2>2, <3>1, PortKept
    <3>3. id \in Wanted(cfg.bridges[b])
      BY <2>2, <3>1, <3>2 DEF Wanted, app_ports_of
    <3>4. id \in DOMAIN bridges[b].ports
      BY <1>2, <2>1, <3>3 DEF WholeInv
    <3>5. id \notin stop[b]
      BY <2>1, <3>1 DEF ports_to_stop
    <3> HIDE DEF stop
    <3> QED BY <1>1, <3>4, <3>5
  <2> QED BY <2>4, <2>5
<1>11. \A b, id : Due(b, id)' <=> Due(b, id)
  BY <1>2 DEF Due, InPlan
<1> QED BY <1>2, <1>5, <1>7, <1>8, <1>9, <1>10, <1>11 DEF WholeInv

\* The second pass brings one bridge to the new configuration: its settings,
\* and its connector, unless BlueZ can't be reached.
LEMMA WholeUpdates ==
  ASSUME Usual, PlanInv, RunInv, RoleInv, WholeInv, NEW b \in job.todo, ApplyUpdate(b)
  PROVE  WholeInv'
<1> DEFINE bp == job.plan.bridges[b]
           br == job.new.bridges[b]
           o == cfg.bridges[b].ports
           n == job.new.bridges[b].ports
           pp == job.plan.bridges[b].ports
           again == Renewed(b)
<1>1. Shaped(bridges) /\ HeldBy(bridges, cfg) /\ HeldBy(bridges, job.new) /\ job.new \in Configs
  BY DEF RunInv, ApplyUpdate, PlanInv
<1>2. /\ DOMAIN bridges' = DOMAIN bridges
      /\ \A a \in DOMAIN bridges : a # b => bridges'[a] = bridges[a]
      /\ b \in DOMAIN bridges =>
           /\ bridges'[b].connector = IF again = {} THEN bridges[b].connector
                                      ELSE connector(br.ports[CHOOSE id \in again : TRUE])
           /\ DOMAIN bridges'[b].ports = DOMAIN bridges[b].ports
           /\ \A id \in DOMAIN bridges[b].ports :
                bridges'[b].ports[id] =
                  IF id \in DOMAIN pp /\ pp[id].action = "updated"
                  THEN update_running(bridges[b].ports[id], n[id]) ELSE bridges[b].ports[id]
  BY <1>1, Updates
<1>3. /\ cfg' = cfg /\ job.pass = "updates" /\ job'.pass = "updates"
      /\ job'.new = job.new /\ job'.plan = job.plan /\ job'.todo = job.todo \ {b}
      /\ failed \subseteq failed'
  <2>1. cfg' = cfg /\ job.pass = "updates" /\ failed \subseteq failed'
    BY DEF ApplyUpdate
  <2>2. ApplyPlan
    BY DEF ApplyPlan
  <2>3. ~ApplyStarts
    BY <2>1, <2>2, Zenon DEF ApplyStarts
  <2> QED BY <2>1, <2>2, <2>3, PlanApply
<1>4. b \in InPlan("updated") /\ b \in Enabled(cfg) \cap Enabled(job.new)
  BY <1>3, PlanSays DEF PlanInv
<1>5. b \in DOMAIN bridges =>
        \A id \in DOMAIN bridges[b].ports :
          /\ id \in DOMAIN o \cap DOMAIN n /\ id \in DOMAIN pp
          /\ bridges'[b].ports[id].kind = bridges[b].ports[id].kind
          /\ bridges[b].ports[id].kind \in ServerKinds =>
               /\ pp[id].action \in {"unchanged", "updated"}
               /\ bridges[b].ports[id].kind = n[id].kind
  <2> SUFFICES ASSUME b \in DOMAIN bridges, NEW id \in DOMAIN bridges[b].ports
               PROVE  /\ id \in DOMAIN o \cap DOMAIN n /\ id \in DOMAIN pp
                      /\ bridges'[b].ports[id].kind = bridges[b].ports[id].kind
                      /\ bridges[b].ports[id].kind \in ServerKinds =>
                           /\ pp[id].action \in {"unchanged", "updated"}
                           /\ bridges[b].ports[id].kind = n[id].kind
    OBVIOUS
  <2>1. id \in DOMAIN o \cap DOMAIN n /\ Keeps(bridges[b].ports[id], n[id])
    BY <1>1 DEF HeldBy
  <2>2. id \in DOMAIN pp /\ pp[id].action \in {"restarted", "unchanged", "updated"}
    BY <1>3, <1>4, <2>1, PortsListed, Zenon
  <2>3. DOMAIN bridges[b].ports[id] = {"kind", "where", "adapter", "max", "allow", "follow"}
    BY <1>1 DEF Shaped
  <2>4. update_running(bridges[b].ports[id], n[id]).kind = bridges[b].ports[id].kind
    BY <2>3, UpdatedPort
  <2>5. bridges'[b].ports[id].kind = bridges[b].ports[id].kind
    BY <1>2, <2>4
  <2>6. pp[id].action = "restarted" => bridges[b].ports[id].kind = "tnc"
    BY <1>3 DEF WholeInv
  <2> QED BY <2>1, <2>2, <2>5, <2>6 DEF Keeps, ServerKinds
<1>6. \A a : /\ a # b => Target(a)' = Target(a)
             /\ a = b => Target(a)' = job.new /\ Target(a) = cfg
  BY <1>3 DEF Target
<1>7. ASSUME NEW a \in DOMAIN bridges
      PROVE  LiveAs(bridges'[a], Target(a)'.bridges[a])
  <2>1. LiveAs(bridges[a], Target(a).bridges[a])
    BY DEF WholeInv
  <2>2. CASE a # b
    BY <1>2, <1>6, <2>1, <2>2
  <2>3. CASE a = b
    <3> SUFFICES ASSUME NEW id \in DOMAIN bridges[b].ports PROVE SetAs(bridges'[b].ports[id], n[id])
      BY <1>2, <1>6, <1>7, <2>3 DEF LiveAs
    <3> DEFINE rp == bridges[b].ports[id]
    <3>1. SetAs(rp, o[id])
      BY <1>6, <2>1, <2>3 DEF LiveAs
    <3>2. DOMAIN rp = {"kind", "where", "adapter", "max", "allow", "follow"}
      BY <1>1, <1>7, <2>3 DEF Shaped
    <3>3. /\ id \in DOMAIN o \cap DOMAIN n /\ id \in DOMAIN pp
          /\ bridges'[b].ports[id].kind = rp.kind
          /\ rp.kind \in ServerKinds => pp[id].action \in {"unchanged", "updated"} /\ rp.kind = n[id].kind
      BY <1>5, <1>7, <2>3
    <3>4. CASE rp.kind \notin ServerKinds
      BY <3>3, <3>4 DEF SetAs
    <3>5. CASE rp.kind \in ServerKinds /\ pp[id].action = "updated"
      <4>1. bridges'[b].ports[id] = update_running(rp, n[id])
        BY <1>2, <1>7, <2>3, <3>3, <3>5
      <4>2. LET u == update_running(rp, n[id])
            IN  /\ u.kind = rp.kind /\ u.max = n[id].max
                /\ rp.kind = "tcp-server" => u.allow = n[id].allow /\ (u.follow => n[id].announce)
        BY <3>2, <3>3, <3>5, UpdatedPort, Zenon
      <4> QED BY <4>1, <4>2, Zenon DEF SetAs
    <3>6. CASE rp.kind \in ServerKinds /\ pp[id].action = "unchanged"
      <4>1. bridges'[b].ports[id] = rp
        BY <1>2, <1>7, <2>3, <3>6
      <4>2. o[id].max = n[id].max /\ o[id].allow = n[id].allow /\ o[id].announce = n[id].announce
        BY <1>3, <1>4, <3>3, <3>6, PortKept
      <4> QED BY <3>1, <4>1, <4>2 DEF SetAs
    <3> QED BY <3>3, <3>4, <3>5, <3>6
  <2> QED BY <2>2, <2>3
<1>8. ASSUME NEW a \in DOMAIN bridges \ failed'
      PROVE  ConnAs(bridges'[a], Target(a)'.bridges[a])
  <2>1. ConnAs(bridges[a], Target(a).bridges[a])
    BY <1>3 DEF WholeInv
  <2>2. CASE a # b
    BY <1>2, <1>6, <2>1, <2>2
  <2>3. CASE a = b
    <3> SUFFICES ASSUME NEW id \in DOMAIN bridges[b].ports, bridges[b].ports[id].kind = "tnc"
                 PROVE  LinkAs(bridges'[b].connector, n[id])
      BY <1>2, <1>5, <1>6, <1>8, <2>3 DEF ConnAs
    <3>1. LinkAs(bridges[b].connector, o[id])
      BY <1>6, <2>1, <2>3 DEF ConnAs
    <3>2. b \in DOMAIN bridges /\ id \in DOMAIN o \cap DOMAIN n /\ id \in DOMAIN pp
      BY <1>5, <1>8, <2>3
    <3>3. n[id].role = "tnc"
      BY <1>4, <3>2, NewRole DEF AsRole
    <3>4. \A j \in Restarting(b, bp, br) : j = id
      <4> SUFFICES ASSUME NEW j \in Restarting(b, bp, br) PROVE j = id
        OBVIOUS
      <4>1. j \in DOMAIN n /\ j \in DOMAIN bridges[b].ports /\ bridges[b].ports[j].kind = "tnc"
        BY DEF Restarting, RunPort, Running, None
      <4>2. n[j].role = "tnc"
        BY <1>4, <3>2, <4>1, NewRole DEF AsRole
      <4> QED BY <1>1, <1>4, <3>2, <3>3, <4>1, <4>2, TncPort
    <3>5. CASE pp[id].action = "restarted"
      <4>1. id \in Restarting(b, bp, br)
        BY <3>2, <3>5 DEF Restarting, RunPort, Running
      <4>2. Reaches(n[id])
        <5>1. b \notin failed'
          BY <1>8, <2>3
        <5> QED BY <3>2, <4>1, <5>1 DEF ApplyUpdate, Running
      <4>3. n[id].kind \in ClientKinds
        BY <1>1, <1>4, <3>2, <3>3 DEF Usual, TncsAreClients
      <4>4. again = {id}
        BY <3>4, <4>1, <4>2, <4>3 DEF connector_ok, Renewed
      <4>5. bridges'[b].connector = connector(n[id])
        BY <1>2, <3>2, <4>4
      <4> QED BY <4>5, Connects
    <3>6. CASE pp[id].action # "restarted"
      <4>1. again = {}
        BY <3>4, <3>6 DEF Restarting, Renewed
      <4>2. bridges'[b].connector = bridges[b].connector
        BY <1>2, <3>2, <4>1
      <4>3. o[id].kind = n[id].kind /\ o[id].where = n[id].where /\ o[id].model = n[id].model
        BY <1>3, <1>4, <3>2, <3>6, PortKept
      <4> QED BY <3>1, <4>2, <4>3 DEF LinkAs
    <3> QED BY <3>5, <3>6
  <2> QED BY <2>2, <2>3
<1>9. \A a \in DOMAIN bridges :
        /\ DOMAIN bridges'[a].ports = DOMAIN bridges[a].ports
        /\ \A id \in DOMAIN bridges[a].ports : bridges'[a].ports[id].kind = bridges[a].ports[id].kind
  <2> HIDE DEF again
  <2> QED BY <1>2, <1>5
<1>10. \A a, id : Due(a, id)' <=> Due(a, id)
  BY <1>3 DEF Due, InPlan
<1> HIDE DEF again
<1>11. \A a \in DOMAIN bridges' : \A id \in DOMAIN bridges'[a].ports :
         job'.plan.bridges[a].ports[id].action = "restarted" => bridges'[a].ports[id].kind = "tnc"
  <2>1. \A a \in DOMAIN bridges : \A id \in DOMAIN bridges[a].ports :
          job.plan.bridges[a].ports[id].action = "restarted" => bridges[a].ports[id].kind = "tnc"
    BY <1>3 DEF WholeInv
  <2>2. DOMAIN bridges' = DOMAIN bridges /\ job'.plan = job.plan
    BY <1>2, <1>3
  <2> QED BY <1>9, <2>1, <2>2
<1>12. \A a \in Enabled(cfg') \ failed' :
         a \in DOMAIN bridges' \/ (job'.pass = "updates" /\ a \notin Enabled(job'.new))
  BY <1>2, <1>3 DEF WholeInv
<1>13. \A a \in DOMAIN bridges' \ failed' : \A id \in Wanted(job'.new.bridges[a]) :
         id \in DOMAIN bridges'[a].ports \/ Due(a, id)'
  BY <1>2, <1>3, <1>9, <1>10 DEF WholeInv
<1>14. /\ \A a \in DOMAIN bridges' : LiveAs(bridges'[a], Target(a)'.bridges[a])
       /\ \A a \in DOMAIN bridges' \ failed' : ConnAs(bridges'[a], Target(a)'.bridges[a])
  BY <1>2, <1>7, <1>8
<1> QED BY <1>3, <1>11, <1>12, <1>13, <1>14 DEF WholeInv

\* What the third pass could not start is recorded as failed.
LEMMA NotLost ==
  ASSUME ApplyStarts, NEW b, b \notin failed', NEW br, br = job.new.bridges[b]
  PROVE  /\ b \in failed => b \in InPlan("stopped")
         /\ b \in InPlan("started") => Reaches(br.ports[tnc_port(br)])
         /\ b \in NewBridges =>
              \A id \in app_ports_of(br) : br.ports[id].kind \in ServerKinds => Reaches(br.ports[id])
         /\ b \in InPlan("updated") \cap DOMAIN bridges /\ b \notin NewBridges =>
              \A id \in ports_to_start(b, job.plan.bridges[b]) :
                br.ports[id].kind \in ServerKinds => Reaches(br.ports[id])
  BY Zenon DEF ApplyStarts, NewBridges

\* The third pass starts the rest: then all that is configured runs.
LEMMA WholeStarts ==
  ASSUME Usual, PlanInv, RunInv, RoleInv, WholeInv, ApplyStarts
  PROVE  WholeInv'
<1> DEFINE new == NewBridges
           upd == InPlan("updated") \cap DOMAIN bridges
<1>1. /\ HeldBy(bridges, job.new) /\ HeldBy(bridges, cfg) /\ job.pass = "updates" /\ job.todo = {}
      /\ job.new \in Configs /\ Shaped(bridges)
  BY Zenon DEF RunInv, ApplyStarts, PlanInv
<1>2. /\ DOMAIN bridges' = DOMAIN bridges \cup new
      /\ \A b \in DOMAIN bridges \ (new \cup upd) : bridges'[b] = bridges[b]
  BY Starts
<1>3. cfg' = job.new /\ job'.pass # "updates"
  <2>1. cfg' = job.new
    BY Zenon DEF ApplyStarts
  <2>2. job'.pass \in {"idle", "exited"}
    BY PlanApply DEF ApplyPlan
  <2> QED BY <2>1, <2>2
<1>4. \A b \in DOMAIN bridges :
        /\ b \in Enabled(job.new) /\ b \notin InPlan("stopped")
        /\ LiveAs(bridges[b], job.new.bridges[b])
        /\ b \notin failed => ConnAs(bridges[b], job.new.bridges[b])
  <2>1. \A b : Target(b) = job.new
    BY <1>1 DEF Target
  <2> QED BY <1>1, <2>1, PlanSays DEF WholeInv, HeldBy
<1> DEFINE Good(b) == /\ LiveAs(bridges'[b], job.new.bridges[b])
                      /\ b \notin failed' => ConnAs(bridges'[b], job.new.bridges[b])
                      /\ b \notin failed' => Wanted(job.new.bridges[b]) \subseteq DOMAIN bridges'[b].ports
<1>5. ASSUME NEW b \in new PROVE Good(b)
  <2> DEFINE br == job.new.bridges[b]
             apps == Able(br, app_ports_of(br))
  <2>1. /\ bridges'[b].connector = connector(br.ports[tnc_port(br)])
        /\ DOMAIN bridges'[b].ports = apps \cup {tnc_port(br)}
        /\ \A id \in apps : bridges'[b].ports[id] = running_port(br.ports[id])
        /\ \A id \in DOMAIN bridges'[b].ports \ apps : bridges'[b].ports[id] = RunningTnc
    BY StartsNew
  <2>2. ASSUME NEW id \in apps
        PROVE  SetAs(bridges'[b].ports[id], br.ports[id]) /\ bridges'[b].ports[id].kind # "tnc"
    <3>1. starts(br.ports[id]) /\ bridges'[b].ports[id] = running_port(br.ports[id])
      BY <2>1 DEF Able
    <3> QED BY <3>1, StartedAs
  <2>3. RunningTnc.kind \notin ServerKinds
    BY DEF RunningTnc, ServerKinds
  <2>4. b \notin failed' => Wanted(br) \subseteq apps
    BY NotLost DEF Wanted, starts, Able
  <2> HIDE DEF apps
  <2>5. LiveAs(bridges'[b], br)
    BY <2>1, <2>2, <2>3 DEF LiveAs, SetAs
  <2>6. ConnAs(bridges'[b], br)
    <3> SUFFICES ASSUME NEW id \in DOMAIN bridges'[b].ports, bridges'[b].ports[id].kind = "tnc"
                 PROVE  LinkAs(bridges'[b].connector, br.ports[id])
      BY DEF ConnAs
    <3>1. id = tnc_port(br)
      BY <2>1, <2>2
    <3> QED BY <2>1, <3>1, Connects
  <2> QED BY <2>1, <2>4, <2>5, <2>6
<1>6. ASSUME NEW b \in upd \ new PROVE Good(b)
  <2> DEFINE br == job.new.bridges[b]
             ids == ports_to_start(b, job.plan.bridges[b])
             ok == Able(br, ids)
  <2>1. DOMAIN bridges[b] = {"connector", "settings", "name", "ports"}
    BY <1>1 DEF Shaped
  <2>2. /\ bridges'[b].connector = bridges[b].connector
        /\ DOMAIN bridges'[b].ports = DOMAIN bridges[b].ports \cup ok
        /\ \A id \in ok : bridges'[b].ports[id] = running_port(br.ports[id])
        /\ \A id \in DOMAIN bridges[b].ports \ ok : bridges'[b].ports[id] = bridges[b].ports[id]
    BY <1>1, StartsMore
  <2>3. ASSUME NEW id \in ok
        PROVE  SetAs(bridges'[b].ports[id], br.ports[id]) /\ bridges'[b].ports[id].kind # "tnc"
    <3>1. starts(br.ports[id]) /\ bridges'[b].ports[id] = running_port(br.ports[id])
      BY <2>2 DEF Able
    <3> QED BY <3>1, StartedAs
  <2>4. ASSUME b \notin failed', NEW id \in Wanted(br)
        PROVE  id \in DOMAIN bridges[b].ports \cup ok
    <3>1. b \notin failed
      BY <1>4, <2>4, NotLost
    <3>2. id \in DOMAIN bridges[b].ports \/ Due(b, id)
      BY <1>1, <3>1 DEF WholeInv
    <3>3. CASE id \notin DOMAIN bridges[b].ports
      <4>1. RunPort(b, id) = None
        BY <3>3 DEF RunPort
      <4>2. id \in ids
        BY <3>2, <3>3, <4>1 DEF ports_to_start, Due
      <4>3. br.ports[id].kind \in ServerKinds
        BY DEF Wanted
      <4>4. Reaches(br.ports[id])
        BY <2>4, <4>2, <4>3, NotLost
      <4> QED BY <4>2, <4>3, <4>4 DEF starts, Able
    <3> QED BY <3>3
  <2> HIDE DEF ok
  <2>5. LiveAs(bridges[b], br) /\ (b \notin failed' => ConnAs(bridges[b], br))
    BY <1>4, NotLost
  <2>6. LiveAs(bridges'[b], br)
    BY <2>2, <2>3, <2>5 DEF LiveAs
  <2>7. b \notin failed' => ConnAs(bridges'[b], br)
    BY <2>2, <2>3, <2>5 DEF ConnAs
  <2> QED BY <2>2, <2>4, <2>6, <2>7
<1>7. ASSUME NEW b \in DOMAIN bridges \ (new \cup upd) PROVE Good(b)
  <2>1. bridges'[b] = bridges[b]
    BY <1>2
  <2>2. b \notin failed' => b \notin failed
    BY <1>4, NotLost
  <2>3. \A id : ~Due(b, id)
    BY DEF Due
  <2>4. b \notin failed => Wanted(job.new.bridges[b]) \subseteq DOMAIN bridges[b].ports
    BY <1>1, <2>3 DEF WholeInv
  <2> QED BY <1>4, <2>1, <2>2, <2>4
<1>8. \A b \in DOMAIN bridges' : Good(b)
  <2> HIDE DEF new, upd, Good
  <2> QED BY <1>2, <1>5, <1>6, <1>7
<1>9. ASSUME NEW b \in Enabled(job.new) \ failed' PROVE b \in DOMAIN bridges'
  <2>1. CASE b \in Enabled(cfg)
    <3>1. b \notin InPlan("stopped")
      BY <1>1, <2>1, PlanSays
    <3>2. b \notin failed
      BY <1>9, <3>1, NotLost
    <3> QED BY <1>2, <2>1, <3>2 DEF WholeInv
  <2>2. CASE b \notin Enabled(cfg)
    <3> DEFINE br == job.new.bridges[b]
    <3>1. b \in InPlan("started")
      BY <1>1, <2>2, PlanSays
    <3>2. Reaches(br.ports[tnc_port(br)])
      BY <1>9, <3>1, NotLost
    <3>3. tnc_port(br) \in DOMAIN br.ports /\ br.ports[tnc_port(br)].role = "tnc"
      BY <1>1, TncPort
    <3>4. br.ports[tnc_port(br)].kind \in ClientKinds
      BY <1>1, <3>3 DEF Usual, TncsAreClients
    <3>5. b \in new
      BY <3>1, <3>2, <3>4 DEF NewBridges, connector_ok
    <3> QED BY <1>2, <3>5
  <2> QED BY <2>1, <2>2
<1>10. \A b : Target(b)' = job.new
  BY <1>3 DEF Target
<1> QED BY <1>3, <1>8, <1>9, <1>10 DEF WholeInv

\* All that is configured runs, as far as the passes have come.
LEMMA WholeNext ==
  ASSUME Usual, PlanInv, RunInv, RoleInv, WholeInv, [SupNext]_sup_vars
  PROVE  WholeInv'
<1>1. CASE ApplyPlan
  BY <1>1, WholeStops, WholeUpdates, WholeStarts DEF ApplyPlan
<1>2. ASSUME NEW c \in tally.bound.configs, NEW nd, ReloadPlan(c, nd) PROVE WholeInv'
  <2>1. UNCHANGED <<cfg, bridges, failed>> /\ job.pass = "idle"
    BY <1>2 DEF ReloadPlan, AtRest
  <2>2. job'.pass = "stops"
    BY <1>2, PlanReload
  <2>3. \A b : Target(b)' = Target(b)
    BY <2>1, <2>2 DEF Target
  <2> QED BY <2>1, <2>2, <2>3 DEF WholeInv
<1>3. ASSUME NEW c \in tally.bound.configs, Restart(c) PROVE WholeInv'
  <2>1. bridges' = [b \in {} |-> None] /\ job'.pass = "stops"
    BY <1>3, PlanRestart
  <2>2. Enabled(cfg') = {}
    <3>1. c \in Configs
      BY FoundConfig DEF PlanInv
    <3> QED BY <1>3, <3>1, NothingEnabled DEF Restart
  <2> QED BY <2>1, <2>2 DEF WholeInv
<1>4. CASE Around
  <2>1. \A b : Target(b)' = Target(b)
    BY <1>4 DEF Around, Target
  <2>2. \A b, id : Due(b, id)' <=> Due(b, id)
    BY <1>4 DEF Around, Due, InPlan
  <2>3. UNCHANGED <<cfg, job, failed>> /\ DOMAIN bridges' = DOMAIN bridges
        /\ \A a \in DOMAIN bridges : /\ bridges'[a].ports = bridges[a].ports
                                     /\ bridges'[a].connector = bridges[a].connector
    BY <1>4 DEF Around
  <2>4. \A b \in DOMAIN bridges : \A br : /\ LiveAs(bridges'[b], br) <=> LiveAs(bridges[b], br)
                                          /\ ConnAs(bridges'[b], br) <=> ConnAs(bridges[b], br)
    BY <2>3 DEF LiveAs, ConnAs
  <2> QED BY <2>1, <2>2, <2>3, <2>4 DEF WholeInv
<1>5. Shaped(bridges)
  BY DEF RunInv
<1> QED BY <1>1, <1>2, <1>3, <1>4, <1>5, Steps

\* What runs is what is configured, once nothing is being applied.
LEMMA Settles ==
  ASSUME Usual, PlanInv, RunInv, RoleInv, WholeInv
  PROVE  RunsAsConfigured
<1> SUFFICES ASSUME Settled
             PROVE  /\ DOMAIN bridges = {b \in Enabled(cfg) :
                         cfg.bridges[b].ports[tnc_port(cfg.bridges[b])].kind \in ClientKinds}
                    /\ \A b \in DOMAIN bridges :
                         LET br == cfg.bridges[b]
                             want == {id \in app_ports_of(br) : br.ports[id].kind \in ServerKinds}
                             tnc == br.ports[tnc_port(br)]
                             c == bridges[b].connector
                         IN  /\ want = {id \in DOMAIN bridges[b].ports : RunPort(b, id) \in ServerKinds}
                             /\ \A id \in want :
                                  LET rp == bridges[b].ports[id]
                                      p == br.ports[id]
                                  IN  /\ <<rp.kind, rp.where, rp.max>> = <<p.kind, p.where, p.max>>
                                      /\ p.kind = "tcp-server" =>
                                           rp.allow = p.allow /\ (rp.follow => p.announce)
                             /\ RunPort(b, tnc_port(br)) = "tnc" =>
                                  <<c.kind, c.where, c.model>> = <<tnc.kind, tnc.where, tnc.model>>
  BY Zenon DEF RunsAsConfigured
<1>1. job.pass = "idle" /\ failed = {} /\ HeldBy(bridges, cfg)
  BY DEF Settled, AtRest, RunInv
<1>2. ASSUME NEW b \in Enabled(cfg)
      PROVE  /\ cfg \in Configs /\ b \in DOMAIN bridges
             /\ cfg.bridges[b].ports[tnc_port(cfg.bridges[b])].kind \in ClientKinds
  <2>1. cfg \in Configs
    BY DEF PlanInv
  <2>2. b \in DOMAIN bridges
    BY <1>1 DEF WholeInv
  <2>3. /\ tnc_port(cfg.bridges[b]) \in DOMAIN cfg.bridges[b].ports
        /\ cfg.bridges[b].ports[tnc_port(cfg.bridges[b])].role = "tnc"
    BY <2>1, TncPort
  <2> QED BY <2>1, <2>2, <2>3 DEF Usual, TncsAreClients
<1>3. DOMAIN bridges = {b \in Enabled(cfg) :
                          cfg.bridges[b].ports[tnc_port(cfg.bridges[b])].kind \in ClientKinds}
  <2>1. DOMAIN bridges \subseteq Enabled(cfg)
    BY <1>1 DEF HeldBy
  <2> QED BY <1>2, <2>1, Zenon
<1>4. ASSUME NEW b \in DOMAIN bridges
      PROVE  LET br == cfg.bridges[b]
                 want == {id \in app_ports_of(br) : br.ports[id].kind \in ServerKinds}
                 tnc == br.ports[tnc_port(br)]
                 c == bridges[b].connector
             IN  /\ want = {id \in DOMAIN bridges[b].ports : RunPort(b, id) \in ServerKinds}
                 /\ \A id \in want :
                      LET rp == bridges[b].ports[id]
                          p == br.ports[id]
                      IN  /\ <<rp.kind, rp.where, rp.max>> = <<p.kind, p.where, p.max>>
                          /\ p.kind = "tcp-server" => rp.allow = p.allow /\ (rp.follow => p.announce)
                 /\ RunPort(b, tnc_port(br)) = "tnc" =>
                      <<c.kind, c.where, c.model>> = <<tnc.kind, tnc.where, tnc.model>>
  <2> DEFINE br == cfg.bridges[b]
             want == {id \in app_ports_of(br) : br.ports[id].kind \in ServerKinds}
  <2>1. Target(b) = cfg
    BY <1>1 DEF Target
  <2>2. LiveAs(bridges[b], br) /\ ConnAs(bridges[b], br) /\ want \subseteq DOMAIN bridges[b].ports
    BY <1>1, <2>1 DEF WholeInv, Wanted
  <2>3. \A id : RunPort(b, id) = IF id \in DOMAIN bridges[b].ports THEN bridges[b].ports[id].kind ELSE None
    BY DEF RunPort, Running
  <2>4. ASSUME NEW id \in DOMAIN bridges[b].ports
        PROVE  /\ id \in DOMAIN br.ports /\ Keeps(bridges[b].ports[id], br.ports[id])
               /\ AsRole(bridges[b].ports[id], br.ports[id])
    BY <1>1 DEF HeldBy, RoleInv
  <2>5. ASSUME NEW id \in want
        PROVE  /\ id \in DOMAIN bridges[b].ports /\ bridges[b].ports[id].kind \in ServerKinds
               /\ bridges[b].ports[id].kind = br.ports[id].kind
               /\ bridges[b].ports[id].where = br.ports[id].where
               /\ bridges[b].ports[id].max = br.ports[id].max
               /\ br.ports[id].kind = "tcp-server" =>
                    /\ bridges[b].ports[id].allow = br.ports[id].allow
                    /\ bridges[b].ports[id].follow => br.ports[id].announce
    <3>1. id \in DOMAIN bridges[b].ports /\ br.ports[id].role = "app"
      BY <2>2 DEF app_ports_of
    <3>2. bridges[b].ports[id].kind # "tnc"
      BY <2>4, <3>1 DEF AsRole
    <3>3. /\ bridges[b].ports[id].kind \in ServerKinds
          /\ bridges[b].ports[id].kind = br.ports[id].kind
          /\ bridges[b].ports[id].where = br.ports[id].where
      BY <2>4, <3>1, <3>2 DEF Keeps
    <3>4. SetAs(bridges[b].ports[id], br.ports[id])
      BY <2>2, <3>1 DEF LiveAs
    <3> QED BY <3>1, <3>3, <3>4 DEF SetAs
  <2>6. ASSUME NEW id \in DOMAIN bridges[b].ports, bridges[b].ports[id].kind \in ServerKinds
        PROVE  id \in want
    <3>1. id \in DOMAIN br.ports /\ br.ports[id].role = "app"
      BY <2>4, <2>6 DEF AsRole
    <3>2. br.ports[id].kind \in ServerKinds
      BY <2>4, <2>6 DEF Keeps, ServerKinds
    <3> QED BY <3>1, <3>2 DEF app_ports_of
  <2>7. None \notin ServerKinds
    BY DEF None, ServerKinds
  <2> HIDE DEF want
  <2>8. want = {id \in DOMAIN bridges[b].ports : RunPort(b, id) \in ServerKinds}
    BY <2>3, <2>5, <2>6
  <2>9. RunPort(b, tnc_port(br)) = "tnc" => LinkAs(bridges[b].connector, br.ports[tnc_port(br)])
    BY <2>2, <2>3 DEF ConnAs, None
  <2> QED BY <2>5, <2>8, <2>9 DEF want, LinkAs
<1> QED BY <1>3, <1>4, Zenon

\* When ports keep their roles and TNC ports connect, then whatever the sequence
\* of reloads and restarts, once a plan is applied and nothing failed to start:
\* the bridges that run are the enabled ones whose TNC port can connect; the app
\* ports that run are the configured servers, at their configured addresses and
\* with their configured limits; and a bridge whose TNC port runs under its
\* configured id connects to the configured TNC (apply's three passes).  The
\* settings of the link are not in it: a TNC port restarted in place keeps the
\* former ones.  Nor is the TNC of a bridge whose TNC port changed its id.
THEOREM RunsSafe == RolesKept /\ TncsAreClients => (SupSpec => []RunsAsConfigured)
<1> SUFFICES ASSUME Usual PROVE SupSpec => []RunsAsConfigured
  BY DEF Usual
<1>1. SupInit => RoleInv /\ WholeInv
  BY PlanInit DEF RoleInv, WholeInv
<1>2. PlanInv /\ RunInv /\ RoleInv /\ WholeInv /\ [SupNext]_sup_vars => (RoleInv /\ WholeInv)'
  BY RoleNext, WholeNext
<1>3. PlanInv /\ RunInv /\ RoleInv /\ WholeInv => RunsAsConfigured
  BY Settles
<1> QED BY <1>1, <1>2, <1>3, HeldInvariant, PTL DEF SupSpec
=============================================================================
