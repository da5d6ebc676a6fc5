------------------------------- MODULE Config -------------------------------
(***************************************************************************)
(* config/: from the files as written to the configuration in effect       *)
(* (load, resolve, validate, build).                                        *)
(*                                                                         *)
(* A file is the record of its definitions.  An optional value is a set of *)
(* at most one element.  An object has a field `fine`: whether those of    *)
(* its values that concern nothing but itself (the syntax of an id, an     *)
(* address, a duration, an RFCOMM channel) are accepted.  Errors are only  *)
(* there or not: no caller tells them apart.  Warnings are left out.       *)
(***************************************************************************)
EXTENDS Naturals, Sequences, FiniteSets, SequencesExt

unwrap_or(o, d) == IF o = {} THEN d ELSE CHOOSE x \in o : TRUE

Positions(s, P(_)) == {i \in DOMAIN s : P(s[i])}
First(s, P(_)) == IF Positions(s, P) = {} THEN {} ELSE {s[CHOOSE i \in Positions(s, P) : \A j \in Positions(s, P) : i <= j]}
Last_(s, P(_)) == IF Positions(s, P) = {} THEN {} ELSE {s[CHOOSE i \in Positions(s, P) : \A j \in Positions(s, P) : j <= i]}

(***************************************************************************)
(* The definitions as written                                              *)
(***************************************************************************)
NoFile == [parses |-> TRUE, global |-> {}, adapter |-> <<>>, tnc |-> <<>>, bridge |-> <<>>]

\* An AdapterValue says what it is by; the default is never written.
Mac(m) == [by |-> "mac", name |-> m]
Id(i) == [by |-> "id", name |-> i]
Default == [by |-> "default", name |-> ""]

\* A `listen` is a bare TCP port, an address with one, or an interface with one.
Anywhere == "0.0.0.0"
Loopback == "127.0.0.1"
Written(form, host, port) == [form |-> form, host |-> host, port |-> port]
from_str(w) == [on |-> IF w.form = "interface" THEN "interface" ELSE "addr",
                host |-> IF w.form = "port" THEN Loopback ELSE w.host,
                port |-> w.port]

is_unspecified(l) == l.on = "addr" /\ l.host = Anywhere
is_loopback(l) == l.on = "addr" /\ l.host = Loopback

conflicts_with(a, b) ==
    /\ a.port = b.port
    /\ \/ a.on = b.on /\ a.host = b.host
       \/ is_unspecified(a) \/ is_unspecified(b)

Needs == [spp_client |-> "spp", ble_client |-> "ble", serial |-> "serial"]
Servers == {"tcp_server", "ble_server"}
default_role(type) == IF type \in Servers THEN "app" ELSE "tnc"

(***************************************************************************)
(* load.rs                                                                 *)
(***************************************************************************)
\* The main file, then conf.d; [global] belongs in the main file.
load(main, conf_d) ==
    IF ~main.parses \/ (\E i \in DOMAIN conf_d : ~conf_d[i].parses \/ conf_d[i].global # {}) THEN {}
    ELSE {<<[source |-> "static", file |-> main]>>
            \o [i \in DOMAIN conf_d |-> [source |-> "static", file |-> conf_d[i]]]}

parse_dynamic(text) == IF text.parses /\ text.global = {} THEN {text} ELSE {}

(***************************************************************************)
(* resolve.rs                                                              *)
(***************************************************************************)
\* Every definition of a kind, in the order of the files, with its source.
Defs(files, kind) ==
    FlattenSeq([i \in DOMAIN files |->
        [j \in DOMAIN files[i].file[kind] |-> [def |-> files[i].file[kind][j], source |-> files[i].source]]])

\* A static object may refer only to static ones.
Visible(from, to) == from = "static" => to = "static"

\* An id that two adapters have means the later one (validate refuses both).
resolve_adapter_value(adapters, v, source) ==
    IF v.by # "id" THEN [fine |-> TRUE, sel |-> v]
    ELSE LET hit == Last_(adapters, LAMBDA a : a.id = v.name)
         IN [fine |-> \E a \in hit : Visible(source, a.source),
             sel |-> IF hit = {} THEN Default ELSE Mac((CHOOSE a \in hit : TRUE).mac)]

\* A transport of a TNC, its adapter resolved or the global one.
Section(written, adapters, global, source) ==
    {LET r == resolve_adapter_value(adapters, unwrap_or(s.adapter, global), source)
     IN [fine |-> r.fine, address |-> s.address, adapter |-> r.sel] : s \in written}

\* A TNC with its transports.
Transports(d, spp, ble) ==
    [fine |-> d.def.fine /\ (\A s \in spp \cup ble : s.fine) /\ (spp # {} \/ ble # {} \/ d.def.serial # {}),
     id |-> d.def.id, spp |-> spp, ble |-> ble, serial |-> d.def.serial, source |-> d.source]

resolve_tnc(d, adapters, global) ==
    Transports(d, Section(d.def.spp, adapters, global, d.source), Section(d.def.ble, adapters, global, d.source))

\* Without an id a port has its type and the number of those before it.
PortId(ports, i) ==
    unwrap_or(ports[i].id, <<ports[i].type, Cardinality({j \in 1..(i - 1) : ports[j].type = ports[i].type})>>)

\* The TNC's settings are copied into the port.
resolve_port(ports, i, adapters, tncs, global, source) ==
    LET p == ports[i]
        adapter == resolve_adapter_value(adapters, unwrap_or(p.adapter, global), source)
        tnc == First(tncs, LAMBDA t : t.id = p.tnc)
    IN [fine |-> /\ p.fine
                 /\ p.type \in Servers => p.max_clients # {0}
                 /\ p.type = "ble_server" => adapter.fine
                 /\ p.type \in DOMAIN Needs => \E t \in tnc : Visible(source, t.source) /\ t[Needs[p.type]] # {},
        id |-> PortId(ports, i), type |-> p.type,
        role |-> unwrap_or(p.role, default_role(p.type)),
        listen |-> from_str(p.listen),
        announce |-> unwrap_or(p.announce, ~is_loopback(from_str(p.listen))),
        adapter |-> IF p.type = "ble_server" THEN adapter.sel ELSE Default,
        max_clients |-> IF p.type = "ble_server" /\ p.max_clients = {} THEN {1} ELSE p.max_clients,
        tnc |-> IF p.type \in DOMAIN Needs THEN {p.tnc} ELSE {},
        link |-> IF p.type \in DOMAIN Needs THEN {t[Needs[p.type]] : t \in tnc} ELSE {}]

resolve_bridge(d, adapters, tncs, global) ==
    [fine |-> d.def.fine /\ d.def.id # {},
     id |-> unwrap_or(d.def.id, ""), name |-> d.def.name,
     public_name |-> unwrap_or(d.def.public_name, d.def.name),
     enabled |-> unwrap_or(d.def.enabled, TRUE),
     ports |-> [i \in DOMAIN d.def.port |-> resolve_port(d.def.port, i, adapters, tncs, global, d.source)],
     source |-> d.source]

resolve_adapters(files) ==
    [d \in DOMAIN Defs(files, "adapter") |->
        LET a == Defs(files, "adapter")[d]
        IN [id |-> a.def.id, mac |-> a.def.mac, fine |-> a.def.fine, source |-> a.source]]

\* The last file that sets the global adapter counts.
Globals(files) == SelectSeq(files, LAMBDA f : f.file.global # {})
resolve_global(written, adapters) ==
    IF written = <<>> THEN [fine |-> TRUE, sel |-> Default]
    ELSE resolve_adapter_value(adapters, unwrap_or(Last(written).file.global, Default), Last(written).source)

resolve_tncs(defs, adapters, global) == [i \in DOMAIN defs |-> resolve_tnc(defs[i], adapters, global)]
resolve_bridges(defs, adapters, tncs, global) ==
    [i \in DOMAIN defs |-> resolve_bridge(defs[i], adapters, tncs, global)]

\* What was resolved, unless some of it has an error.
Resolved(adapters, tncs, bridges) ==
    LET Fine(s) == \A i \in DOMAIN s : s[i].fine
    IN IF Fine(adapters) /\ Fine(tncs) /\ Fine(bridges) /\ \A i \in DOMAIN bridges : Fine(bridges[i].ports)
       THEN {[adapters |-> adapters, tncs |-> tncs, bridges |-> bridges]} ELSE {}

resolve_with(files, adapters, global) ==
    LET tncs == resolve_tncs(Defs(files, "tnc"), adapters, global.sel)
    IN IF global.fine
       THEN Resolved(adapters, tncs, resolve_bridges(Defs(files, "bridge"), adapters, tncs, global.sel)) ELSE {}

resolve(files) ==
    LET adapters == resolve_adapters(files) IN resolve_with(files, adapters, resolve_global(Globals(files), adapters))

(***************************************************************************)
(* validate.rs                                                             *)
(***************************************************************************)
Distinct(s, key(_)) == \A i, j \in DOMAIN s : i # j => key(s[i]) = {} \/ key(s[i]) # key(s[j])

tnc_ports(b) == {i \in DOMAIN b.ports : b.ports[i].role = "tnc"}
app_ports(b) == {i \in DOMAIN b.ports : b.ports[i].role = "app"}
incomplete(b) == Cardinality(tnc_ports(b)) # 1 \/ app_ports(b) = {}

PortsConflict(p, q) ==
    \/ p.tnc # {} /\ p.tnc = q.tnc
    \/ p.type = "tcp_server" /\ q.type = "tcp_server" /\ conflicts_with(p.listen, q.listen)
    \/ p.type = "ble_server" /\ q.type = "ble_server" /\ p.adapter = q.adapter

BridgesConflict(a, b) ==
    \/ a.public_name = b.public_name
    \/ \E i \in DOMAIN a.ports, j \in DOMAIN b.ports : PortsConflict(a.ports[i], b.ports[j])

\* Whether the configuration has no errors.
validate(cfg) ==
    /\ Distinct(cfg.adapters, LAMBDA a : {a.id}) /\ Distinct(cfg.adapters, LAMBDA a : {a.mac})
    /\ Distinct(cfg.tncs, LAMBDA t : {t.id})
    /\ Distinct(cfg.tncs, LAMBDA t : t.spp) /\ Distinct(cfg.tncs, LAMBDA t : t.ble)
    /\ Distinct(cfg.tncs, LAMBDA t : t.serial)
    /\ Distinct(cfg.bridges, LAMBDA b : {b.id}) /\ Distinct(cfg.bridges, LAMBDA b : {b.name})
    /\ \A i \in DOMAIN cfg.bridges :
         /\ Distinct(cfg.bridges[i].ports, LAMBDA p : {p.id})
         /\ cfg.bridges[i].enabled => ~incomplete(cfg.bridges[i])
    /\ \A i, j \in DOMAIN cfg.bridges :
         i < j /\ cfg.bridges[i].enabled /\ cfg.bridges[j].enabled
           => ~BridgesConflict(cfg.bridges[i], cfg.bridges[j])

(***************************************************************************)
(* mod.rs                                                                  *)
(***************************************************************************)
\* Dynamic objects whose id, or name, a static one has are left out.
set_aside_collisions(statics, dynamic) ==
    LET Taken(kind, key(_)) == UNION {{key(f.file[kind][i]) : i \in DOMAIN f.file[kind]} : f \in Range(statics)}
        Clashes(kind, d) == \E f \in Range(statics) : \E i \in DOMAIN f.file[kind] : f.file[kind][i].id = d.id
    IN [dynamic EXCEPT
          !.adapter = SelectSeq(@, LAMBDA a : ~Clashes("adapter", a)),
          !.tnc = SelectSeq(@, LAMBDA t : ~Clashes("tnc", t)),
          !.bridge = SelectSeq(@, LAMBDA b : /\ b.id = {} \/ ~Clashes("bridge", b)
                                             /\ b.name \notin Taken("bridge", LAMBDA s : s.name))]

\* Overrides are for static bridges only.
apply_overrides(cfg, st) ==
    [cfg EXCEPT !.bridges = [i \in DOMAIN @ |->
        [@[i] EXCEPT !.enabled = IF cfg.bridges[i].source = "static" /\ cfg.bridges[i].id \in DOMAIN st
                                 THEN st[cfg.bridges[i].id] ELSE @]]]

\* The configuration in effect, or nothing when there is an error.
build(sources) ==
    LET parsed == UNION {parse_dynamic(d) : d \in sources.dynamic}
        kept == {set_aside_collisions(sources.statics, d) : d \in parsed}
        files == sources.statics \o [i \in 1..Cardinality(kept) |-> [source |-> "dynamic", file |-> CHOOSE d \in kept : TRUE]]
    IN IF sources.dynamic # {} /\ parsed = {} THEN {}
       ELSE {cfg \in {apply_overrides(c, sources.state) : c \in resolve(files)} : validate(cfg)}

read_state(disk) == IF disk.state.parses /\ "state" \notin disk.unreadable THEN disk.state.enabled ELSE <<>>

\* A static file that can't be used is an error; the others are left out.
read_sources(disk) ==
    {[statics |-> files,
      dynamic |-> IF "dynamic" \in disk.unreadable THEN {} ELSE disk.dynamic,
      state |-> read_state(disk)] : files \in load(disk.main, disk.conf_d)}
=============================================================================
