-------------------------------- MODULE Edit --------------------------------
(***************************************************************************)
(* control/edit.rs and config_put: what a command of the control API does  *)
(* to the text of dynamic.toml.  Each edit takes the text, the static      *)
(* files as last read and the request, and returns the set of its results: *)
(* none when it is refused.  The ids of ports are a stem and a number.     *)
(***************************************************************************)
EXTENDS Config

static_source(statics, kind, id) ==
    \E f \in Range(statics) : \E i \in DOMAIN f.file[kind] :
        IF kind = "bridge" THEN f.file[kind][i].id = {id} ELSE f.file[kind][i].id = id

\* Whether the object of `kind` at place i of the text has this id.
Named(doc, kind, i, id) == IF kind = "bridge" THEN doc.bridge[i].id = {id} ELSE doc[kind][i].id = id
index_of(doc, kind, id) ==
    LET at == {i \in DOMAIN doc[kind] : Named(doc, kind, i, id)}
    IN {i \in at : \A j \in at : i <= j}

\* What the text defines under a kind and an id: the revision of an object is the object.
Defined(doc, kind, id) == {doc[kind][i] : i \in index_of(doc, kind, id)}
contains(doc, kind, id) == index_of(doc, kind, id) # {}

\* The object that may be changed, or none.
editable(doc, statics, kind, id) == IF static_source(statics, kind, id) THEN {} ELSE index_of(doc, kind, id)
put(doc, kind, id, table) ==
    IF contains(doc, kind, id) THEN [doc EXCEPT ![kind] = [i \in DOMAIN @ |-> IF i \in index_of(doc, kind, id) THEN table ELSE @[i]]]
    ELSE [doc EXCEPT ![kind] = Append(@, table)]
remove(doc, kind, id) == [doc EXCEPT ![kind] = RemoveAt(@, CHOOSE i \in index_of(doc, kind, id) : TRUE)]

ids_of(doc, statics, kind) == UNION {{f[kind][i].id : i \in DOMAIN f[kind]} : f \in {s.file : s \in Range(statics)} \cup {doc}}
bridge_ids(doc, statics) == UNION ids_of(doc, statics, "bridge")

\* Ids are <<"ktbr", n>>.
next_bridge_id(doc, statics) ==
    LET free == {n \in 0..Cardinality(bridge_ids(doc, statics)) : <<"ktbr", n>> \notin bridge_ids(doc, statics)}
    IN <<"ktbr", CHOOSE n \in free : \A m \in free : n <= m>>

check_bridge_name(doc, statics, name, except) ==
    /\ \A f \in Range(statics) : \A i \in DOMAIN f.file.bridge : f.file.bridge[i].name # name
    /\ \A i \in DOMAIN doc.bridge : doc.bridge[i].name = name => doc.bridge[i].id = except /\ except # {}

(***************************************************************************)
(* Bridges                                                                 *)
(***************************************************************************)
\* The first port without an id is given its type and the lowest free number.
name_port(ports) ==
    LET bare == {i \in DOMAIN ports : ports[i].id = {}}
        i == CHOOSE i \in bare : \A j \in bare : i <= j
        taken == UNION {ports[j].id : j \in DOMAIN ports}
        free == {n \in 0..Len(ports) : <<ports[i].type, n>> \notin taken}
    IN [ports EXCEPT ![i].id = {<<ports[i].type, CHOOSE n \in free : \A m \in free : n <= m>>}]
name_ports(ports) == FoldSet(LAMBDA i, named : name_port(named), ports, {i \in DOMAIN ports : ports[i].id = {}})

\* The id of a new bridge: as asked for when it is free, or the next.
NewId(doc, statics, asked) == IF asked = {} THEN {next_bridge_id(doc, statics)} ELSE asked \ bridge_ids(doc, statics)

create_bridge(doc, statics, def) ==
    {put(doc, "bridge", id, [def EXCEPT !.id = {id}, !.enabled = IF @ = {} THEN {FALSE} ELSE @, !.port = name_ports(@)]) :
        id \in {x \in NewId(doc, statics, def.id) : def.name # "" /\ check_bridge_name(doc, statics, def.name, {})}}

update_bridge(doc, statics, id, def) ==
    {put(doc, "bridge", id, [def EXCEPT !.id = {id}, !.port = name_ports(@)]) :
        i \in {x \in editable(doc, statics, "bridge", id) : def.id \subseteq {id} /\ def.name # "" /\ check_bridge_name(doc, statics, def.name, {id})}}

delete_bridge(doc, statics, id) == {remove(doc, "bridge", id) : i \in editable(doc, statics, "bridge", id)}

\* A static bridge is copied from its file as it is now.
clone_bridge(doc, statics, now, from, asked, name) ==
    LET source == IF static_source(statics, "bridge", from)
                  THEN First(FlattenSeq([i \in DOMAIN now |-> now[i].bridge]), LAMBDA b : b.id = {from})
                  ELSE {doc.bridge[i] : i \in index_of(doc, "bridge", from)}
    IN {put(doc, "bridge", id, [t EXCEPT !.id = {id}, !.name = name, !.enabled = {FALSE}, !.public_name = {}, !.port = name_ports(@)]) :
          t \in source, id \in {x \in NewId(doc, statics, asked) : check_bridge_name(doc, statics, name, {})}}

(***************************************************************************)
(* Ports                                                                   *)
(***************************************************************************)
port_index(ports, id) ==
    LET at == {i \in DOMAIN ports : ports[i].id = {id}} IN {i \in at : \A j \in at : i <= j}

add_port(doc, statics, bridge, def) ==
    {[doc EXCEPT !.bridge[i].port = name_ports(Append(@, def))] :
        i \in {x \in editable(doc, statics, "bridge", bridge) : \A id \in def.id : port_index(doc.bridge[x].port, id) = {}}}

update_port(doc, statics, bridge, port, def) ==
    UNION {{[doc EXCEPT !.bridge[i].port[p] = [def EXCEPT !.id = {port}]] : p \in port_index(doc.bridge[i].port, port)} :
             i \in editable(doc, statics, "bridge", bridge)}

remove_port(doc, statics, bridge, port) ==
    UNION {{[doc EXCEPT !.bridge[i].port = RemoveAt(@, p)] : p \in port_index(doc.bridge[i].port, port)} :
             i \in editable(doc, statics, "bridge", bridge)}

(***************************************************************************)
(* TNCs and adapters                                                       *)
(***************************************************************************)
RefersTo(o, id) == o = {Id(id)}
\* The ports of the text that refer to this TNC or adapter, and the TNCs' sections.
PortRefers(p, kind, id) ==
    \/ kind = "tnc" /\ p.type \in DOMAIN Needs /\ p.tnc = id
    \/ kind = "adapter" /\ RefersTo(p.adapter, id)
TncRefers(t, kind, id) == kind = "adapter" /\ \E s \in t.spp \cup t.ble : RefersTo(s.adapter, id)
references(doc, kind, id) ==
    \/ \E i \in DOMAIN doc.bridge : \E j \in DOMAIN doc.bridge[i].port : PortRefers(doc.bridge[i].port[j], kind, id)
    \/ \E i \in DOMAIN doc.tnc : TncRefers(doc.tnc[i], kind, id)

set_reference(doc, kind, id, to) ==
    LET Moved(o) == IF RefersTo(o, id) /\ kind = "adapter" THEN {Id(to)} ELSE o
        Sections(ss) == {[s EXCEPT !.adapter = Moved(@)] : s \in ss}
        MovedPort(p) == [p EXCEPT !.adapter = Moved(@), !.tnc = IF PortRefers(p, "tnc", id) /\ kind = "tnc" THEN to ELSE @]
    IN [doc EXCEPT
          !.bridge = [i \in DOMAIN @ |-> [@[i] EXCEPT !.port = [j \in DOMAIN @ |-> MovedPort(@[j])]]],
          !.tnc = [i \in DOMAIN @ |-> [@[i] EXCEPT !.spp = Sections(@), !.ble = Sections(@)]]]
create_object(doc, statics, kind, def) == IF def.id \in ids_of(doc, statics, kind) THEN {} ELSE {put(doc, kind, def.id, def)}

\* A new id renames it, and the references in the text follow.
update_object(doc, statics, kind, id, def) ==
    {IF def.id = id THEN put(doc, kind, id, def)
     ELSE set_reference([doc EXCEPT ![kind][i] = def], kind, id, def.id) :
        i \in {x \in editable(doc, statics, kind, id) : def.id # id => def.id \notin ids_of(doc, statics, kind)}}

delete_object(doc, statics, kind, id) ==
    {remove(doc, kind, id) : i \in {x \in editable(doc, statics, kind, id) : ~references(doc, kind, id)}}
(***************************************************************************)
(* supervisor.rs: config.put, enable, disable and switch                   *)
(***************************************************************************)
\* Variant with a defect: the revision is not compared.
config_put_all_any(doc, got, text) == {text}

\* All of the text, if it is still the one that was got.
config_put_all(doc, got, text) == IF doc = got THEN {text} ELSE {}

\* One object: `got` and `table` are none, or the object as it was and will be.
config_put(doc, statics, kind, id, got, table) ==
    IF static_source(statics, kind, id) \/ Defined(doc, kind, id) # got THEN {}
    ELSE IF table = {} THEN {IF contains(doc, kind, id) THEN remove(doc, kind, id) ELSE doc}
    ELSE {put(doc, kind, id, t) : t \in {x \in table : Named([doc EXCEPT ![kind] = <<x>>], kind, 1, id)}}

\* An override for a static bridge; `enabled` in the text of a dynamic one.
set_enabled(doc, statics, overrides, id, enabled) ==
    IF static_source(statics, "bridge", id) THEN {[doc |-> doc, overrides |-> Append(overrides, [id |-> id, enabled |-> enabled])]}
    ELSE IF enabled = {} THEN {}
    ELSE {[doc |-> [doc EXCEPT !.bridge[i].enabled = enabled], overrides |-> overrides] : i \in index_of(doc, "bridge", id)}

\* The enabled bridges that couldn't run alongside this one.
conflicting(cfg, id) ==
    {b \in {cfg.bridges[i].id : i \in {j \in DOMAIN cfg.bridges : cfg.bridges[j].enabled}} \ {id} :
        ~validate([cfg EXCEPT !.bridges = [i \in DOMAIN @ |-> [@[i] EXCEPT !.enabled = cfg.bridges[i].id \in {id, b}]]])}
=============================================================================
