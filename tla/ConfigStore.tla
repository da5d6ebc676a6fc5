---------------------------- MODULE ConfigStore -----------------------------
(***************************************************************************)
(* The configuration on disk and in the daemon: store.rs (dynamic.toml),   *)
(* state.rs (state.toml), and the supervisor's reload, change and          *)
(* config_get.  Files are edited by hand, reads and writes fail, and the   *)
(* daemon is killed between two writes of one change.                      *)
(*                                                                         *)
(* A text is the record of its definitions, so a revision, its hash, is    *)
(* the text itself.  Applying a plan is the module Supervisor's: here it   *)
(* takes effect at once.                                                   *)
(***************************************************************************)
EXTENDS Edit

CONSTANTS
    Texts,                  \* what dynamic.toml may hold after a hand edit
    BridgeDefs, PortDefs, TncDefs, AdapterDefs,  \* what requests define
    BridgeIds, ObjectIds,   \* and what they name
    Bounds  \* the static files there may be, [main, conf_d], the commands that clients
            \* send, and how many of them, of edits and of faults there are

VARIABLES
    disk,    \* the files: main, conf_d, dynamic, state, and those that can't be read
    d,       \* the struct Daemon
    client,  \* what a client has from config.get
    used     \* how often the environment acted; puts: config.put; bound: one of Bounds

vars == <<disk, d, client, used>>

Nothing == [doc |-> NoFile, overrides |-> <<>>, cfg |-> {}]
NoGet == [kind |-> "none", id |-> "", all |-> NoFile, one |-> {}]

Spend(what) == used[what] < used.bound[what] /\ used' = [used EXCEPT ![what] = @ + 1]

(***************************************************************************)
(* state.toml                                                              *)
(***************************************************************************)
set_enabled_override(st, id, enabled) ==
    [b \in (DOMAIN st \ {id}) \cup {x \in {id} : enabled # {}} |-> IF b = id THEN unwrap_or(enabled, FALSE) ELSE st[b]]

Overridden(st, overrides) == FoldLeft(LAMBDA s, o : set_enabled_override(s, o.id, o.enabled), st, overrides)

(***************************************************************************)
(* Start, reload                                                           *)
(***************************************************************************)
\* The store over the text as read.
from_text(sources) == [doc |-> unwrap_or(sources.dynamic, NoFile), on_disk |-> sources.dynamic]

Loaded(sources, cfg) ==
    [d EXCEPT !.up = TRUE, !.sources = sources, !.cfg = cfg,
              !.doc = from_text(sources).doc, !.on_disk = from_text(sources).on_disk]

\* The daemon starts, once what is on disk is usable.  state.toml is read
\* for the overrides and again for the StateStore.
Start ==
    /\ ~d.up
    /\ \E sources \in read_sources(disk) : \E cfg \in build(sources) :
         d' = [Loaded(sources, cfg) EXCEPT !.state = read_state(disk), !.reply = "none", !.pc = "idle", !.todo = Nothing]
    /\ UNCHANGED <<disk, client, used>>

Idle == d.up /\ d.pc = "idle"
Command(c) ==
    /\ Idle /\ c \in used.bound.may /\ used.commands < used.bound.commands
    /\ used' = [used EXCEPT !.commands = @ + 1, !.puts = IF c = "config.put" THEN @ + 1 ELSE @]
    /\ client' = IF c = "config.put" THEN NoGet ELSE client
Reply(how) == [d EXCEPT !.reply = how]

\* Everything is read again, but for the StateStore.  It is refused if what is read is of no
\* use, and it may be for what it would disrupt.
Reload ==
    /\ Command("reload")
    /\ \/ \E sources \in read_sources(disk) : \E cfg \in build(sources) :
            d' = [Loaded(sources, cfg) EXCEPT !.reply = "ok"]
       \/ d' = Reply("refused")
    /\ UNCHANGED disk

(***************************************************************************)
(* A change: edit a copy, build, check, then save and apply                *)
(***************************************************************************)
unchanged_on_disk == "dynamic" \notin disk.unreadable /\ disk.dynamic = d.on_disk

Sources(doc, overrides) ==
    [d.sources EXCEPT !.dynamic = IF doc # NoFile \/ @ # {} THEN {doc} ELSE {},
                      !.state = Overridden(@, overrides)]

Refused == d' = Reply("refused") /\ UNCHANGED disk

\* Up to the writes.  It may also be refused for what it would disrupt.
Decided(doc, overrides, cfg) ==
    \/ /\ cfg # {}
       /\ doc # d.doc => unchanged_on_disk
       /\ d' = [d EXCEPT !.pc = IF doc = d.doc THEN "state" ELSE "write",
                         !.todo = [doc |-> doc, overrides |-> overrides, cfg |-> cfg]]
       /\ UNCHANGED disk
    \/ Refused

Change(doc, overrides) == Decided(doc, overrides, build(Sources(doc, overrides)))

\* dynamic.toml is replaced: the old text or the new one.
Save ==
    /\ d.up /\ d.pc = "write"
    /\ disk' = [disk EXCEPT !.dynamic = {d.todo.doc}]
    /\ d' = [d EXCEPT !.pc = "state"]
    /\ UNCHANGED <<client, used>>

SaveFails ==
    /\ d.up /\ d.pc = "write" /\ Spend("faults")
    /\ d' = [d EXCEPT !.pc = "idle", !.todo = Nothing, !.reply = "refused"]
    /\ UNCHANGED <<disk, client>>

\* The store as saved, the sources and the configuration take effect.
Applied ==
    [d EXCEPT !.pc = "idle", !.todo = Nothing, !.reply = "ok",
              !.sources = Sources(d.todo.doc, d.todo.overrides), !.cfg = CHOOSE c \in d.todo.cfg : TRUE,
              !.doc = d.todo.doc, !.on_disk = IF d.todo.doc = d.doc THEN @ ELSE {d.todo.doc},
              !.state = Overridden(@, d.todo.overrides)]

\* Variant with a defect: the overrides are kept but not written.
update_unwritten(next) == disk

\* state.toml is written when the overrides differ from those in memory.
update(next) == IF next = d.state THEN disk ELSE [disk EXCEPT !.state = [parses |-> TRUE, enabled |-> next]]

Apply ==
    /\ d.up /\ d.pc = "state"
    /\ disk' = update(Overridden(d.state, d.todo.overrides))
    /\ d' = Applied
    /\ UNCHANGED <<client, used>>

StateFails ==
    /\ d.up /\ d.pc = "state" /\ Overridden(d.state, d.todo.overrides) # d.state
    /\ Spend("faults")
    /\ d' = [d EXCEPT !.pc = "idle", !.todo = Nothing, !.reply = "refused"]
    /\ UNCHANGED <<disk, client>>

(***************************************************************************)
(* The commands                                                            *)
(***************************************************************************)
\* What an edit results in, or the refusal when it has no result.
Edited(results) == IF results = {} THEN Refused ELSE \E doc \in results : Change(doc, <<>>)

bridge_id(id) == \E i \in DOMAIN d.cfg.bridges : d.cfg.bridges[i].id = id
tnc_id(id) == \E i \in DOMAIN d.cfg.tncs : d.cfg.tncs[i].id = id

BridgeCreate == Command("bridge.create") /\ \E def \in BridgeDefs : Edited(create_bridge(d.doc, d.sources.statics, def))
BridgeUpdate ==
    Command("bridge.update") /\ \E def \in BridgeDefs : \E id \in BridgeIds :
        bridge_id(id) /\ Edited(update_bridge(d.doc, d.sources.statics, id, def))
BridgeDelete ==
    Command("bridge.delete") /\ \E id \in BridgeIds : bridge_id(id) /\ Edited(delete_bridge(d.doc, d.sources.statics, id))
BridgeClone ==
    Command("bridge.clone") /\ \E id \in BridgeIds :
        bridge_id(id) /\ Edited(clone_bridge(d.doc, d.sources.statics, <<disk.main>> \o disk.conf_d, id, {}, "clone"))

\* Enable, disable and reset; several at once for a switch.
Enable(ids, enabled) ==
    LET set(id, rs) == UNION {set_enabled(r.doc, d.sources.statics, r.overrides, id, enabled[id]) : r \in rs}
        results == FoldSet(set, {[doc |-> d.doc, overrides |-> <<>>]}, ids)
    IN IF results = {} THEN Refused ELSE \E r \in results : Change(r.doc, r.overrides)
BridgeEnable ==
    Command("bridge.enable") /\ \E id \in BridgeIds : \E e \in {{}, {TRUE}, {FALSE}} :
        bridge_id(id) /\ Enable({id}, [b \in {id} |-> e])
BridgeSwitch ==
    Command("bridge.switch") /\ \E id \in BridgeIds :
        bridge_id(id) /\ LET ids == conflicting(d.cfg, id) \cup {id} IN Enable(ids, [b \in ids |-> {b = id}])

PortAdd ==
    Command("port.add") /\ \E id \in BridgeIds : \E def \in PortDefs :
        bridge_id(id) /\ Edited(add_port(d.doc, d.sources.statics, id, def))
Ports == UNION {UNION {p.id : p \in Range(b.port)} : b \in Range(d.doc.bridge)}
PortUpdate ==
    Command("port.update") /\ \E id \in BridgeIds : \E def \in PortDefs : \E port \in Ports :
        bridge_id(id) /\ Edited(update_port(d.doc, d.sources.statics, id, port, def))
PortRemove ==
    Command("port.remove") /\ \E id \in BridgeIds : \E port \in Ports :
        bridge_id(id) /\ Edited(remove_port(d.doc, d.sources.statics, id, port))

ObjectDefs(kind) == IF kind = "tnc" THEN TncDefs ELSE AdapterDefs
Known(kind, id) == kind = "tnc" => tnc_id(id)
ObjectCreate ==
    Command("object.create") /\ \E kind \in {"tnc", "adapter"} : \E def \in ObjectDefs(kind) :
        Edited(create_object(d.doc, d.sources.statics, kind, def))
ObjectUpdate ==
    Command("object.update") /\ \E kind \in {"tnc", "adapter"} : \E def \in ObjectDefs(kind) : \E id \in ObjectIds :
        Known(kind, id) /\ Edited(update_object(d.doc, d.sources.statics, kind, id, def))
ObjectDelete ==
    Command("object.delete") /\ \E kind \in {"tnc", "adapter"} : \E id \in ObjectIds :
        Known(kind, id) /\ Edited(delete_object(d.doc, d.sources.statics, kind, id))

\* A client gets all of the text, or one object; then it puts back an edit.
config_get(kind, id) ==
    IF kind = "all" THEN {[NoGet EXCEPT !.kind = kind, !.all = d.doc]}
    ELSE {[NoGet EXCEPT !.kind = kind, !.id = id, !.one = {d.doc[kind][i]}] :
            i \in editable(d.doc, d.sources.statics, kind, id)}
ConfigGet ==
    /\ Idle /\ "config.put" \in used.bound.may /\ client = NoGet
    /\ \E kind \in {"all", "tnc"} : \E id \in ObjectIds : client' \in config_get(kind, id)
    /\ UNCHANGED <<disk, d, used>>
ConfigPut ==
    Command("config.put") /\ client # NoGet
    /\ IF client.kind = "all" THEN \E text \in Texts : Edited(config_put_all(d.doc, client.all, text))
       ELSE \E table \in {{}} \cup {{t} : t \in TncDefs} :
              Edited(config_put(d.doc, d.sources.statics, client.kind, client.id, client.one, table))

(***************************************************************************)
(* The files' other users                                                  *)
(***************************************************************************)
EditStatic ==
    /\ d.pc = "idle" /\ Spend("edits")
    /\ \E s \in used.bound.statics : disk' = [disk EXCEPT !.main = s.main, !.conf_d = s.conf_d] /\ disk' # disk
    /\ UNCHANGED <<d, client>>
EditDynamic ==
    /\ Spend("edits")
    /\ \E t \in Texts : disk' = [disk EXCEPT !.dynamic = {t}] /\ disk' # disk
    /\ UNCHANGED <<d, client>>
EditState ==
    /\ d.pc = "idle" /\ Spend("stateEdits")
    /\ \E id \in BridgeIds : \E e \in {{}, {TRUE}, {FALSE}} :
         disk' = [disk EXCEPT !.state = [parses |-> TRUE, enabled |-> set_enabled_override(read_state(disk), id, e)]] /\ disk' # disk
    /\ UNCHANGED <<d, client>>
Unreadable ==
    /\ Spend("unreadable")
    /\ disk' = [disk EXCEPT !.unreadable = IF @ = {} THEN {"dynamic"} ELSE {}]
    /\ UNCHANGED <<d, client>>
Kill ==
    /\ d.up /\ Spend("kills")
    /\ d' = [d EXCEPT !.up = FALSE, !.pc = "idle", !.todo = Nothing, !.reply = "none"]
    /\ UNCHANGED <<disk, client>>

Init ==
    /\ \E b \in Bounds : \E s \in b.statics :
         /\ disk = [main |-> s.main, conf_d |-> s.conf_d, dynamic |-> {},
                    state |-> [parses |-> TRUE, enabled |-> <<>>], unreadable |-> {}]
         /\ used = [commands |-> 0, puts |-> 0, edits |-> 0, stateEdits |-> 0, kills |-> 0, faults |-> 0,
                    unreadable |-> 0, bound |-> b]
    /\ d = [up |-> FALSE, pc |-> "idle", todo |-> Nothing, reply |-> "none", cfg |-> [adapters |-> <<>>, tncs |-> <<>>, bridges |-> <<>>],
            sources |-> [statics |-> <<>>, dynamic |-> {}, state |-> <<>>], doc |-> NoFile, on_disk |-> {}, state |-> <<>>]
    /\ client = NoGet

Next ==
    \/ Start \/ Reload \/ Save \/ SaveFails \/ Apply \/ StateFails
    \/ BridgeCreate \/ BridgeUpdate \/ BridgeDelete \/ BridgeClone \/ BridgeEnable \/ BridgeSwitch
    \/ PortAdd \/ PortUpdate \/ PortRemove
    \/ ObjectCreate \/ ObjectUpdate \/ ObjectDelete \/ ConfigGet \/ ConfigPut
    \/ EditStatic \/ EditDynamic \/ EditState \/ Unreadable \/ Kill

Spec == Init /\ [][Next]_vars

(***************************************************************************)
(* Properties                                                              *)
(***************************************************************************)
\* Whether the files are as the daemon read or wrote them.
InStep ==
    /\ Idle /\ disk.unreadable = {} /\ disk.dynamic = d.on_disk
    /\ load(disk.main, disk.conf_d) = {d.sources.statics}

\* A daemon that is killed and started again, or told to reload, comes up
\* with the configuration that is in effect: `change` applies only what it
\* has written to dynamic.toml and state.toml, and all of it, as long as
\* nobody edits state.toml, which the daemon doesn't look at again.
RestartKeeps == InStep /\ used.stateEdits = 0 => build(CHOOSE s \in read_sources(disk) : TRUE) = {d.cfg}

\* No update is lost by config.put: when it goes ahead, dynamic.toml still holds what the client
\* got and has edited, all of the text or the one object, whatever other commands, edits by
\* hand, reloads and restarts there were meanwhile ("if the revision is still current").
PutReplacesWhatWasGot ==
    [][client # NoGet /\ client' = NoGet /\ d'.pc = "write" =>
         LET text == unwrap_or(disk.dynamic, NoFile)
         IN  IF client.kind = "all" THEN text = client.all ELSE Defined(text, client.kind, client.id) = client.one]_vars

=============================================================================
