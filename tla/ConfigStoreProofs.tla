-------------------------- MODULE ConfigStoreProofs --------------------------
(***************************************************************************)
(* What the configuration store keeps, whatever the files hold, whichever  *)
(* edits are asked for, and however they are resolved and validated: the   *)
(* proofs leave build and the edits of control/edit.rs unopened.           *)
(***************************************************************************)
EXTENDS ConfigStore, TLAPS

\* The fields of the records.
Shape ==
  /\ d = [up |-> d.up, pc |-> d.pc, todo |-> d.todo, reply |-> d.reply, cfg |-> d.cfg, sources |-> d.sources,
          doc |-> d.doc, on_disk |-> d.on_disk, state |-> d.state]
  /\ disk = [main |-> disk.main, conf_d |-> disk.conf_d, dynamic |-> disk.dynamic, state |-> disk.state,
             unreadable |-> disk.unreadable]
  /\ used = [commands |-> used.commands, puts |-> used.puts, edits |-> used.edits, stateEdits |-> used.stateEdits,
             kills |-> used.kills, faults |-> used.faults, unreadable |-> used.unreadable, bound |-> used.bound]

\* A command that changes the configuration: what it edits is of no account here.
Asked == \E c : Command(c)
Edits == \/ BridgeCreate \/ BridgeUpdate \/ BridgeDelete \/ BridgeClone \/ BridgeEnable \/ BridgeSwitch
         \/ PortAdd \/ PortUpdate \/ PortRemove \/ ObjectCreate \/ ObjectUpdate \/ ObjectDelete \/ ConfigPut

\* Every edit comes down to a change, or is refused.
LEMMA EditIsChange == Edits => Asked /\ (Refused \/ \E doc, overrides : Change(doc, overrides))
<1>1. ASSUME NEW results, Edited(results) PROVE Refused \/ \E doc, overrides : Change(doc, overrides)
  BY <1>1 DEF Edited
<1>2. ASSUME NEW ids, NEW enabled, Enable(ids, enabled)
      PROVE  Refused \/ \E doc, overrides : Change(doc, overrides)
  BY <1>2 DEF Enable
<1>3. CASE BridgeCreate BY <1>1, <1>3 DEF BridgeCreate, Asked
<1>4. CASE BridgeUpdate BY <1>1, <1>4 DEF BridgeUpdate, Asked
<1>5. CASE BridgeDelete BY <1>1, <1>5 DEF BridgeDelete, Asked
<1>6. CASE BridgeClone BY <1>1, <1>6 DEF BridgeClone, Asked
<1>7. CASE BridgeEnable BY <1>2, <1>7 DEF BridgeEnable, Asked
<1>8. CASE BridgeSwitch BY <1>2, <1>8 DEF BridgeSwitch, Asked
<1>9. CASE PortAdd BY <1>1, <1>9 DEF PortAdd, Asked
<1>10. CASE PortUpdate BY <1>1, <1>10 DEF PortUpdate, Asked
<1>11. CASE PortRemove BY <1>1, <1>11 DEF PortRemove, Asked
<1>12. CASE ObjectCreate BY <1>1, <1>12 DEF ObjectCreate, Asked
<1>13. CASE ObjectUpdate BY <1>1, <1>13 DEF ObjectUpdate, Asked
<1>14. CASE ObjectDelete BY <1>1, <1>14 DEF ObjectDelete, Asked
<1>15. CASE ConfigPut BY <1>1, <1>15 DEF ConfigPut, Asked
<1>16. QED BY <1>3, <1>4, <1>5, <1>6, <1>7, <1>8, <1>9, <1>10, <1>11, <1>12, <1>13, <1>14, <1>15 DEF Edits

\* A build has one result at most.
LEMMA BuildOne == ASSUME NEW s, NEW c \in build(s) PROVE build(s) = {c}
<1>1. ASSUME NEW adapters, NEW tncs, NEW bridges, NEW x \in Resolved(adapters, tncs, bridges)
      PROVE  Resolved(adapters, tncs, bridges) = {x}
  BY DEF Resolved
<1>2. ASSUME NEW files, NEW x \in resolve(files) PROVE resolve(files) = {x}
  <2>1. ASSUME NEW adapters, NEW global, NEW y \in resolve_with(files, adapters, global)
        PROVE  resolve_with(files, adapters, global) = {y}
    BY <1>1 DEF resolve_with
  <2>2. QED BY <2>1 DEF resolve
<1>3. QED BY <1>2 DEF build

-----------------------------------------------------------------------------
LEMMA UnwrapOne == ASSUME NEW t, NEW x PROVE unwrap_or({t}, x) = t
BY DEF unwrap_or

LEMMA UnwrapNone == ASSUME NEW x PROVE unwrap_or({}, x) = x
BY DEF unwrap_or

\* The store's text is the one that the daemon read or wrote last.
StoreInv == Shape /\ d.doc = unwrap_or(d.on_disk, NoFile)

LEMMA InitStore == Init => StoreInv
BY UnwrapNone DEF Init, StoreInv, Shape

LEMMA LoadedStore ==
  ASSUME Shape, NEW sources, NEW cfg, NEW e, e = Loaded(sources, cfg)
  PROVE  /\ e.doc = unwrap_or(e.on_disk, NoFile)
         /\ e = [up |-> e.up, pc |-> e.pc, todo |-> e.todo, reply |-> e.reply, cfg |-> e.cfg, sources |-> e.sources,
                 doc |-> e.doc, on_disk |-> e.on_disk, state |-> e.state]
<1>1. e.on_disk = sources.dynamic /\ e.doc = unwrap_or(sources.dynamic, NoFile) BY DEF Loaded, from_text, Shape
<1>2. QED BY <1>1 DEF Loaded, Shape

\* A change touches neither until it has been written.
LEMMA ChangeStore == ASSUME StoreInv, Asked, Refused \/ \E doc, overrides : Change(doc, overrides)
                     PROVE  StoreInv'
<1>1. PICK c : Command(c) BY DEF Asked
<1>2. used' = [used EXCEPT !.commands = @ + 1, !.puts = IF c = "config.put" THEN @ + 1 ELSE @] BY <1>1 DEF Command
<1>3. disk' = disk BY DEF Refused, Change, Decided
<1>4. CASE Refused BY <1>2, <1>3, <1>4 DEF Refused, Reply, StoreInv, Shape
<1>5. ASSUME NEW doc, NEW overrides, Change(doc, overrides), ~Refused PROVE StoreInv'
  <2>1. PICK todo : d' = [d EXCEPT !.pc = IF doc = d.doc THEN "state" ELSE "write", !.todo = todo]
    BY <1>5 DEF Change, Decided
  <2>2. QED BY <1>2, <1>3, <2>1 DEF StoreInv, Shape
<1>6. QED BY <1>4, <1>5

LEMMA NextStore == StoreInv /\ [Next]_vars => StoreInv'
<1>. SUFFICES ASSUME StoreInv, [Next]_vars PROVE StoreInv' OBVIOUS
<1>1. CASE Start
  <2>0. PICK s, cfg : d' = [Loaded(s, cfg) EXCEPT !.state = read_state(disk), !.reply = "none", !.pc = "idle", !.todo = Nothing]
    BY <1>1 DEF Start
  <2>1. PICK e, st : e = Loaded(s, cfg) /\ d' = [e EXCEPT !.state = st, !.reply = "none", !.pc = "idle", !.todo = Nothing]
    BY <2>0
  <2>2. disk' = disk /\ used' = used BY <1>1 DEF Start
  <2>3. /\ e.doc = unwrap_or(e.on_disk, NoFile)
        /\ e = [up |-> e.up, pc |-> e.pc, todo |-> e.todo, reply |-> e.reply, cfg |-> e.cfg, sources |-> e.sources,
                doc |-> e.doc, on_disk |-> e.on_disk, state |-> e.state]
    BY <2>1, LoadedStore DEF StoreInv
  <2>4. QED BY <2>1, <2>2, <2>3 DEF StoreInv, Shape
<1>2. CASE Reload
  <2>1. d' = Reply("refused") \/ \E s, cfg, e : e = Loaded(s, cfg) /\ d' = [e EXCEPT !.reply = "ok"]
    BY <1>2 DEF Reload
  <2>2. disk' = disk /\ \E n, m : used' = [used EXCEPT !.commands = n, !.puts = m] BY <1>2 DEF Reload, Command
  <2>3. CASE d' = Reply("refused") BY <2>2, <2>3 DEF Reply, StoreInv, Shape
  <2>4. ASSUME NEW s, NEW cfg, NEW e, e = Loaded(s, cfg), d' = [e EXCEPT !.reply = "ok"] PROVE StoreInv'
    <3>1. /\ e.doc = unwrap_or(e.on_disk, NoFile)
          /\ e = [up |-> e.up, pc |-> e.pc, todo |-> e.todo, reply |-> e.reply, cfg |-> e.cfg, sources |-> e.sources,
                  doc |-> e.doc, on_disk |-> e.on_disk, state |-> e.state]
      BY <2>4, LoadedStore DEF StoreInv
    <3>2. QED BY <2>2, <2>4, <3>1 DEF StoreInv, Shape
  <2>5. QED BY <2>1, <2>3, <2>4
<1>3. CASE Save BY <1>3 DEF Save, StoreInv, Shape
<1>4. CASE SaveFails BY <1>4 DEF SaveFails, Spend, StoreInv, Shape
<1>5. CASE Apply
  <2>1. \E x : disk' = disk \/ disk' = [disk EXCEPT !.state = x] BY <1>5 DEF Apply, update
  <2>2. CASE d.todo.doc = d.doc BY <1>5, <2>1, <2>2 DEF Apply, Applied, StoreInv, Shape
  <2>3. CASE d.todo.doc # d.doc BY <1>5, <2>1, <2>3, UnwrapOne DEF Apply, Applied, StoreInv, Shape
  <2>4. QED BY <2>2, <2>3
<1>6. CASE StateFails BY <1>6 DEF StateFails, Spend, StoreInv, Shape
<1>7. CASE Edits BY <1>7, EditIsChange, ChangeStore
<1>8. CASE ConfigGet BY <1>8 DEF ConfigGet, StoreInv, Shape
<1>9. CASE EditStatic BY <1>9 DEF EditStatic, Spend, StoreInv, Shape
<1>10. CASE EditDynamic BY <1>10 DEF EditDynamic, Spend, StoreInv, Shape
<1>11. CASE EditState BY <1>11 DEF EditState, Spend, StoreInv, Shape
<1>12. CASE Unreadable BY <1>12 DEF Unreadable, Spend, StoreInv, Shape
<1>13. CASE Kill BY <1>13 DEF Kill, Spend, StoreInv, Shape
<1>14. CASE UNCHANGED vars BY <1>14 DEF vars, StoreInv, Shape
<1>15. QED BY <1>1, <1>2, <1>3, <1>4, <1>5, <1>6, <1>7, <1>8, <1>9, <1>10, <1>11, <1>12, <1>13, <1>14 DEF Next, Edits

\* What a client has got is given up by config.put alone, and one that goes ahead has been edited
\* from the text that the store has.
LEMMA PutFromGot ==
  ASSUME StoreInv, Next, client # NoGet, client' = NoGet, d'.pc = "write"
  PROVE  /\ disk.dynamic = d.on_disk
         /\ IF client.kind = "all" THEN d.doc = client.all ELSE Defined(d.doc, client.kind, client.id) = client.one
<1>1. ASSUME NEW c, Command(c) PROVE c = "config.put" /\ d.pc = "idle" BY <1>1 DEF Command, Idle
<1>2. ConfigPut
  <2>1. ~Command("reload") /\ ~Command("bridge.create") /\ ~Command("bridge.update") /\ ~Command("bridge.delete")
        /\ ~Command("bridge.clone") /\ ~Command("bridge.enable") /\ ~Command("bridge.switch") /\ ~Command("port.add")
        /\ ~Command("port.update") /\ ~Command("port.remove") /\ ~Command("object.create")
        /\ ~Command("object.update") /\ ~Command("object.delete")
    BY <1>1
  <2>2. ~Reload /\ ~BridgeCreate /\ ~BridgeUpdate /\ ~BridgeDelete /\ ~BridgeClone /\ ~BridgeEnable /\ ~BridgeSwitch
        /\ ~PortAdd /\ ~PortUpdate /\ ~PortRemove /\ ~ObjectCreate /\ ~ObjectUpdate /\ ~ObjectDelete
    BY <2>1 DEF Reload, BridgeCreate, BridgeUpdate, BridgeDelete, BridgeClone, BridgeEnable, BridgeSwitch,
       PortAdd, PortUpdate, PortRemove, ObjectCreate, ObjectUpdate, ObjectDelete
  <2>3. client' # client OBVIOUS
  <2>4. ~Start /\ ~Save /\ ~SaveFails /\ ~Apply /\ ~StateFails
    BY <2>3 DEF Start, Save, SaveFails, Apply, StateFails
  <2>5. ~ConfigGet BY DEF ConfigGet
  <2>6. ~EditStatic /\ ~EditDynamic /\ ~EditState /\ ~Unreadable /\ ~Kill
    BY <2>3 DEF EditStatic, EditDynamic, EditState, Unreadable, Kill
  <2>7. QED BY <2>2, <2>4, <2>5, <2>6 DEF Next
<1>3. ASSUME NEW results, Edited(results)
      PROVE  results # {} /\ disk.dynamic = d.on_disk
  <2>1. d.pc = "idle" BY <1>1, <1>2 DEF ConfigPut
  <2>2. ~Refused BY <2>1 DEF Refused, Reply, StoreInv, Shape
  <2>3. PICK doc \in results : Change(doc, <<>>) BY <1>3, <2>2 DEF Edited
  <2>4. PICK todo : d' = [d EXCEPT !.pc = IF doc = d.doc THEN "state" ELSE "write", !.todo = todo]
    BY <2>2, <2>3 DEF Change, Decided
  <2>5. doc # d.doc BY <2>4 DEF StoreInv, Shape
  <2>6. QED BY <2>2, <2>3, <2>5 DEF Change, Decided, unchanged_on_disk
<1>4. CASE client.kind = "all"
  <2>1. PICK text \in Texts : Edited(config_put_all(d.doc, client.all, text)) BY <1>2, <1>4 DEF ConfigPut
  <2>2. QED BY <1>3, <1>4, <2>1 DEF config_put_all
<1>5. CASE client.kind # "all"
  <2>1. PICK table : Edited(config_put(d.doc, d.sources.statics, client.kind, client.id, client.one, table))
    BY <1>2, <1>5 DEF ConfigPut
  <2>2. QED BY <1>3, <1>5, <2>1 DEF config_put
<1>6. QED BY <1>4, <1>5

\* No update is lost by config.put: when one goes ahead, dynamic.toml holds what its client got,
\* for every set of files, edits by hand, commands, faults and restarts.
THEOREM PutsSafe == Spec => PutReplacesWhatWasGot
<1>1. StoreInv /\ [Next]_vars =>
        [client # NoGet /\ client' = NoGet /\ d'.pc = "write" =>
           LET text == unwrap_or(disk.dynamic, NoFile)
           IN  IF client.kind = "all" THEN text = client.all ELSE Defined(text, client.kind, client.id) = client.one]_vars
  BY PutFromGot DEF StoreInv
<1>2. QED BY <1>1, InitStore, NextStore, PTL DEF Spec, PutReplacesWhatWasGot

-----------------------------------------------------------------------------
\* What is in effect is what the sources build, the sources are the files as the daemon read
\* or wrote them, and a change under way has been built from them.
DiskOK ==
  /\ disk.dynamic = {} \/ \E t : disk.dynamic = {t}
  /\ disk.state.parses
  /\ disk.unreadable \subseteq {"dynamic"}
  /\ used.stateEdits \in Nat
InEffect ==
  /\ d.sources = [statics |-> d.sources.statics, dynamic |-> d.sources.dynamic, state |-> d.sources.state]
  /\ build(d.sources) = {d.cfg}
  /\ d.on_disk = d.sources.dynamic
  /\ (d.on_disk = {} /\ d.doc = NoFile) \/ d.on_disk = {d.doc}
UnderWay == d.pc # "idle" => d.todo.cfg # {} /\ d.todo.cfg = build(Sources(d.todo.doc, d.todo.overrides))
StateKept == used.stateEdits = 0 => d.state = disk.state.enabled /\ d.sources.state = d.state
KeptInv == Shape /\ DiskOK /\ (d.up => InEffect /\ UnderWay /\ StateKept)

LEMMA InitKept == Init => KeptInv
<1>. SUFFICES ASSUME Init PROVE KeptInv OBVIOUS
<1>1. DiskOK BY DEF Init, DiskOK
<1>2. ~d.up BY DEF Init
<1>3. QED BY <1>1, <1>2, InitStore DEF KeptInv, StoreInv

\* What is read is as it was on disk.
LEMMA ReadSources ==
  ASSUME Shape, DiskOK, NEW s \in read_sources(disk), NEW cfg
  PROVE  /\ s = [statics |-> s.statics, dynamic |-> s.dynamic, state |-> s.state]
         /\ s.dynamic = {} \/ \E t : s.dynamic = {t}
         /\ s.state = disk.state.enabled
         /\ read_state(disk) = disk.state.enabled
<1>1. read_state(disk) = disk.state.enabled BY DEF read_state, DiskOK
<1>2. PICK files \in load(disk.main, disk.conf_d) :
        s = [statics |-> files, dynamic |-> IF "dynamic" \in disk.unreadable THEN {} ELSE disk.dynamic,
             state |-> read_state(disk)]
  BY DEF read_sources
<1>3. QED BY <1>1, <1>2 DEF DiskOK

\* A daemon that has read its sources has them in effect.
LEMMA LoadedInEffect ==
  ASSUME Shape, DiskOK, NEW s \in read_sources(disk), NEW cfg \in build(s), NEW e,
         e = Loaded(s, cfg)
  PROVE  /\ e.up /\ e.pc = d.pc /\ e.sources = s /\ e.cfg = cfg /\ e.state = d.state
         /\ build(s) = {cfg} /\ e.on_disk = s.dynamic
         /\ (e.on_disk = {} /\ e.doc = NoFile) \/ e.on_disk = {e.doc}
         /\ e = [up |-> e.up, pc |-> e.pc, todo |-> e.todo, reply |-> e.reply, cfg |-> e.cfg, sources |-> e.sources,
                  doc |-> e.doc, on_disk |-> e.on_disk, state |-> e.state]
<1>1. build(s) = {cfg} BY BuildOne
<1>2. s.dynamic = {} \/ \E t : s.dynamic = {t} BY ReadSources
<1>3. e.on_disk = s.dynamic /\ e.doc = unwrap_or(s.dynamic, NoFile) BY DEF Loaded, from_text, Shape
<1>4. (e.on_disk = {} /\ e.doc = NoFile) \/ e.on_disk = {e.doc} 
  <2>1. CASE s.dynamic = {} BY <1>3, <2>1, UnwrapNone
  <2>2. ASSUME NEW t, s.dynamic = {t} PROVE e.on_disk = {e.doc} BY <1>3, <2>2, UnwrapOne
  <2>3. QED BY <1>2, <2>1, <2>2
<1>5. QED BY <1>1, <1>3, <1>4 DEF Loaded, Shape

\* A change that has been checked is built from what is in effect.
LEMMA ChangeKept == ASSUME KeptInv, Asked, Refused \/ \E doc, overrides : Change(doc, overrides)
                    PROVE  KeptInv'
<1>1. PICK c : Command(c) BY DEF Asked
<1>2. d.up /\ d.pc = "idle" BY <1>1 DEF Command, Idle
<1>3. disk' = disk BY DEF Refused, Change, Decided
<1>4. used' = [used EXCEPT !.commands = @ + 1, !.puts = IF c = "config.put" THEN @ + 1 ELSE @] BY <1>1 DEF Command
<1>5. DiskOK' BY <1>3, <1>4 DEF KeptInv, DiskOK, Shape
<1>6. used'.stateEdits = used.stateEdits BY <1>4 DEF KeptInv, Shape
<1>7. CASE Refused
  <2>1. d' = [d EXCEPT !.reply = "refused"] BY <1>7 DEF Refused, Reply
  <2>2. Shape' BY <1>3, <1>4, <2>1 DEF KeptInv, Shape
  <2>3. d'.sources = d.sources /\ d'.cfg = d.cfg /\ d'.on_disk = d.on_disk /\ d'.doc = d.doc /\ d'.state = d.state
        /\ d'.pc = "idle"
    BY <1>2, <2>1 DEF KeptInv, Shape
  <2>4. InEffect' /\ UnderWay' /\ StateKept'
    BY <1>2, <1>3, <1>6, <2>3 DEF KeptInv, InEffect, UnderWay, StateKept
  <2>5. QED BY <1>5, <2>2, <2>4 DEF KeptInv
<1>8. ASSUME NEW doc, NEW overrides, Change(doc, overrides), ~Refused PROVE KeptInv'
  <2>. DEFINE built == build(Sources(doc, overrides))
  <2>1. built # {} /\ d' = [d EXCEPT !.pc = IF doc = d.doc THEN "state" ELSE "write",
                                     !.todo = [doc |-> doc, overrides |-> overrides, cfg |-> built]]
    BY <1>8 DEF Change, Decided
  <2>. HIDE DEF built
  <2>2. Shape' BY <1>3, <1>4, <2>1 DEF KeptInv, Shape
  <2>3. d'.sources = d.sources /\ d'.cfg = d.cfg /\ d'.on_disk = d.on_disk /\ d'.doc = d.doc /\ d'.state = d.state
        /\ d'.todo = [doc |-> doc, overrides |-> overrides, cfg |-> built]
    BY <2>1 DEF KeptInv, Shape
  <2>4. InEffect' /\ StateKept' BY <1>2, <1>3, <1>6, <2>3 DEF KeptInv, InEffect, StateKept
  <2>5. UnderWay'
    <3>1. d'.todo.doc = doc /\ d'.todo.overrides = overrides /\ d'.todo.cfg = built BY <2>3
    <3>2. Sources(d.todo.doc, d.todo.overrides)' = Sources(doc, overrides) BY <2>3, <3>1 DEF Sources
    <3>3. QED BY <2>1, <3>1, <3>2 DEF UnderWay, built
  <2>6. QED BY <1>5, <2>2, <2>4, <2>5 DEF KeptInv
<1>9. QED BY <1>7, <1>8

\* The change takes effect as it was built and as it is written.
LEMMA ApplyKept == ASSUME KeptInv, Apply PROVE KeptInv'
<1>. DEFINE doc == d.todo.doc
            ov == d.todo.overrides
            s == Sources(doc, ov)
            next == Overridden(d.state, ov)
<1>1. d.up /\ InEffect /\ UnderWay /\ StateKept /\ d.todo.cfg # {} /\ d.todo.cfg = build(s)
  BY DEF Apply, KeptInv, UnderWay
<1>2. disk' = IF next = d.state THEN disk ELSE [disk EXCEPT !.state = [parses |-> TRUE, enabled |-> next]]
  BY DEF Apply, update
<1>3. d' = [d EXCEPT !.pc = "idle", !.todo = Nothing, !.reply = "ok", !.sources = s,
                     !.cfg = CHOOSE c \in d.todo.cfg : TRUE, !.doc = doc,
                     !.on_disk = IF doc = d.doc THEN @ ELSE {doc}, !.state = Overridden(@, ov)]
  BY DEF Apply, Applied
<1>4. s = [statics |-> d.sources.statics, dynamic |-> IF doc # NoFile \/ d.sources.dynamic # {} THEN {doc} ELSE {},
           state |-> Overridden(d.sources.state, ov)]
  <2>1. ASSUME NEW r, r = [statics |-> r.statics, dynamic |-> r.dynamic, state |-> r.state], NEW x, NEW y,
               NEW e, e = [r EXCEPT !.dynamic = x, !.state = y]
        PROVE  e = [statics |-> r.statics, dynamic |-> x, state |-> y]
    <3>1. e = [statics |-> e.statics, dynamic |-> e.dynamic, state |-> e.state] BY <2>1
    <3>2. e.statics = r.statics /\ e.dynamic = x /\ e.state = y BY <2>1
    <3>3. QED BY <3>1, <3>2
  <2>2. s = [d.sources EXCEPT !.dynamic = IF doc # NoFile \/ d.sources.dynamic # {} THEN {doc} ELSE {},
                              !.state = Overridden(d.sources.state, ov)]
    BY <1>1 DEF InEffect, Sources
  <2>3. QED BY <1>1, <2>1, <2>2 DEF InEffect
<1>. HIDE DEF doc, ov, s, next
<1>5. used' = used BY DEF Apply
<1>6. DiskOK' BY <1>2, <1>5 DEF KeptInv, DiskOK, Shape
<1>7. Shape' BY <1>2, <1>3, <1>5 DEF KeptInv, Shape
<1>8. /\ d'.up /\ d'.pc = "idle" /\ d'.sources = s /\ d'.doc = doc /\ d'.state = next
      /\ d'.cfg = (CHOOSE c \in d.todo.cfg : TRUE)
      /\ d'.on_disk = IF doc = d.doc THEN d.on_disk ELSE {doc}
  BY <1>1, <1>3 DEF KeptInv, Shape, next
<1>9. d'.cfg \in build(s) BY <1>1, <1>8
<1>10. build(s) = {d'.cfg} BY <1>9, BuildOne
<1>11. d'.on_disk = s.dynamic /\ ((d'.on_disk = {} /\ doc = NoFile) \/ d'.on_disk = {doc})
  BY <1>1, <1>4, <1>8 DEF InEffect
<1>12. InEffect' BY <1>4, <1>8, <1>10, <1>11 DEF InEffect
<1>13. disk'.state.enabled = IF next = d.state THEN disk.state.enabled ELSE next BY <1>2 DEF KeptInv, Shape
<1>14. StateKept' BY <1>1, <1>4, <1>5, <1>8, <1>13 DEF StateKept, next
<1>15. QED BY <1>6, <1>7, <1>8, <1>12, <1>14 DEF KeptInv, UnderWay

\* A step that leaves what is in effect alone, and the files but for the text of dynamic.toml.
Rests ==
  /\ d'.up = d.up /\ d'.cfg = d.cfg /\ d'.sources = d.sources /\ d'.doc = d.doc /\ d'.on_disk = d.on_disk /\ d'.state = d.state
  /\ d'.pc = "idle" \/ (d'.pc # "idle" /\ d.pc # "idle" /\ d'.todo = d.todo)
  /\ disk'.state = disk.state /\ used'.stateEdits = used.stateEdits
LEMMA RestsKept == ASSUME KeptInv, Shape', DiskOK', Rests PROVE KeptInv'
<1>. SUFFICES ASSUME d'.up PROVE InEffect' /\ UnderWay' /\ StateKept' BY DEF KeptInv
<1>1. InEffect /\ UnderWay /\ StateKept BY DEF KeptInv, Rests
<1>2. InEffect' BY <1>1 DEF InEffect, Rests
<1>3. StateKept' BY <1>1 DEF StateKept, Rests
<1>4. UnderWay'
  <2>. SUFFICES ASSUME d'.pc # "idle" PROVE d'.todo.cfg # {} /\ d'.todo.cfg = build(Sources(d.todo.doc, d.todo.overrides))'
    BY DEF UnderWay
  <2>1. d.pc # "idle" /\ d'.todo = d.todo BY DEF Rests
  <2>2. Sources(d.todo.doc, d.todo.overrides)' = Sources(d.todo.doc, d.todo.overrides) BY <2>1 DEF Sources, Rests
  <2>3. QED BY <1>1, <2>1, <2>2 DEF UnderWay
<1>5. QED BY <1>2, <1>3, <1>4

\* The daemon starts, or reads its files again.
LEMMA StartKept == ASSUME KeptInv, Start PROVE KeptInv'
<1>0. PICK s \in read_sources(disk) : \E cfg \in build(s) :
        d' = [Loaded(s, cfg) EXCEPT !.state = read_state(disk), !.reply = "none", !.pc = "idle", !.todo = Nothing]
  BY DEF Start
<1>1. PICK cfg \in build(s) :
        d' = [Loaded(s, cfg) EXCEPT !.state = read_state(disk), !.reply = "none", !.pc = "idle", !.todo = Nothing]
  BY <1>0
<1>. DEFINE e == Loaded(s, cfg)
<1>2. UNCHANGED <<disk, used>> /\ Shape /\ DiskOK BY DEF Start, KeptInv
<1>3. DiskOK' BY <1>2 DEF DiskOK
<1>4. /\ e.up /\ e.sources = s /\ e.cfg = cfg /\ build(s) = {cfg} /\ e.on_disk = s.dynamic
      /\ (e.on_disk = {} /\ e.doc = NoFile) \/ e.on_disk = {e.doc}
      /\ e = [up |-> e.up, pc |-> e.pc, todo |-> e.todo, reply |-> e.reply, cfg |-> e.cfg, sources |-> e.sources,
               doc |-> e.doc, on_disk |-> e.on_disk, state |-> e.state]
  BY <1>2, LoadedInEffect
<1>5. s = [statics |-> s.statics, dynamic |-> s.dynamic, state |-> s.state] /\ s.state = disk.state.enabled
      /\ read_state(disk) = disk.state.enabled
  BY <1>2, ReadSources
<1>6. d' = [e EXCEPT !.state = disk.state.enabled, !.reply = "none", !.pc = "idle", !.todo = Nothing] BY <1>1, <1>5
<1>. HIDE DEF e
<1>7. /\ d'.up /\ d'.pc = "idle" /\ d'.sources = s /\ d'.cfg = cfg /\ d'.on_disk = e.on_disk /\ d'.doc = e.doc
      /\ d'.state = disk.state.enabled
  BY <1>4, <1>6
<1>8. Shape' BY <1>2, <1>4, <1>6 DEF Shape
<1>9. InEffect' BY <1>4, <1>5, <1>7 DEF InEffect
<1>10. QED BY <1>2, <1>3, <1>5, <1>7, <1>8, <1>9 DEF KeptInv, UnderWay, StateKept

LEMMA ReloadKept == ASSUME KeptInv, Reload PROVE KeptInv'
<1>1. d.up /\ d.pc = "idle" /\ disk' = disk /\ Shape /\ DiskOK /\ StateKept
  BY DEF Reload, Command, Idle, KeptInv
<1>2. used' = [used EXCEPT !.commands = @ + 1, !.puts = IF "reload" = "config.put" THEN @ + 1 ELSE @]
  BY DEF Reload, Command
<1>3. used'.stateEdits = used.stateEdits BY <1>1, <1>2 DEF Shape
<1>4. DiskOK' BY <1>1, <1>3 DEF DiskOK
<1>5. CASE d' = Reply("refused")
  <2>1. d' = [d EXCEPT !.reply = "refused"] BY <1>5 DEF Reply
  <2>2. Shape' BY <1>1, <1>2, <2>1 DEF Shape
  <2>3. Rests BY <1>1, <1>3, <2>1 DEF Rests, Shape
  <2>4. QED BY <1>4, <2>2, <2>3, RestsKept
<1>6. ASSUME NEW s \in read_sources(disk), NEW cfg \in build(s), d' = [Loaded(s, cfg) EXCEPT !.reply = "ok"] PROVE KeptInv'
  <2>. DEFINE e == Loaded(s, cfg)
  <2>1. d' = [e EXCEPT !.reply = "ok"] BY <1>6
  <2>2. s \in read_sources(disk) /\ cfg \in build(s) BY <1>6
  <2>3. /\ e.up /\ e.pc = d.pc /\ e.sources = s /\ e.cfg = cfg /\ e.state = d.state /\ build(s) = {cfg} /\ e.on_disk = s.dynamic
        /\ (e.on_disk = {} /\ e.doc = NoFile) \/ e.on_disk = {e.doc}
        /\ e = [up |-> e.up, pc |-> e.pc, todo |-> e.todo, reply |-> e.reply, cfg |-> e.cfg, sources |-> e.sources,
                 doc |-> e.doc, on_disk |-> e.on_disk, state |-> e.state]
    BY <1>1, <2>2, LoadedInEffect
  <2>4. s = [statics |-> s.statics, dynamic |-> s.dynamic, state |-> s.state] /\ s.state = disk.state.enabled
    BY <1>1, <2>2, ReadSources
  <2>. HIDE DEF e
  <2>5. /\ d'.up /\ d'.pc = "idle" /\ d'.sources = s /\ d'.cfg = cfg /\ d'.on_disk = e.on_disk /\ d'.doc = e.doc
        /\ d'.state = d.state
    BY <1>1, <2>1, <2>3
  <2>6. Shape' BY <1>1, <1>2, <2>1, <2>3 DEF Shape
  <2>7. InEffect' BY <2>3, <2>4, <2>5 DEF InEffect
  <2>8. QED BY <1>1, <1>3, <1>4, <2>4, <2>5, <2>6, <2>7 DEF KeptInv, UnderWay, StateKept
<1>7. QED BY <1>5, <1>6 DEF Reload

LEMMA NextKept == KeptInv /\ [Next]_vars => KeptInv'
<1>. SUFFICES ASSUME KeptInv, [Next]_vars PROVE KeptInv' OBVIOUS
<1>. USE DEF KeptInv
<1>1. CASE Start BY <1>1, StartKept
<1>2. CASE Reload BY <1>2, ReloadKept
<1>3. CASE Save
  <2>1. Shape' /\ Rests BY <1>3 DEF Save, Shape, Rests
  <2>2. DiskOK' BY <1>3 DEF Save, Shape, DiskOK
  <2>3. QED BY <2>1, <2>2, RestsKept
<1>4. CASE SaveFails
  <2>1. Shape' /\ Rests BY <1>4 DEF SaveFails, Spend, Shape, Rests
  <2>2. DiskOK' BY <1>4 DEF SaveFails, Spend, Shape, DiskOK
  <2>3. QED BY <2>1, <2>2, RestsKept
<1>5. CASE Apply BY <1>5, ApplyKept
<1>6. CASE StateFails
  <2>1. Shape' /\ Rests BY <1>6 DEF StateFails, Spend, Shape, Rests
  <2>2. DiskOK' BY <1>6 DEF StateFails, Spend, Shape, DiskOK
  <2>3. QED BY <2>1, <2>2, RestsKept
<1>7. CASE Edits BY <1>7, EditIsChange, ChangeKept
<1>8. CASE ConfigGet
  <2>1. Shape' /\ Rests /\ DiskOK' BY <1>8 DEF ConfigGet, Shape, DiskOK, Rests
  <2>2. QED BY <2>1, RestsKept
<1>9. CASE EditStatic
  <2>1. Shape' /\ Rests BY <1>9 DEF EditStatic, Spend, Shape, Rests
  <2>2. DiskOK' BY <1>9 DEF EditStatic, Spend, Shape, DiskOK
  <2>3. QED BY <2>1, <2>2, RestsKept
<1>10. CASE EditDynamic
  <2>1. Shape' /\ Rests BY <1>10 DEF EditDynamic, Spend, Shape, Rests
  <2>2. DiskOK' BY <1>10 DEF EditDynamic, Spend, Shape, DiskOK
  <2>3. QED BY <2>1, <2>2, RestsKept
<1>11. CASE EditState
  <2>1. UNCHANGED d /\ used' = [used EXCEPT !.stateEdits = @ + 1] BY <1>11 DEF EditState, Spend
  <2>2. PICK st : disk' = [disk EXCEPT !.state = [parses |-> TRUE, enabled |-> st]] BY <1>11 DEF EditState
  <2>3. Shape' /\ DiskOK' /\ used'.stateEdits # 0
    <3>1. Shape' BY <2>1, <2>2 DEF Shape
    <3>2. used'.stateEdits = used.stateEdits + 1 BY <2>1 DEF Shape
    <3>3. disk'.dynamic = disk.dynamic /\ disk'.unreadable = disk.unreadable BY <2>2 DEF Shape
    <3>4. disk'.state.parses BY <2>2 DEF Shape
    <3>5. QED BY <3>1, <3>2, <3>3, <3>4 DEF DiskOK
  <2>4. Sources(d.todo.doc, d.todo.overrides)' = Sources(d.todo.doc, d.todo.overrides) BY <2>1 DEF Sources
  <2>5. d.up => InEffect' BY <2>1 DEF InEffect
  <2>6. d.up => UnderWay' BY <2>1, <2>4 DEF UnderWay
  <2>7. QED BY <2>1, <2>3, <2>5, <2>6 DEF StateKept
<1>12. CASE Unreadable
  <2>1. Shape' /\ Rests BY <1>12 DEF Unreadable, Spend, Shape, Rests
  <2>2. DiskOK' BY <1>12 DEF Unreadable, Spend, Shape, DiskOK
  <2>3. QED BY <2>1, <2>2, RestsKept
<1>13. CASE Kill
  <2>1. Shape' /\ ~d'.up BY <1>13 DEF Kill, Spend, Shape
  <2>2. DiskOK' BY <1>13 DEF Kill, Spend, Shape, DiskOK
  <2>3. QED BY <2>1, <2>2
<1>14. CASE UNCHANGED vars
  <2>1. Shape' /\ DiskOK' /\ Rests BY <1>14 DEF vars, Shape, DiskOK, Rests
  <2>2. QED BY <2>1, RestsKept
<1>15. QED BY <1>1, <1>2, <1>3, <1>4, <1>5, <1>6, <1>7, <1>8, <1>9, <1>10, <1>11, <1>12, <1>13, <1>14 DEF Next, Edits

\* A daemon that is killed and started again, or told to reload, comes up with the configuration
\* that is in effect, whatever the files hold, whichever commands were given and wherever a write
\* failed, as long as nobody edits state.toml: what `change` applies is what it has written.
THEOREM RestartSafe == Spec => []RestartKeeps
<1>1. KeptInv => RestartKeeps
  <2>. SUFFICES ASSUME KeptInv, InStep, used.stateEdits = 0
                PROVE  build(CHOOSE s \in read_sources(disk) : TRUE) = {d.cfg}
    BY DEF RestartKeeps
  <2>1. d.up /\ InEffect /\ StateKept /\ DiskOK BY DEF KeptInv, InStep, Idle
  <2>2. read_state(disk) = d.sources.state BY <2>1 DEF read_state, DiskOK, StateKept
  <2>3. read_sources(disk) = {[statics |-> d.sources.statics, dynamic |-> d.sources.dynamic, state |-> d.sources.state]}
    BY <2>1, <2>2 DEF read_sources, InStep, InEffect
  <2>4. read_sources(disk) = {d.sources} BY <2>1, <2>3 DEF InEffect
  <2>5. QED BY <2>1, <2>4 DEF InEffect
<1>2. QED BY <1>1, InitKept, NextKept, PTL DEF Spec

=============================================================================
