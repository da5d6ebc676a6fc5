--------------------------------- MODULE Setup ---------------------------------
(***************************************************************************)
(* The steps of ktbctl setup after the radio is found (ctl/setup.rs): the  *)
(* TNC, the bridge, its ports, enabling it, and the check of the link at   *)
(* the end.  Each step is a call of the control API, and between two calls *)
(* somebody else can change the config.                                    *)
(*                                                                         *)
(* The radio is reached in one of Ways.  A TNC has a device for each way:  *)
(* the radio, another one or none.  The bridges are the one that is there, *)
(* Other, and the one that the wizard makes, Mine.                         *)
(***************************************************************************)
EXTENDS Naturals, Sequences, FiniteSets, SequencesExt, TLC

CONSTANTS
  Ways,          \* of spp, ble and serial
  TncIds,
  Places,        \* adapters present in the order of status, the one that talks to the
                 \* radio, and what Other advertises on: a set of at most one
  Listens,       \* what can be listened on
  OtherTnc, OtherListen,  \* what else Other uses: sets of at most one
  MaxOther, MaxTries

None == "none"
Other == "ktbr0"
Mine == "ktbr1"
Default == "default adapter"   \* AdapterSel::Default, whose name isn't a MAC

VARIABLES
  pc,
  s,        \* the TNCs of the first status
  w,        \* what the wizard has asked and read so far
  tncs,     \* the daemon's TNCs: a device for each way, and the edits made by hand
  bridges,  \* the daemon's bridges
  apps,     \* the bridges with apps connected
  calls,    \* calls of the check that the daemon has not handled
  hold,     \* Mine's link is held up by port.connect
  edits,    \* the edits made to each TNC
  used      \* how much else has happened, and the place, one of Places

vars == <<pc, s, w, tncs, bridges, apps, calls, hold, edits, used>>
config == <<tncs, bridges, apps, edits>>
check == <<calls, hold>>

Present == used.place.present
Radios == used.place.radio
Spend(what, max) == used[what] < max /\ used' = [used EXCEPT ![what] = @ + 1]
Go(to) == pc' = to
Stop(why) == pc' = "ended" /\ w' = [w EXCEPT !.why = why]

\* validate: an enabled bridge has a TNC port and an app port; two don't share anything.
Complete(b) == Cardinality(b.tnc) = 1 /\ b.listen \cup b.ble # {}
Shares(a, b, what) == a[what] \cap b[what] # {}
InTheWay(bs, b) == {o \in DOMAIN bs \ {b} : bs[o].on /\ \E what \in {"tnc", "listen", "ble"} : Shares(bs[o], bs[b], what)}

\* A device at a way is in one TNC.
Twice(k, t) == \E o \in DOMAIN tncs \ {t} : tncs[o].at[k] = "radio"

------------------------------------------------------------------------------
\* Steps 1 to 4: the TNC.

\* The first status, and a TNC that has the radio already, one picked from the menu, a KISS
\* TCP server, or one to be made.
Begin(k) ==
  /\ pc = "start" /\ s' = tncs
  /\ \/ \E t \in DOMAIN tncs : tncs[t].at[k] # None /\ w' = [w EXCEPT !.tnc = {t}] /\ Go("bridge")
     \/ (\A t \in DOMAIN tncs : tncs[t].at[k] # "radio") /\ w' = [w EXCEPT !.way = k] /\ Go("tnc")
     \/ w' = [w EXCEPT !.tnc = {"net"}] /\ Go("bridge")
  /\ UNCHANGED <<config, check, used>>

\* "Is this the same radio as TNC t?": its text is read, to be sent back with the section.
SameRadio(t) ==
  /\ pc = "tnc" /\ t \in DOMAIN s /\ s[t].at[w.way] = None
  /\ IF t \in DOMAIN tncs
       THEN w' = [w EXCEPT !.tnc = {t}, !.text = tncs[t], !.rev = tncs[t].edits] /\ Go("put")
       ELSE Stop("not found")
  /\ UNCHANGED <<s, config, check, used>>

\* change_value: the first try is refused when it would disconnect an app, and the person is
\* asked; disrupts says whom the change would disconnect.
Refused(disrupts) == w.nd /\ disrupts # {}

AskFirst == w' = [w EXCEPT !.nd = FALSE, !.back = pc] /\ Go("ask")

\* The change is made, and its apps are gone; the next change asks anew.
Disconnect(gone) ==
  apps' = apps \ gone /\ w' = [w EXCEPT !.nd = TRUE]

Confirm ==
  /\ pc = "ask"
  /\ \/ Go(w.back) /\ UNCHANGED w
     \/ Stop("nothing was changed")
  /\ UNCHANGED <<s, config, check, used>>

\* Variant with a defect: the text is put whatever was changed in the meantime.
Put_any(t, disrupts) ==
  /\ pc = "put" /\ {t} = w.tnc
  /\ IF t \notin DOMAIN tncs \/ Twice(w.way, t)
       THEN Stop("refused") /\ UNCHANGED config
     ELSE IF Refused(disrupts) THEN AskFirst /\ UNCHANGED config
     ELSE /\ tncs' = [tncs EXCEPT ![t] = [w.text EXCEPT !.at[w.way] = "radio"]]
          /\ Disconnect(disrupts) /\ Go("bridge") /\ UNCHANGED <<bridges, edits>>
  /\ UNCHANGED <<s, check, used>>

\* config.put of the text with the section, with the revision that was read.
Put(t, disrupts) ==
  /\ pc = "put" /\ {t} = w.tnc
  /\ IF t \notin DOMAIN tncs \/ tncs[t].edits # w.rev \/ Twice(w.way, t)
       THEN Stop("refused") /\ UNCHANGED config
     ELSE IF Refused(disrupts) THEN AskFirst /\ UNCHANGED config
     ELSE /\ tncs' = [tncs EXCEPT ![t] = [w.text EXCEPT !.at[w.way] = "radio"]]
          /\ Disconnect(disrupts) /\ Go("bridge") /\ UNCHANGED <<bridges, edits>>
  /\ UNCHANGED <<s, check, used>>

NewTncAt(k) == [at |-> [x \in Ways |-> IF x = k THEN "radio" ELSE None], edits |-> 0]

\* tnc.create under the id that was given; taken, or the radio's address is, it asks again.
NewTnc(id) ==
  /\ pc = "tnc"
  /\ IF id \in DOMAIN tncs \/ Twice(w.way, id)
       THEN Spend("tries", MaxTries) /\ UNCHANGED <<pc, w, tncs, edits>>
       ELSE /\ tncs' = [t \in DOMAIN tncs \cup {id} |-> IF t = id THEN NewTncAt(w.way) ELSE tncs[t]]
            /\ edits' = [edits EXCEPT ![id] = 0]
            /\ w' = [w EXCEPT !.tnc = {id}] /\ Go("bridge") /\ UNCHANGED used
  /\ UNCHANGED <<s, bridges, apps, check>>

------------------------------------------------------------------------------
\* Step 5: what the bridge is to be.

\* The second status: the TNC may have gone, and the bridge uses one of its ways.
ReadAgain ==
  /\ pc = "bridge"
  /\ IF w.tnc = {"net"} THEN Go("share") /\ UNCHANGED w
     ELSE IF ~(w.tnc \subseteq DOMAIN tncs) THEN Stop("TNC went away")
     ELSE \E t \in w.tnc, k \in Ways : tncs[t].at[k] # None /\ w' = [w EXCEPT !.way = k] /\ Go("share")
  /\ UNCHANGED <<s, config, check, used>>

\* The adapters an enabled bridge advertises on, of those shown with a MAC.
ble_adapters_in_use == {a \in UNION {bridges[b].ble : b \in {x \in DOMAIN bridges : bridges[x].on}} : a # Default}

\* The adapter that the menu suggests.
Suggested ==
  LET own == IF w.way = "serial" \/ w.tnc = {"net"} THEN None ELSE Radios
      best == {i \in DOMAIN Present : Present[i] \notin ble_adapters_in_use /\ Present[i] # own}
      free == {i \in DOMAIN Present : Present[i] \notin ble_adapters_in_use}
      first(is) == {i \in is : \A j \in is : i <= j}
  IN  IF best # {} THEN first(best) ELSE IF free # {} THEN first(free) ELSE {1}

\* How apps reach it: over BLE, on one of the adapters if there are any, over TCP, or both;
\* over TCP also when there is no adapter.
Share(how, a, l) ==
  /\ pc = "share"
  /\ LET ble == IF how # "tcp" THEN {a} \cap Range(Present) ELSE {}
         tcp == IF how # "ble" \/ ble = {} THEN {l} ELSE {}
     IN  w' = [w EXCEPT !.ble = ble, !.listen = tcp, !.default = Suggested]
  /\ Go("create") /\ UNCHANGED <<s, config, check, used>>

------------------------------------------------------------------------------
\* Step 6: the bridge.

\* bridge.create, disabled and without ports; a name that is taken is asked for again.
Create ==
  /\ pc = "create"
  /\ \/ Spend("tries", MaxTries) /\ UNCHANGED <<pc, w, bridges>>
     \/ /\ bridges' = [b \in {Other, Mine} |->
                         IF b = Mine THEN [on |-> FALSE, tnc |-> {}, listen |-> {}, ble |-> {}] ELSE bridges[b]]
        /\ Go("ports") /\ UNCHANGED <<w, used>>
  /\ UNCHANGED <<s, tncs, apps, edits, check>>

\* port.add, the TNC port first; a port whose TNC has lost its section, or is gone, is refused.
AddPort(what) ==
  /\ pc = "ports" /\ bridges[Mine][what] # w[what]
  /\ what # "tnc" => bridges[Mine].tnc = w.tnc
  /\ what = "listen" => bridges[Mine].ble = w.ble
  /\ IF what = "tnc" /\ w.tnc # {"net"} /\ ~\E t \in w.tnc \cap DOMAIN tncs : tncs[t].at[w.way] # None
       THEN Stop("refused") /\ UNCHANGED bridges
       ELSE bridges' = [bridges EXCEPT ![Mine][what] = w[what]] /\ UNCHANGED <<pc, w>>
  /\ UNCHANGED <<s, tncs, apps, edits, check, used>>

On(b) == [bridges EXCEPT ![b].on = TRUE]

\* bridge.enable.  Of the ways in which another bridge is in the way, only that of the
\* listen sockets says "conflicts with", which setup_bridge looks for.
Enable ==
  /\ pc = "ports" /\ \A what \in {"tnc", "listen", "ble"} : bridges[Mine][what] = w[what]
  /\ IF ~Complete(bridges[Mine]) THEN Stop("incomplete") /\ UNCHANGED bridges
     ELSE IF InTheWay(bridges, Mine) = {} THEN bridges' = On(Mine) /\ Go("saved") /\ UNCHANGED w
     ELSE /\ IF \E o \in InTheWay(bridges, Mine) : Shares(bridges[o], bridges[Mine], "listen")
               THEN Go("offer") /\ UNCHANGED w ELSE Stop("in the way")
          /\ UNCHANGED bridges
  /\ UNCHANGED <<s, tncs, apps, edits, check, used>>

\* "Switch to it, disabling the bridges in its way?"
Offer ==
  /\ pc = "offer"
  /\ (Go("switch") /\ UNCHANGED w) \/ Stop("disabled")
  /\ UNCHANGED <<s, config, check, used>>

\* bridge.switch: those in the way now are disabled with it.
Switch ==
  /\ pc = "switch"
  /\ LET off == InTheWay(bridges, Mine)
     IN  IF Refused(off \cap apps) THEN AskFirst /\ UNCHANGED <<bridges, apps>>
         ELSE /\ bridges' = [b \in DOMAIN bridges |-> [bridges[b] EXCEPT !.on = IF b = Mine THEN TRUE ELSE @ /\ b \notin off]]
              /\ Disconnect(off \cap apps) /\ Go("saved")
  /\ UNCHANGED <<s, tncs, edits, check, used>>

------------------------------------------------------------------------------
\* Step 7: check_tnc.

Call(c, to) == calls' = Append(calls, c) /\ Go(to) /\ UNCHANGED <<s, w, config, hold, used>>

\* port.connect goes out; its answer, then the link or the end of 30 s, then a frame or the
\* end of 30 s are waited for.
Connect == pc = "saved" /\ Call("connect", "connecting")
Waited ==
  /\ \/ pc = "connecting" /\ calls = <<>> /\ (Go("linking") \/ Go("checked"))
     \/ pc = "linking" /\ (Go("listening") \/ Go("checked"))
     \/ pc = "listening" /\ Go("checked")
  /\ UNCHANGED <<s, w, config, check, used>>

\* Control-C ends the check, also while the answer to port.connect is out.
Interrupt ==
  /\ pc \in {"saved", "connecting", "linking", "listening"} /\ Go("checked")
  /\ UNCHANGED <<s, w, config, check, used>>

Release == pc = "checked" /\ Call("release", "ended")

\* The daemon takes the calls of a connection in order; without a running bridge, neither
\* does anything (Supervisor::hold).
Handle ==
  /\ calls # <<>> /\ calls' = Tail(calls)
  /\ hold' = (Head(calls) = "connect" /\ bridges[Mine].on)
  /\ UNCHANGED <<pc, s, w, config, used>>

------------------------------------------------------------------------------
\* Somebody else; nobody enables or disables the bridge while it is being made.

Made(t, at) == /\ tncs' = [x \in DOMAIN tncs \cup {t} |-> IF x = t THEN [at |-> at, edits |-> 0] ELSE tncs[x]]
               /\ edits' = [edits EXCEPT ![t] = 0] /\ UNCHANGED <<bridges, apps>>
Uses(t) == \E b \in DOMAIN bridges : t \in bridges[b].tnc

OtherEdits(t) ==
  /\ pc # "ended" /\ Spend("other", MaxOther)
  /\ \/ /\ t \in DOMAIN tncs /\ tncs' = [tncs EXCEPT ![t].edits = @ + 1] /\ edits' = [edits EXCEPT ![t] = @ + 1]
        /\ UNCHANGED <<bridges, apps>>
     \/ t \in DOMAIN tncs /\ ~Uses(t) /\ tncs' = [x \in DOMAIN tncs \ {t} |-> tncs[x]] /\ UNCHANGED <<edits, bridges, apps>>
     \/ t \notin DOMAIN tncs /\ \E k \in Ways : ~Twice(k, t) /\ Made(t, NewTncAt(k).at)
  /\ UNCHANGED <<pc, s, w, check>>

OtherSwitches(b) ==
  /\ pc # "ended" /\ b \in DOMAIN bridges /\ Spend("other", MaxOther)
  /\ b = Mine => pc \notin {"ports", "offer", "switch", "ask"}
  /\ IF bridges[b].on THEN bridges' = [bridges EXCEPT ![b].on = FALSE] /\ apps' = apps \ {b} /\ hold' = (hold /\ b # Mine)
     ELSE Complete(bridges[b]) /\ InTheWay(bridges, b) = {} /\ bridges' = On(b) /\ UNCHANGED <<apps, hold>>
  /\ UNCHANGED <<pc, s, w, tncs, edits, calls>>

AppComes(b) ==
  /\ pc # "ended" /\ b \in DOMAIN bridges \ apps /\ bridges[b].on /\ apps' = apps \cup {b}
  /\ UNCHANGED <<pc, s, w, tncs, bridges, edits, check, used>>

Checking == pc \in {"saved", "connecting", "linking", "listening", "checked"}

\* Control-C before the check ends ktbctl; what was made by then stays.
Quit ==
  /\ pc # "ended" /\ ~Checking /\ Stop("stopped")
  /\ UNCHANGED <<s, config, check, used>>

\* The daemon restarts: the connection is lost, and with the running bridges the hold.
Restart ==
  /\ pc # "ended" /\ Stop("closed") /\ hold' = FALSE /\ calls' = <<>> /\ apps' = {}
  /\ UNCHANGED <<s, tncs, bridges, edits, used>>

------------------------------------------------------------------------------
Init ==
  /\ pc = "start" /\ s = <<>>
  /\ w = [tnc |-> {}, way |-> None, text |-> {}, rev |-> 0, ble |-> {}, listen |-> {}, default |-> {},
          nd |-> TRUE, back |-> None, why |-> None]
  /\ tncs = [t \in OtherTnc |-> [at |-> [k \in Ways |-> IF k = "serial" THEN "other" ELSE None], edits |-> 0]]
  /\ apps = {} /\ calls = <<>> /\ hold = FALSE /\ edits = [t \in TncIds |-> 0]
  /\ \E p \in Places :
       /\ used = [tries |-> 0, other |-> 0, place |-> p]
       /\ bridges = (Other :> [on |-> TRUE, tnc |-> OtherTnc, listen |-> OtherListen, ble |-> p.ble])

Wizard ==
  \/ \E k \in Ways : Begin(k)
  \/ \E t \in TncIds : SameRadio(t) \/ NewTnc(t)
  \/ \E t \in TncIds : \E d \in SUBSET (apps \cap {b \in DOMAIN bridges : t \in bridges[b].tnc}) : Put(t, d)
  \/ \E how \in {"ble", "tcp", "both"}, a \in Range(Present) \cup {None}, l \in Listens :
       (a = None => Present = <<>>) /\ Share(how, a, l)
  \/ \E what \in {"tnc", "ble", "listen"} : AddPort(what)
  \/ Confirm \/ ReadAgain \/ Create \/ Enable \/ Offer \/ Switch \/ Connect \/ Waited \/ Release

Next ==
  \/ Wizard \/ Interrupt \/ Handle \/ Quit \/ Restart
  \/ \E t \in TncIds : OtherEdits(t)
  \/ \E b \in {Other, Mine} : OtherSwitches(b) \/ AppComes(b)

Spec == Init /\ [][Next]_vars

------------------------------------------------------------------------------

\* What somebody else wrote into a TNC's definition is never lost to the text that the
\* wizard puts back with a section added, however long it waited for a yes (setup_tnc).
EditsKept == \A t \in DOMAIN tncs : tncs[t].edits = edits[t]

=============================================================================
