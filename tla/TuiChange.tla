------------------------------- MODULE TuiChange -------------------------------
(***************************************************************************)
(* Changes made in the TUI (ctl/tui/app.rs, ctl/tui/add.rs): the keys that *)
(* act on the selected row, the dialogs that ask before anyone is          *)
(* disconnected, the forms that add things, and what the daemon's answers  *)
(* do to them.                                                             *)
(*                                                                         *)
(* dialog and form are sets of at most one.  A key waits in the channel of *)
(* the terminal's thread.  A command is what it does and its row; nd is    *)
(* its non_disruptive.  apps are those whom a forced change disconnects.   *)
(***************************************************************************)
EXTENDS Naturals, Sequences, FiniteSets

CONSTANTS
  Rows,        \* the rows that can be selected, of both views
  Apps,        \* apps that may be connected
  Bounds       \* which keys are pressed, how many, and how much else happens

VARIABLES
  dialog,   \* App::dialog: the request that yes sends
  form,     \* App::form: its number, and whether it shows a mistake
  pending,  \* Conn::pending
  up, down, \* the connection, both ways
  keys,     \* Keys::rx
  apps,     \* who is connected to the daemon's ports
  refused,  \* the commands that the daemon said would disrupt
  used

vars == <<dialog, form, pending, up, down, keys, apps, refused, used>>

Spend(what) == used[what] < used.bound[what] /\ used' = [used EXCEPT ![what] = @ + 1]

\* Commands that take non_disruptive.
Consented == {"enable", "disable", "switch", "delete", "reload", "add"}
Cmd(what, row) == [what |-> what, row |-> row.id]
Req(c, nd, then, switch, f) == [cmd |-> c, nd |-> nd, then |-> then, switch |-> switch, form |-> f]

consent(what, row) == Req(Cmd(what, row), TRUE, "consent", FALSE, 0)
done(what, row) == Req(Cmd(what, row), FALSE, "done", FALSE, 0)

Say == [does |-> "say", req |-> {}]
Notice == [does |-> "notice", req |-> {}]
Asks(r) == [does |-> "ask", req |-> {r}]
Sends(r) == [does |-> "send", req |-> {r}]

------------------------------------------------------------------------------
\* What a key does with the selected row.

\* A bridge: e, d and s; - asks first, and only for one of dynamic.toml.
OnBridge(k, r) ==
  CASE k = "e" -> IF r.enabled THEN Say ELSE Sends([consent("enable", r) EXCEPT !.switch = TRUE])
    [] k = "d" -> IF r.enabled THEN Sends(consent("disable", r)) ELSE Say
    [] k = "s" -> IF r.enabled THEN Say ELSE Sends(consent("switch", r))
    [] k = "-" -> IF r.editable THEN Asks(consent("delete", r)) ELSE Notice
    [] OTHER -> Say

\* A port: c, x and r for a TNC's; -.
OnPort(k, r) ==
  CASE k \in {"c", "x", "r"} -> IF r.tnc THEN Sends(done("port", r)) ELSE Say
    [] k = "-" -> IF r.editable THEN Asks(consent("delete", r)) ELSE Notice
    [] OTHER -> Say

OnSession(k, r) == IF k = "k" THEN Sends(done("kick", r)) ELSE Say

\* - in the TNCs view: a device that is only paired has nothing to remove.
remove_tnc_row(r) ==
  CASE r.kind = "device" -> Say
    [] r.editable -> Asks(consent("delete", r))
    [] OTHER -> Notice

\* u always asks.
unpair_tnc(r) == IF r.kind \in {"tnc", "device"} /\ r.paired THEN Asks(done("unpair", r)) ELSE Say

OnKey(k, r) ==
  CASE k = "R" -> Sends(consent("reload", r))
    [] r.kind = "bridge" -> OnBridge(k, r)
    [] r.kind = "port" -> OnPort(k, r)
    [] r.kind = "session" -> OnSession(k, r)
    [] k = "-" -> remove_tnc_row(r)
    [] k = "u" -> unpair_tnc(r)
    [] OTHER -> Say

------------------------------------------------------------------------------
\* The loop: a key.

Daemon == UNCHANGED <<apps, refused>>
Send(r) == LET id == used'.ids IN
  /\ up' = Append(up, [r |-> r, id |-> id]) /\ pending' = pending \cup {[r |-> r, id |-> id]}
NoSend == UNCHANGED <<up, pending>>
Spent(what) == used' = [used EXCEPT ![what] = @ + 1]

\* The dialog has the keys first: y sends, n closes.
dialog_key(k) ==
  \E d \in dialog :
    \/ /\ k \in {"y", "Enter"} /\ d.req # {} /\ dialog' = {} /\ Spent("ids") /\ \A r \in d.req : Send(r)
    \/ /\ k \in (IF d.req = {} THEN {"Enter", "Esc"} ELSE {"n", "Esc"})
       /\ dialog' = {} /\ NoSend /\ UNCHANGED used
    \/ /\ k \notin (IF d.req = {} THEN {"Enter", "Esc"} ELSE {"y", "n", "Enter", "Esc"})
       /\ NoSend /\ UNCHANGED <<dialog, used>>

\* Then the form: Enter sends what it holds and leaves it open, Esc closes it.
form_key(k) ==
  /\ UNCHANGED dialog
  /\ \E f \in form :
       \/ /\ k = "Enter" /\ Spent("ids") /\ form' = {[f EXCEPT !.wrong = FALSE]}
          /\ Send(Req([what |-> "add", row |-> f.n], TRUE, "consent", FALSE, f.n))
       \/ k = "Esc" /\ form' = {} /\ NoSend /\ UNCHANGED used
       \/ k \notin {"Enter", "Esc"} /\ NoSend /\ UNCHANGED <<form, used>>

\* Then the view: a opens a form, the others act on the selected row.
view_key(k, r) ==
  /\ LET o == OnKey(k, r) IN
     IF k = "a"
     THEN IF used.forms < used.bound.forms THEN /\ Spent("forms") /\ form' = {[n |-> used'.forms, wrong |-> FALSE]}
                                        /\ NoSend /\ UNCHANGED dialog
                                   ELSE NoSend /\ UNCHANGED <<dialog, form, used>>
     ELSE /\ UNCHANGED form
          /\ IF o.does = "send" THEN Spent("ids") /\ UNCHANGED dialog /\ \A q \in o.req : Send(q)
             ELSE /\ NoSend /\ UNCHANGED used
                  /\ dialog' = IF o.does \in {"ask", "notice"} THEN {[req |-> o.req]} ELSE dialog

key(r) ==
  /\ keys # <<>> /\ keys' = Tail(keys) /\ Daemon /\ UNCHANGED down
  /\ LET k == Head(keys) IN
     IF dialog # {} THEN dialog_key(k) /\ UNCHANGED form
     ELSE IF form # {} THEN form_key(k) ELSE view_key(k, r)

------------------------------------------------------------------------------
\* The loop: an answer.

\* An error goes on the message line, or in a box when it is long.
error == dialog' = dialog \/ dialog' = {[req |-> {}]}

\* Variant with a defect: the offer to switch forces it.
on_consent_switch(r, m) ==
  IF m.res = "conflict" /\ r.switch
  THEN dialog' = {[req |-> {Req([what |-> "switch", row |-> r.cmd.row], FALSE, "done", FALSE, 0)}]}
  ELSE UNCHANGED dialog

\* Done, or a question: to do it anyway, or to switch to a bridge that is in conflict.
on_consent(r, m) ==
  CASE m.res = "ok" -> UNCHANGED dialog
    [] m.res = "disrupt" /\ r.then = "consent" -> dialog' = {[req |-> {Req(r.cmd, FALSE, "done", FALSE, 0)}]}
    [] m.res = "conflict" /\ r.switch ->
         dialog' = {[req |-> {Req([what |-> "switch", row |-> r.cmd.row], TRUE, "consent", FALSE, 0)}]}
    [] OTHER -> error

\* A mistake goes to the form that is open; any other answer to a form's request closes it.
on_answer ==
  /\ down # <<>> /\ down' = Tail(down) /\ Daemon /\ UNCHANGED <<up, keys, used>>
  /\ LET m == Head(down) IN \E w \in pending :
       /\ w.id = m.id /\ pending' = pending \ {w}
       /\ IF w.r.form # 0 /\ m.res \in {"error", "conflict"} /\ form # {}
          THEN form' = {[f EXCEPT !.wrong = TRUE] : f \in form} /\ UNCHANGED dialog
          ELSE form' = (IF w.r.form # 0 THEN {} ELSE form) /\ on_consent(w.r, m)

\* The connection goes, and what waits for an answer with it; another one is opened.
Lost ==
  /\ Spend("losses") /\ up' = <<>> /\ down' = <<>> /\ pending' = {}
  /\ Daemon /\ UNCHANGED <<dialog, form, keys>>

------------------------------------------------------------------------------
\* The daemon, the apps and the person.

\* A change fails, or is in conflict; with non_disruptive it is refused if it would disconnect
\* someone, and without it goes on and may do so.
Handle ==
  /\ up # <<>> /\ up' = Tail(up) /\ UNCHANGED <<dialog, form, pending, keys, used>>
  /\ LET c == Head(up)
         Answer(res) == down' = Append(down, [id |-> c.id, res |-> res])
     IN  \/ c.r.nd /\ apps # {} /\ Answer("disrupt") /\ refused' = refused \cup {c.r.cmd} /\ UNCHANGED apps
         \/ c.r.cmd.what = "enable" /\ Answer("conflict") /\ UNCHANGED <<apps, refused>>
         \/ Answer("error") /\ UNCHANGED <<apps, refused>>
         \/ Answer("ok") /\ UNCHANGED refused /\ apps' \in (IF c.r.nd THEN {apps} ELSE {apps, {}})

Arrive(a) ==
  /\ Spend("arrivals") /\ apps' = IF a \in apps THEN apps \ {a} ELSE apps \cup {a}
  /\ UNCHANGED <<dialog, form, pending, up, down, keys, refused>>

Press(k) ==
  /\ Spend("keys") /\ keys' = Append(keys, k)
  /\ UNCHANGED <<dialog, form, pending, up, down, apps, refused>>

Init ==
  /\ dialog = {} /\ form = {} /\ pending = {} /\ up = <<>> /\ down = <<>> /\ keys = <<>>
  /\ apps \in SUBSET Apps /\ refused = {}
  /\ \E b \in Bounds : used = [keys |-> 0, forms |-> 0, arrivals |-> 0, losses |-> 0, ids |-> 0, bound |-> b]

Next ==
  \/ \E r \in Rows : key(r)
  \/ on_answer \/ Lost \/ Handle
  \/ \E a \in Apps : Arrive(a)
  \/ \E k \in used.bound.pressed : Press(k)

Spec == Init /\ [][Next]_vars

------------------------------------------------------------------------------

\* A change is forced only after the daemon has refused the same change because it would
\* disrupt someone: whatever else the person agrees to, it goes with non_disruptive first.
ForcedAfterRefusal ==
  \A i \in 1..Len(up) : up[i].r.cmd.what \in Consented /\ ~up[i].r.nd => up[i].r.cmd \in refused

====
