------------------------------- MODULE TuiStatus -------------------------------
(***************************************************************************)
(* What the TUI shows of the daemon (ctl/tui/mod.rs, ctl/tui/app.rs): the  *)
(* two connections, the status that is read again after a state event, the *)
(* tree of bridges, ports and sessions, and the selection in it.           *)
(*                                                                         *)
(* A bridge has one port, and sessions of it.  A row is named by its       *)
(* object: <<b>>, <<b, "port">> or <<b, "port", session>>.                 *)
(***************************************************************************)
EXTENDS Integers, Sequences, SequencesExt, FiniteSets

CONSTANTS
  Ids,        \* bridges that there may be
  Sessions,   \* sessions of a bridge's port
  EventQueue, \* the events that wait for the TUI, at most
  Bounds      \* how many changes, forms, losses, keys and frames there are

VARIABLES
  real,     \* the daemon's bridges, in order
  conn,     \* whether there is a connection
  up, down, \* the requests connection
  evs,      \* the events connection
  st,       \* Conn: status_pending and status_stale
  shown,    \* App::status, at most one
  sel,      \* App::selected, at most one
  at,       \* App::selected_at
  folds,    \* App::folds
  since,    \* App::new_since, at most one
  fresh,    \* history: what the daemon's bridges were since the last change that the TUI can know of
  used

vars == <<real, conn, up, down, evs, st, shown, sel, at, folds, since, fresh, used>>
app == <<shown, sel, at, folds, since>>

Spend(what) == used[what] < used.bound[what] /\ used' = [used EXCEPT ![what] = @ + 1]
Bridge(b) == [id |-> b, on |-> FALSE, sess |-> {}]
IdsOf(s) == {s[i].id : i \in 1..Len(s)}

------------------------------------------------------------------------------
\* The tree.

folded(b) == IF b.id \in DOMAIN folds THEN folds[b.id] ELSE ~b.on

RowsOf(b) ==
  <<<<b.id>>>> \o (IF folded(b) THEN <<>>
                   ELSE <<<<b.id, "port">>>> \o [i \in 1..Cardinality(b.sess) |-> <<b.id, "port", SetToSortSeq(b.sess, <)[i]>>])
rows(s) == FlattenSeq([i \in 1..Len(s) |-> RowsOf(s[i])])

Position(rs, k) == CHOOSE i \in 1..Len(rs) : rs[i] = k

\* The selected object's row, or where it was.
selected_index(rs) ==
  IF \E k \in sel : k \in Range(rs) THEN Position(rs, CHOOSE k \in sel : TRUE)
  ELSE IF at < Len(rs) THEN at + 1 ELSE Len(rs)

Chosen(s) == LET rs == rows(s) IN IF rs = <<>> THEN <<>> ELSE rs[selected_index(rs)]

select_row(rs, i) == sel' = {rs[i]} /\ at' = i - 1

move_bridges(d) ==
  \E s \in shown :
    LET rs == rows(s)
        to == selected_index(rs) + d
    IN  /\ rs # <<>> /\ select_row(rs, IF to < 1 THEN 1 ELSE IF to > Len(rs) THEN Len(rs) ELSE to)
        /\ UNCHANGED <<shown, folds, since>>

\* Right opens a bridge; Left folds it, or goes up to it from its port or session.
fold(left) ==
  \E s \in shown :
    LET rs == rows(s)
        r == Chosen(s)
    IN  /\ rs # <<>> /\ UNCHANGED <<shown, since>>
        /\ IF Len(r) = 1 THEN /\ folds' = [b \in DOMAIN folds \cup {r[1]} |-> IF b = r[1] THEN left ELSE folds[b]]
                              /\ UNCHANGED <<sel, at>>
           ELSE UNCHANGED folds /\ IF left THEN select_row(rs, Position(rs, <<r[1]>>)) ELSE UNCHANGED <<sel, at>>

\* The first bridge that wasn't there before is selected.
set_status(s) ==
  LET new == {i \in 1..Len(s) : \E b \in since : s[i].id \notin b}
      first == CHOOSE i \in new : \A j \in new : i <= j
  IN  /\ shown' = {s} /\ UNCHANGED <<at, folds>>
      /\ IF new # {} THEN sel' = {<<s[first].id>>} /\ since' = {}
                     ELSE UNCHANGED <<sel, since>>

------------------------------------------------------------------------------
\* The connections.

\* Variant with a defect: a change that comes while status is asked for is not looked at again.
refresh_once(c, q) ==
  IF c.pending THEN st' = c /\ up' = q
  ELSE st' = [c EXCEPT !.pending = TRUE] /\ up' = Append(q, "status")

\* Ask for status, or again when the answer comes.
refresh(c, q) ==
  IF c.pending THEN st' = [c EXCEPT !.stale = TRUE] /\ up' = q
  ELSE st' = [c EXCEPT !.pending = TRUE] /\ up' = Append(q, "status")

Idle == [pending |-> FALSE, stale |-> FALSE]
Open ==
  /\ ~conn /\ conn' = TRUE /\ down' = <<>> /\ evs' = <<>> /\ refresh(Idle, <<>>)
  /\ fresh' = {real} /\ UNCHANGED <<real, app, used>>

Lost ==
  /\ conn /\ Spend("losses") /\ conn' = FALSE /\ up' = <<>> /\ down' = <<>> /\ evs' = <<>> /\ st' = Idle
  /\ UNCHANGED <<real, app, fresh>>

\* A state event: read status again.  Other events change nothing here.
on_event ==
  /\ conn /\ evs # <<>> /\ evs' = Tail(evs)
  /\ IF Head(evs) = "state" THEN refresh(st, up) ELSE UNCHANGED <<st, up>>
  /\ UNCHANGED <<real, conn, down, app, fresh, used>>

\* An answer: a status, or to a change, after which status is read too.
answered ==
  /\ conn /\ down # <<>> /\ down' = Tail(down) /\ UNCHANGED <<real, conn, evs, fresh, used>>
  /\ LET m == Head(down) IN
     IF m.kind = "status"
     THEN /\ set_status(m.s)
          /\ IF st.stale THEN refresh(Idle, up) ELSE st' = Idle /\ UNCHANGED up
     ELSE refresh(st, up) /\ UNCHANGED app

------------------------------------------------------------------------------
\* The person.

Key ==
  /\ Spend("keys")
  /\ \/ \E d \in {-1, 1} : move_bridges(d)
     \/ \E left \in BOOLEAN : fold(left)
  /\ UNCHANGED <<real, conn, up, down, evs, st, fresh>>

\* A form that adds a bridge is sent: what there is on the screen is remembered.
submit ==
  /\ conn /\ shown # {} /\ Spend("adds")
  /\ since' = {IdsOf(s) : s \in shown} /\ up' = Append(up, "add")
  /\ UNCHANGED <<real, conn, down, evs, st, shown, sel, at, folds, fresh>>

------------------------------------------------------------------------------
\* The daemon.

\* An event is dropped when the connection's queue is full.
Emit(e) == evs' = IF conn /\ Len(evs) < EventQueue THEN Append(evs, e) ELSE evs

\* A change of the daemon's bridges, with a state event or without; the TUI can know of it when
\* a state event then waits to be read, be it an earlier one.
Tell(event) ==
  /\ IF event THEN Emit("state") ELSE UNCHANGED evs
  /\ fresh' = IF "state" \in Range(evs') THEN {real'} ELSE fresh \cup {real'}

\* Frames and activity go the same way as state.
Traffic == conn /\ Spend("frames") /\ Emit("frame") /\ UNCHANGED <<real, conn, up, down, st, app, fresh>>

\* status, or the change that adds a bridge: its plan is a no-op, and there is no event, when
\* the bridge is disabled; it may be refused.
Handle ==
  /\ conn /\ up # <<>> /\ up' = Tail(up) /\ UNCHANGED <<conn, st, app, used>>
  /\ \/ /\ Head(up) = "status" /\ down' = Append(down, [kind |-> "status", s |-> real])
        /\ fresh' = {real} /\ UNCHANGED <<real, evs>>
     \/ /\ Head(up) = "add" /\ down' = Append(down, [kind |-> "done", s |-> <<>>])
        /\ \/ \E b \in Ids \ IdsOf(real), on \in BOOLEAN :
                /\ real' = Append(real, [Bridge(b) EXCEPT !.on = on]) /\ fresh' = {real'}
                /\ IF on THEN Emit("state") ELSE UNCHANGED evs
           \/ UNCHANGED <<real, evs, fresh>>

\* Bridges are added and removed by other clients, with an event when they are enabled; they are
\* enabled and disabled; sessions come and go.
Change ==
  /\ Spend("changes") /\ UNCHANGED <<conn, up, down, st, app>>
  /\ \/ \E b \in Ids \ IdsOf(real), on \in BOOLEAN :
          real' = Append(real, [Bridge(b) EXCEPT !.on = on]) /\ Tell(on)
     \/ \E i \in 1..Len(real) :
          \/ real' = RemoveAt(real, i) /\ Tell(real[i].on)
          \/ real' = [real EXCEPT ![i].on = ~@, ![i].sess = {}] /\ Tell(TRUE)
          \/ /\ real[i].on
             /\ \E s \in Sessions : real' = [real EXCEPT ![i].sess = IF s \in @ THEN @ \ {s} ELSE @ \cup {s}]
             /\ Tell(TRUE)

Init ==
  /\ \E b \in Ids : real = <<[Bridge(b) EXCEPT !.on = TRUE, !.sess = Sessions]>>
  /\ conn = FALSE /\ up = <<>> /\ down = <<>> /\ evs = <<>> /\ st = Idle
  /\ shown = {} /\ sel = {} /\ at = 0 /\ folds = <<>> /\ since = {} /\ fresh = {}
  /\ \E b \in Bounds : used = [changes |-> 0, adds |-> 0, losses |-> 0, keys |-> 0, frames |-> 0, bound |-> b]

Next == Open \/ Lost \/ on_event \/ answered \/ Key \/ submit \/ Handle \/ Change \/ Traffic
Spec == Init /\ [][Next]_vars
\* The loop runs, it connects again every 2 s, and the daemon answers.
LiveSpec == Spec /\ WF_vars(Open) /\ WF_vars(on_event) /\ WF_vars(answered) /\ WF_vars(Handle)

------------------------------------------------------------------------------

\* What is on the screen catches up with the daemon, without polling: with the last change that
\* it can know of, or a later moment, also when that change came while an earlier answer was on
\* its way.  It can't know of another client's change that sends no event, nor of one whose event
\* was dropped with no other state event in the queue: those show after the next change.
CaughtUp == shown # {} /\ shown \subseteq fresh
StatusCatchesUp == <>[]CaughtUp

====
