------------------------------- MODULE Activity -------------------------------
(***************************************************************************)
(* The activity coalescer of the event hub (control/events.rs): bytes are  *)
(* counted per object, and an object has at most one event per interval.   *)
(*                                                                         *)
(* Time is how long ago something was, up to the time after which it makes *)
(* no difference; an object stands for an object and a direction.          *)
(***************************************************************************)
EXTENDS Naturals, Sequences, FiniteSets, SequencesExt, TLC

CONSTANTS
  Objects,
  Raw,       \* the capacity of raw_activity (1024 in the code)
  Interval,  \* ACTIVITY_INTERVAL
  Quiet,     \* how long a quiet object is remembered (60 s)
  MaxCounts  \* how often bytes are counted

VARIABLES
  raw,      \* raw_activity: the objects with a byte each
  slots,    \* for each object that is remembered: the time since its last event, and its pending bytes
  due,      \* the time until the next tick
  wanted,   \* whether somebody subscribes
  counted, lost, told   \* for each object: bytes counted, bytes dropped, bytes in events

vars == <<raw, slots, due, wanted, counted, lost, told>>

\* Hub::activity, when wants_activity: dropped when the channel is full.
activity(o) ==
  /\ wanted /\ counted[o] < MaxCounts /\ counted' = [counted EXCEPT ![o] = @ + 1]
  /\ IF Len(raw) < Raw THEN raw' = Append(raw, o) /\ UNCHANGED lost
                       ELSE lost' = [lost EXCEPT ![o] = @ + 1] /\ UNCHANGED raw
  /\ UNCHANGED <<slots, due, wanted, told>>

\* The slot of an object, a new one ready for an event at once.
Slot(o) == IF o \in DOMAIN slots THEN slots[o] ELSE [last |-> Interval, pending |-> 0]

\* Variant with a defect: a slot starts again with the bytes that come.
count_anew(slot) == 1

count(slot) == slot.pending + 1

may_emit(slot) == slot.last >= Interval

emit(objects, bytes) ==
  told' = [o \in Objects |-> told[o] + (IF o \in objects THEN bytes[o] ELSE 0)]

Fresh == [last |-> 0, pending |-> 0]

Recv ==
  /\ raw # <<>> /\ raw' = Tail(raw)
  /\ LET o == Head(raw)
         slot == [Slot(o) EXCEPT !.pending = count(Slot(o))]
     IN  IF may_emit(slot)
         THEN slots' = (o :> Fresh) @@ slots /\ emit({o}, o :> slot.pending)
         ELSE slots' = (o :> slot) @@ slots /\ UNCHANGED told
  /\ UNCHANGED <<due, wanted, counted, lost>>

\* The objects whose pending bytes a tick reports.
Flushed == {o \in DOMAIN slots : slots[o].pending > 0 /\ may_emit(slots[o])}

\* A tick reports what is pending, and forgets objects that have been quiet a while.
\* One that comes late skips to the next in step, so the time to it varies.
Tick ==
  /\ due = 0 /\ due' \in 1..Interval
  /\ emit(Flushed, [o \in Flushed |-> slots[o].pending])
  /\ LET now == [o \in DOMAIN slots |-> IF o \in Flushed THEN Fresh ELSE slots[o]]
     IN  slots' = Restrict(now, {o \in DOMAIN now : now[o].pending > 0 \/ now[o].last < Quiet})
  /\ UNCHANGED <<raw, wanted, counted, lost>>

Later(t) == IF t < Quiet THEN t + 1 ELSE t

Advance ==
  /\ due > 0 \/ \E o \in DOMAIN slots : slots[o].last < Quiet
  /\ due' = IF due > 0 THEN due - 1 ELSE 0
  /\ slots' = [o \in DOMAIN slots |-> [slots[o] EXCEPT !.last = Later(@)]]
  /\ UNCHANGED <<raw, wanted, counted, lost, told>>

\* Somebody subscribes, or nobody does any more.
Subscribers == wanted' = ~wanted /\ UNCHANGED <<raw, slots, due, counted, lost, told>>

Init ==
  /\ raw = <<>> /\ slots = <<>> /\ due = 0 /\ wanted = FALSE
  /\ counted = [o \in Objects |-> 0] /\ lost = counted /\ told = counted

Next == (\E o \in Objects : activity(o)) \/ Recv \/ Tick \/ Advance \/ Subscribers

Spec == Init /\ [][Next]_vars

------------------------------------------------------------------------------
Queued(o) == Len(SelectSeq(raw, LAMBDA x : x = o))

\* No byte is forgotten or counted twice between the channel, the slots and the events,
\* also for an object that was quiet and comes back.
BytesConserved ==
  \A o \in Objects :
    counted[o] = lost[o] + Queued(o) + (IF o \in DOMAIN slots THEN slots[o].pending ELSE 0) + told[o]
====
