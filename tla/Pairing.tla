------------------------------ MODULE Pairing ------------------------------
(***************************************************************************)
(* The bluetooth.* commands (bluetooth() of supervisor.rs, pairing.rs):    *)
(* scans and pairings run in tasks of their own, one at a time, and answer *)
(* when they are done; a pairing asks the person who started it through    *)
(* events of their connection and bluetooth.pair_reply commands, which the *)
(* daemon's loop hands to it through a channel.                            *)
(*                                                                         *)
(* A request stands for the connection and the id it was sent with.  A     *)
(* reply is marked with the prompt that the person gave it to.  BlueZ and  *)
(* the radio decide what a pairing asks and how it ends.                   *)
(***************************************************************************)
EXTENDS Naturals, Sequences, FiniteSets, TLC

CONSTANTS
  Scans, Pairs, \* the requests: what is scanned, and what is paired
  Device,       \* the device that each pairing is for
  Devices,      \* the devices around
  StepQueue,    \* steps queued for a pairing's connection (8 in the code)
  ReplyQueue,   \* replies queued for a pairing (4 in the code)
  Bounds        \* one of which holds: the requests that are made, how many prompts a pairing
                \* may need, how many replies are sent, and how often BlueZ has news of a device

VARIABLES
  task,      \* task[r]: where the request's task is, and what it has
  lock,      \* bt_busy: the request that holds it, if any
  pairings,  \* the pairings that a reply can reach
  scans,     \* the scans in the table, those cancelled, and those asked to stop
  person,    \* for each pairing: the prompts that the person sees, those they gave a reply to,
             \* and whether a reply was odd: given to no prompt, or to one that had its reply
  answer,    \* answer[r]: what the requester was told
  loop,      \* the reply that the daemon's loop is sending, if it waits
  open,      \* the requests whose connection is open
  bluez,     \* for each device: known, named, heard, paired, trusted
  used

vars == <<task, lock, pairings, scans, person, answer, loop, open, bluez, used>>

Requests == Scans \cup Pairs
Spend(what) == used[what] < used.bound[what] /\ used' = [used EXCEPT ![what] = @ + 1]

\* The last prompt: its number, and whether it waits for room in `steps`, for a
\* reply, or was answered; `to` is the prompt that the answer was given to, and `said`
\* what it said.
NoAsk == [n |-> 0, at |-> "none", to |-> 0, said |-> FALSE]
New == [pc |-> "new", tries |-> 0, asks |-> 0, ask |-> NoAsk, steps |-> <<>>, replies |-> <<>>,
        heard |-> <<>>]

\* The tasks that hold the lock.
Active(r) == task[r].pc \in {"start", "find", "known", "pair", "again", "trust", "scan"}

------------------------------------------------------------------------------
\* The daemon's loop.

\* bluetooth.scan and bluetooth.pair: a task is spawned, unless there is no such
\* adapter or device.
Request(r) ==
  /\ loop = {} /\ r \in open /\ task[r].pc = "new"
  /\ \/ task' = [task EXCEPT ![r].pc = "spawned"] /\ UNCHANGED answer
     \/ task' = [task EXCEPT ![r].pc = "done"] /\ answer' = [answer EXCEPT ![r] = "failed"]
  /\ UNCHANGED <<lock, pairings, scans, person, loop, open, bluez, used>>

\* The task takes the lock, or answers that another one runs.
try_lock(r) ==
  /\ task[r].pc = "spawned"
  /\ \/ /\ lock # {}
        /\ task' = [task EXCEPT ![r].pc = "done"] /\ answer' = [answer EXCEPT ![r] = "busy"]
        /\ UNCHANGED <<lock, pairings, scans>>
     \/ /\ lock = {}
        /\ lock' = {r} /\ task' = [task EXCEPT ![r].pc = "start"]
        /\ pairings' = IF r \in Pairs THEN pairings \cup {r} ELSE pairings
        /\ scans' = IF r \in Scans THEN [scans EXCEPT !.table = @ \cup {r}] ELSE scans
        /\ UNCHANGED answer
  /\ UNCHANGED <<person, loop, open, bluez, used>>

\* bluetooth.scan_stop: a scan that isn't in the table is not found.
ScanStop(r) ==
  /\ loop = {} /\ r \in open \cap Scans /\ task[r].pc # "new" /\ r \notin scans.asked
  /\ scans' = [scans EXCEPT !.stopped = IF r \in scans.table THEN @ \cup {r} ELSE @,
                            !.asked = @ \cup {r}]
  /\ UNCHANGED <<task, lock, pairings, person, answer, loop, open, bluez, used>>

\* bluetooth.pair_reply: the loop itself waits for room in the channel.  It is sent
\* after prompt n, or before any.
PairReply(r, n, accept) ==
  /\ loop = {} /\ r \in open \cap pairings /\ Spend("replies")
  /\ LET reply == [to |-> n, accept |-> accept]
     IN  IF Len(task[r].replies) < ReplyQueue
         THEN task' = [task EXCEPT ![r].replies = Append(@, reply)] /\ UNCHANGED loop
         ELSE loop' = {[request |-> r, reply |-> reply]} /\ UNCHANGED task
  /\ LET odd == n = 0 \/ n \in person[r].told
     IN  person' = [person EXCEPT ![r] = [sees |-> @.sees, told |-> @.told \cup {n}, odd |-> @.odd \/ odd]]
  /\ UNCHANGED <<lock, pairings, scans, answer, open, bluez>>

\* There is room, or the pairing is over and the send fails.
PairReplySent ==
  /\ \E l \in loop :
       \/ /\ task[l.request].pc \in {"ending", "done"} /\ UNCHANGED task
       \/ /\ task[l.request].pc \notin {"ending", "done"} /\ Len(task[l.request].replies) < ReplyQueue
          /\ task' = [task EXCEPT ![l.request].replies = Append(@, l.reply)]
  /\ loop' = {}
  /\ UNCHANGED <<lock, pairings, scans, person, answer, open, bluez, used>>

\* bluetooth.unpair acts at once, on any device that BlueZ knows.
unpair(d) ==
  /\ loop = {} /\ bluez[d].known /\ Spend("news")
  /\ bluez' = [bluez EXCEPT ![d] = [@ EXCEPT !.known = FALSE, !.paired = FALSE, !.trusted = FALSE, !.named = FALSE]]
  /\ UNCHANGED <<task, lock, pairings, scans, person, answer, loop, open>>

\* The end of a task: its entry goes, and the requester is answered.
End(r, what) ==
  /\ task' = [task EXCEPT ![r] = [New EXCEPT !.pc = "ending", !.ask = task[r].ask, !.heard = task[r].heard]]
  /\ answer' = [answer EXCEPT ![r] = what]
  /\ pairings' = pairings \ {r} /\ scans' = [scans EXCEPT !.table = @ \ {r}]
  /\ UNCHANGED <<lock, person, loop, open, used>>

\* The guard of the lock is dropped after the answer is sent.
Release(r) ==
  /\ task[r].pc = "ending" /\ lock' = {} /\ task' = [task EXCEPT ![r].pc = "done"]
  /\ UNCHANGED <<pairings, scans, person, answer, loop, open, bluez, used>>

------------------------------------------------------------------------------
\* pairing::scan.

\* Discovery starts, or can't.
Discover(r) ==
  /\ r \in Scans /\ task[r].pc = "start"
  /\ \/ /\ task' = [task EXCEPT ![r].pc = "scan"]
        /\ UNCHANGED <<lock, pairings, scans, person, answer, loop, open, used>>
     \/ End(r, "failed")
  /\ UNCHANGED bluez

\* Whether there is news of a device: it is new, or its name or pairing changed.
found(r, d) ==
  d \in DOMAIN task[r].heard => task[r].heard[d] # [named |-> bluez[d].named, paired |-> bluez[d].paired]

\* A device is heard in this scan.  Its connection is told when there is news (an event that
\* its full outbox drops, see ControlServer); one that is gone stops the scan.
DeviceAdded(r, d) ==
  /\ r \in Scans /\ task[r].pc = "scan" /\ r \notin scans.stopped /\ bluez[d].heard
  /\ LET now == d :> [named |-> bluez[d].named, paired |-> bluez[d].paired]
     IN  task' = [task EXCEPT ![r].heard = now @@ @]
  /\ scans' = IF found(r, d) /\ r \notin open THEN [scans EXCEPT !.stopped = @ \cup {r}] ELSE scans
  /\ UNCHANGED <<lock, pairings, person, answer, loop, open, bluez, used>>

\* Its time is up, or it is stopped.
ScanEnds(r) == r \in Scans /\ task[r].pc = "scan" /\ End(r, "ok") /\ UNCHANGED bluez

------------------------------------------------------------------------------
\* pairing::pair.

Pairer(r) == r \in Pairs /\ UNCHANGED <<lock, pairings, scans, person, answer, loop, open, used>>

\* A step that needs no reply is dropped when the channel is full.
tell(r, pc) == task' = [task EXCEPT ![r].pc = pc,
                          ![r].steps = IF Len(@) < StepQueue THEN Append(@, 0) ELSE @]

\* A device that BlueZ doesn't know is looked for first.
Begin(r) ==
  /\ task[r].pc = "start" /\ Pairer(r) /\ UNCHANGED bluez
  /\ IF bluez[Device[r]].known THEN task' = [task EXCEPT ![r].pc = "known"] ELSE tell(r, "find")

find(r) ==
  /\ task[r].pc = "find"
  /\ \/ /\ bluez' = [bluez EXCEPT ![Device[r]].known = TRUE]
        /\ task' = [task EXCEPT ![r].pc = "known"] /\ Pairer(r)
     \/ End(r, "failed") /\ UNCHANGED bluez

\* One that is paired is only marked trusted, if that works.
Known(r) ==
  /\ task[r].pc = "known"
  /\ \/ /\ bluez[Device[r]].paired /\ End(r, "ok")
        /\ bluez' \in {bluez, [bluez EXCEPT ![Device[r]].trusted = TRUE]}
     \/ ~bluez[Device[r]].paired /\ tell(r, "pair") /\ Pairer(r) /\ UNCHANGED bluez

\* BlueZ asks the agent: the prompt is queued for the connection.
ask(r) ==
  /\ task[r].pc = "pair" /\ task[r].ask.at \in {"none", "accepted"} /\ task[r].asks < used.bound.asks
  /\ task' = [task EXCEPT ![r].asks = @ + 1, ![r].ask = [NoAsk EXCEPT !.n = task[r].asks + 1, !.at = "steps"]]
  /\ Pairer(r) /\ UNCHANGED bluez

\* There is room for the prompt.
AskQueued(r) ==
  /\ task[r].ask.at = "steps" /\ task[r].pc = "pair" /\ Len(task[r].steps) < StepQueue
  /\ task' = [task EXCEPT ![r].steps = Append(@, task[r].ask.n), ![r].ask.at = "reply"]
  /\ Pairer(r) /\ UNCHANGED bluez

\* The next reply in the channel answers the prompt: it has what was asked for, or
\* refuses.
Replied(r) ==
  /\ task[r].ask.at = "reply" /\ task[r].pc = "pair" /\ task[r].replies # <<>>
  /\ LET reply == Head(task[r].replies)
     IN  task' = [task EXCEPT ![r].ask.at = IF reply.accept THEN "accepted" ELSE "refused",
                              ![r].ask.to = reply.to, ![r].ask.said = reply.accept, ![r].replies = Tail(@)]
  /\ Pairer(r) /\ UNCHANGED bluez

\* Variant with a defect: the agent lets BlueZ ask again.
AskCancelled_again(r) ==
  /\ task[r].ask.at \in {"steps", "reply"} /\ task[r].pc = "pair"
  /\ task' = [task EXCEPT ![r].ask.at = "none"]
  /\ Pairer(r) /\ UNCHANGED bluez

\* The prompt isn't answered in time, can't be sent, or BlueZ gives it up.
AskCancelled(r) ==
  /\ task[r].ask.at \in {"steps", "reply"} /\ task[r].pc = "pair"
  /\ task' = [task EXCEPT ![r].ask.at = "refused"]
  /\ Pairer(r) /\ UNCHANGED bluez

\* The pairing succeeds: with nothing asked, or what was asked accepted.
Paired(r) ==
  /\ task[r].pc = "pair" /\ task[r].ask.at \in {"none", "accepted"}
  /\ bluez' = [bluez EXCEPT ![Device[r]].paired = TRUE]
  /\ task' = [task EXCEPT ![r].pc = "trust"] /\ Pairer(r)

\* The first attempt can't connect: one more, after a second.
Unreached(r) ==
  /\ task[r].pc = "pair" /\ task[r].tries = 0 /\ task[r].ask = NoAsk
  /\ task' = [task EXCEPT ![r].tries = 1, ![r].pc = "again"]
  /\ Pairer(r) /\ UNCHANGED bluez

Again(r) ==
  /\ task[r].pc = "again" /\ task' = [task EXCEPT ![r].pc = "pair"] /\ Pairer(r) /\ UNCHANGED bluez

\* Variant with a defect: an open prompt holds the timeout up.
PairFails_unasked(r) ==
  /\ task[r].pc \in {"pair", "again"} /\ task[r].ask.at # "reply" /\ End(r, "failed") /\ UNCHANGED bluez

\* It fails, or isn't done within PAIR_TIMEOUT.
PairFails(r) == task[r].pc \in {"pair", "again"} /\ End(r, "failed") /\ UNCHANGED bluez

Trusted(r) ==
  /\ task[r].pc = "trust"
  /\ \/ End(r, "ok") /\ bluez' = [bluez EXCEPT ![Device[r]].trusted = TRUE]
     \/ End(r, "failed") /\ UNCHANGED bluez

------------------------------------------------------------------------------
\* Around them.

\* The task that forwards a pairing's steps to its connection.
Forward(r) ==
  /\ r \in Pairs /\ task[r].steps # <<>>
  /\ task' = [task EXCEPT ![r].steps = Tail(@)]
  /\ person' = IF r \in open THEN [person EXCEPT ![r].sees = @ \cup ({Head(task[r].steps)} \ {0})] ELSE person
  /\ UNCHANGED <<lock, pairings, scans, answer, loop, open, bluez, used>>

\* BlueZ hears of a device, or learns its name.
News(d) ==
  /\ Spend("news")
  /\ bluez' \in {[bluez EXCEPT ![d].known = TRUE, ![d].heard = TRUE], [bluez EXCEPT ![d].known = TRUE, ![d].heard = TRUE, ![d].named = TRUE]}
  /\ bluez' # bluez
  /\ UNCHANGED <<task, lock, pairings, scans, person, answer, loop, open>>

Disconnect(r) ==
  /\ r \in open /\ open' = open \ {r}
  /\ UNCHANGED <<task, lock, pairings, scans, person, answer, loop, bluez, used>>

Init ==
  /\ task = [r \in Requests |-> New] /\ lock = {} /\ pairings = {} /\ scans = [table |-> {}, stopped |-> {}, asked |-> {}]
  /\ person = [r \in Pairs |-> [sees |-> {}, told |-> {}, odd |-> FALSE]] /\ answer = [r \in Requests |-> "none"] /\ loop = {}
  /\ bluez = [d \in Devices |-> [known |-> FALSE, named |-> FALSE, heard |-> FALSE, paired |-> FALSE, trusted |-> FALSE]]
  /\ \E bound \in Bounds : open = bound.requests /\ used = [bound |-> bound, replies |-> 0, news |-> 0]

Next ==
  \/ PairReplySent
  \/ \E d \in Devices : unpair(d) \/ News(d)
  \/ \E r \in Requests : Request(r) \/ try_lock(r) \/ Release(r) \/ Disconnect(r)
  \/ \E r \in Scans : ScanStop(r) \/ Discover(r) \/ ScanEnds(r) \/ \E d \in Devices : DeviceAdded(r, d)
  \/ \E r \in Pairs :
       \/ Begin(r) \/ find(r) \/ Known(r) \/ ask(r) \/ AskQueued(r) \/ Replied(r) \/ AskCancelled(r)
       \/ Paired(r) \/ Unreached(r) \/ Again(r) \/ PairFails(r) \/ Trusted(r) \/ Forward(r)
       \/ \E n \in person[r].sees \cup {0}, accept \in BOOLEAN : PairReply(r, n, accept)

Spec == Init /\ [][Next]_vars

\* Tasks go on, and every wait of theirs has a timeout: the scan's seconds, FIND_TIMEOUT
\* and PAIR_TIMEOUT.  Nothing is assumed of BlueZ, of the person or of the radio.
GoesOn(r) ==
  \/ try_lock(r) \/ Release(r) \/ Discover(r) \/ ScanEnds(r)
  \/ Begin(r) \/ find(r) \/ Known(r) \/ PairFails(r) \/ Trusted(r)

Fair == WF_vars(PairReplySent) /\ \A r \in Requests : WF_vars(GoesOn(r))

LiveSpec == Spec /\ Fair

------------------------------------------------------------------------------

\* One scan or pairing runs at a time, and it is the one that holds bt_busy: a request
\* that came while it ran never touches the adapter's discovery filter or its pairing.
OneAtATime == Cardinality(lock) <= 1 /\ \A r \in Requests : Active(r) \/ task[r].pc = "ending" <=> r \in lock

\* The tables hold exactly what a pair_reply or a scan_stop can reach: an entry goes
\* with its task on every way out, so that no later reply is sent to a dead pairing.
TablesFollow == \A r \in Requests : r \in pairings \cup scans.table <=> Active(r)

\* Every prompt that is accepted was accepted by the very reply that the person gave to it
\* (late, across prompts, while the loop waited for room), and a pairing that asked is paired
\* only so.  Replies name no prompt: ask() takes the next one of the channel, so this is
\* promised to a person who gives each prompt that they see one reply at most, and none unasked.
PairedByReply ==
  \A r \in Pairs : Active(r) =>
    /\ task[r].pc = "trust" => task[r].asks = 0 \/ task[r].ask.at = "accepted"
    /\ task[r].ask.at = "accepted" =>
         task[r].ask.said /\ (task[r].ask.to = task[r].asks \/ person[r].odd)

\* Every request is answered, whatever the radio and the person do: a wait has a
\* timeout, and the lock and the daemon's loop are free again.
EveryRequestAnswered ==
  \A r \in Requests : []<>(task[r].pc # "new" => task[r].pc = "done" /\ answer[r] # "none" /\ loop = {})
=============================================================================
