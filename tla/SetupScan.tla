------------------------------- MODULE SetupScan -------------------------------
(***************************************************************************)
(* Finding the radio in ktbctl setup (ctl/setup.rs): the scan that lists   *)
(* devices as they are found while the keyboard is read, the menu of what  *)
(* it found when nobody picked one in time, and the pairing that follows.  *)
(* Every prompt reads through read_line (ctl/run.rs): a thread reads one   *)
(* line when asked, and a line that comes when the prompt has given up     *)
(* goes to the next one.                                                   *)
(*                                                                         *)
(* A line is a number, 0 for an empty one, with the devices that it stood  *)
(* for on the screen when it was typed.  The daemon is its scan task and   *)
(* the two queues of the connection.                                       *)
(***************************************************************************)
EXTENDS Naturals, Sequences, FiniteSets, SequencesExt

CONSTANTS
  Devices,     \* what is in reach
  Likely,      \* the ones whose name starts with the radio's prefix
  Paired,      \* the ones paired already; all of them over Bluetooth LE
  MaxLines, MaxScans

VARIABLES
  pc,      \* where the wizard is
  shown,   \* the devices listed while the scan runs
  found,   \* what the scan's answer lists
  picked,  \* the device picked, and what the line that picked it stood for
  asked,   \* Stdin::asked
  lines,   \* Stdin::lines
  tty,     \* lines typed and not read yet
  up, down, \* the connection: commands, events and answers
  scan,    \* the daemon's scan: none, running, stopped
  heard,   \* what it heard, and which of these had a name by then
  used     \* crossed: a line was on its way when the scan ended

vars == <<pc, shown, found, picked, asked, lines, tty, up, down, scan, heard, used>>

Prompts == {"ready", "looking", "menu"}
Spend(what, max) == used[what] < max /\ used' = [used EXCEPT ![what] = @ + 1]

\* The index of the first likely device of a list, if there is one.
likely_device(list) ==
  LET is == {i \in DOMAIN list : list[i].dev \in Likely /\ list[i].named}
  IN  {i \in is : \A j \in is : i <= j}

\* What a line picks from the list, by number or as the default of an empty line.
Choice(list, n, default) == IF n = 0 THEN default ELSE {n} \cap DOMAIN list

DefaultOfMenu == IF likely_device(found) = {} THEN {1} ELSE likely_device(found)

------------------------------------------------------------------------------
\* The keyboard.

\* What a line typed now stands for: the device that the screen has at that number.
Meant(n) ==
  CASE pc = "looking" -> {shown[i].dev : i \in Choice(shown, n, likely_device(shown))}
    [] pc = "menu" -> {found[i].dev : i \in Choice(found, n, DefaultOfMenu) \cap DOMAIN found}
    [] OTHER -> {}

Type(n) ==
  /\ pc \in Prompts /\ tty = <<>> /\ lines = <<>>
  /\ n <= (CASE pc = "looking" -> Len(shown) + 1 [] pc = "menu" -> Len(found) + 1 [] OTHER -> 0)
  /\ Spend("lines", MaxLines)
  /\ tty' = <<[n |-> n, meant |-> Meant(n)]>>
  /\ UNCHANGED <<pc, shown, found, picked, asked, lines, up, down, scan, heard>>

\* The thread reads a line when asked for one.
Thread ==
  /\ asked /\ tty # <<>> /\ lines = <<>>
  /\ lines' = tty /\ tty' = <<>>
  /\ UNCHANGED <<pc, shown, found, picked, asked, up, down, scan, heard, used>>

\* A prompt takes its line, and the wizard goes on at `to`, where the next prompt asks anew.
read_line(to) ==
  /\ lines # <<>> /\ lines' = Tail(lines)
  /\ pc' = to /\ asked' = (to \in Prompts)
  /\ UNCHANGED <<tty, used>>

------------------------------------------------------------------------------
\* The wizard.

\* "Ready to look for it?", and the scan is sent for; or no.
Ready ==
  /\ pc = "ready"
  /\ \/ /\ used.scans < MaxScans /\ read_line("looking") /\ up' = Append(up, "scan")
        /\ shown' = <<>> /\ UNCHANGED <<found, picked, down, scan, heard>>
     \/ read_line("ended") /\ UNCHANGED <<shown, found, picked, up, down, scan, heard>>

PickIt(d) == picked' = {[dev |-> d, meant |-> Head(lines).meant]}

\* A device is picked while the scan runs; the scan is stopped, and waited for.
PickLooking ==
  /\ pc = "looking" /\ lines # <<>>
  /\ LET at == Choice(shown, Head(lines).n, likely_device(shown))
     IN  /\ at # {} /\ PickIt(shown[CHOOSE i \in at : TRUE].dev)
         /\ read_line("stopping") /\ up' = Append(up, "stop")
  /\ UNCHANGED <<shown, found, down, scan, heard>>

\* A line that names no device: the prompt comes back.
PickNone ==
  /\ pc = "looking" /\ lines # <<>>
  /\ Choice(shown, Head(lines).n, likely_device(shown)) = {} /\ read_line("looking")
  /\ UNCHANGED <<shown, found, picked, up, down, scan, heard>>

\* The end of input, or Control-C: the wizard stops, and its connection goes.
EndOfInput ==
  /\ pc = "looking" /\ pc' = "ended"
  /\ UNCHANGED <<shown, found, picked, asked, lines, tty, up, down, scan, heard, used>>

\* Variant with a defect: a likely device goes to the top of the list.
List_likely_first(e) ==
  IF e.dev \in Likely THEN <<e>> \o shown ELSE Append(shown, e)

\* The list on the screen with one more device.
List(e) == Append(shown, e)

\* A found event: listed once it has a name, and once.
Found ==
  /\ pc = "looking" /\ down # <<>> /\ Head(down).kind = "found"
  /\ LET e == [dev |-> Head(down).dev, named |-> Head(down).named]
     IN  shown' = IF e.named /\ \A i \in DOMAIN shown : shown[i].dev # e.dev THEN List(e) ELSE shown
  /\ down' = Tail(down)
  /\ UNCHANGED <<pc, found, picked, asked, lines, tty, up, scan, heard, used>>

\* The scan ran out first: a menu of all that it found.  The prompt that gave up has asked
\* the thread for a line, which goes to the menu.  A scan that failed ends the wizard.
ScanDone ==
  /\ pc = "looking" /\ down # <<>> /\ Head(down).kind = "answer"
  /\ pc' = (IF Head(down).ok THEN "menu" ELSE "ended") /\ found' = Head(down).list
  /\ down' = Tail(down) /\ used' = [used EXCEPT !.crossed = @ \/ tty # <<>> \/ lines # <<>>]
  /\ UNCHANGED <<shown, picked, asked, lines, tty, up, scan, heard>>

\* "Which is it?", with "Look again" at the end; another number asks again.
Menu ==
  /\ pc = "menu" /\ lines # <<>>
  /\ LET n == Head(lines).n
         at == IF n = 0 THEN DefaultOfMenu ELSE {n} \cap 1..(Len(found) + 1)
     IN  IF at = {} THEN read_line("menu") /\ UNCHANGED picked
         ELSE LET i == CHOOSE i \in at : TRUE
              IN  IF i <= Len(found) THEN PickIt(found[i].dev) /\ read_line("picked")
                                     ELSE read_line("ready") /\ UNCHANGED picked
  /\ UNCHANGED <<shown, found, up, down, scan, heard>>

\* After the stop, everything but the scan's answer is passed over.
Stopping ==
  /\ pc = "stopping" /\ down # <<>>
  /\ pc' = CASE Head(down).kind = "found" -> pc
             [] Head(down).ok -> "picked"
             [] OTHER -> "ended"
  /\ down' = Tail(down)
  /\ UNCHANGED <<shown, found, picked, asked, lines, tty, up, scan, heard, used>>

\* finish_bluetooth: the device is paired unless it is; setup_ble never pairs.
Finish ==
  /\ pc = "picked"
  /\ IF \A p \in picked : p.dev \in Paired
       THEN pc' = "set up" /\ UNCHANGED up
       ELSE pc' = "pairing" /\ up' = Append(up, "pair")
  /\ UNCHANGED <<shown, found, picked, asked, lines, tty, down, scan, heard, used>>

PairAnswered ==
  /\ pc = "pairing" /\ down # <<>>
  /\ pc' = IF Head(down).kind = "answer" THEN IF Head(down).ok THEN "set up" ELSE "ended" ELSE pc
  /\ down' = Tail(down)
  /\ UNCHANGED <<shown, found, picked, asked, lines, tty, up, scan, heard, used>>

------------------------------------------------------------------------------
\* The daemon.

Answer(ok, list) == [kind |-> "answer", ok |-> ok, list |-> list]

\* A command: a scan starts, where one that is refused is one that fails at once; or it is told to
\* stop, and the wizard passes over the answer to that; a pairing needs the adapter, and may fail.
Handle ==
  /\ up # <<>> /\ up' = Tail(up)
  /\ CASE Head(up) = "scan" -> /\ scan' = "running" /\ heard' = {} /\ used' = [used EXCEPT !.scans = @ + 1]
                               /\ UNCHANGED down
       [] Head(up) = "stop" -> /\ scan' = IF scan = "running" THEN "stopped" ELSE scan
                               /\ UNCHANGED <<down, heard, used>>
       [] Head(up) = "pair" -> /\ \E ok \in BOOLEAN : (ok => scan = "none") /\ down' = Append(down, Answer(ok, <<>>))
                               /\ UNCHANGED <<scan, heard, used>>
  /\ UNCHANGED <<pc, shown, found, picked, asked, lines, tty>>

\* A device is heard, or heard again with its name.
Hear(d, named) ==
  /\ scan = "running" /\ \A h \in heard : h.dev = d => (named /\ ~h.named)
  /\ heard' = {h \in heard : h.dev # d} \cup {[dev |-> d, named |-> named]}
  /\ down' = Append(down, [kind |-> "found", dev |-> d, named |-> named])
  /\ UNCHANGED <<pc, shown, found, picked, asked, lines, tty, up, scan, used>>

\* The scan was stopped, its time is over or it fails: it is answered with all that it
\* heard, likely TNCs and strong signals first.
Over ==
  /\ scan' = "none"
  /\ \/ \E list \in SetToSeqs(heard) : down' = Append(down, Answer(TRUE, list))
     \/ down' = Append(down, Answer(FALSE, <<>>))
  /\ UNCHANGED <<pc, shown, found, picked, asked, lines, tty, up, heard, used>>

Stopped == scan = "stopped" /\ Over
TimeOver == scan = "running" /\ Over

------------------------------------------------------------------------------
Init ==
  /\ pc = "ready" /\ shown = <<>> /\ found = <<>> /\ picked = {}
  /\ asked = TRUE /\ lines = <<>> /\ tty = <<>> /\ up = <<>> /\ down = <<>>
  /\ scan = "none" /\ heard = {} /\ used = [lines |-> 0, scans |-> 0, crossed |-> FALSE]

Wizard == Ready \/ PickLooking \/ PickNone \/ Found \/ ScanDone \/ Menu \/ Stopping \/ Finish \/ PairAnswered

Next ==
  \/ Wizard \/ EndOfInput \/ Thread \/ Handle \/ Stopped \/ TimeOver
  \/ \E n \in 0..(Cardinality(Devices) + 1) : Type(n)
  \/ \E d \in Devices, named \in BOOLEAN : Hear(d, named)

Spec == Init /\ [][Next]_vars

------------------------------------------------------------------------------

\* The device that is set up is the one that stood at the number when it was typed, however
\* many devices were found before the line was read (pick_device, menu), unless the scan
\* ended under the line: read_line then gives it to the menu, which has its own order.
PickedAsShown == ~used.crossed => \A p \in picked : p.meant # {} => p.dev \in p.meant

=============================================================================
