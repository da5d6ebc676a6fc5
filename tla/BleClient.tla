------------------------------ MODULE BleClient ------------------------------
(***************************************************************************)
(* A TNC over Bluetooth LE (port/ble_client.rs): connect tasks and links   *)
(* of one TNC, one after the other, and the LE connection they share.      *)
(* BlueZ has one connection to the device whoever asked for it, and        *)
(* letting go of a link is a disconnect that a task of its own makes       *)
(* later.                                                                  *)
(***************************************************************************)
EXTENDS Integers, FiniteSets

CONSTANTS
  Tasks,     \* bound: connect tasks and links alive at once
  Aborts,    \* bound: connects the bridge aborts
  LetGos,    \* bound: links the bridge lets go, to stay idle or to restart
  Pending,   \* bound: spawned disconnects still to be made when a connect starts
  Failures   \* bound: failed calls, time-outs, lost connections, phones

VARIABLES
  task,     \* each task: where its connect or its link is
  wanted,   \* does the bridge want a link?
  tried,    \* BleConnector.tried_power
  powered,  \* is the adapter on?
  known,    \* does BlueZ know the device?
  dialing,  \* is a connect call of ours under way at BlueZ?
  le,       \* is there an LE connection to the TNC?
  discs,    \* spawned disconnects not yet made
  used      \* the budgets spent
vars == <<task, wanted, tried, powered, known, dialing, le, discs, used>>

Ids == 1..Tasks
\* Where a task uses the LE connection, or means to.
Opening == {"dial", "resolve", "acquire"}
Holding == {"init", "up", "closing"}
At(c, p) == task[c] = p
Go(c, p) == task' = [task EXCEPT ![c] = p]
Spend(what) == used' = [used EXCEPT ![what] = @ + 1]
MayFail == used.failures < Failures
Connecting == {c \in Ids: task[c] \notin {"none", "up", "closing"}}

-----------------------------------------------------------------------------
(* The bridge. *)

\* start_connect: at once after a restart or a wish for the link; after a
\* failure, when the backoff is over.  Neither looks at the disconnects.
Start ==
  /\ wanted /\ Connecting = {} /\ \A c \in Ids: ~At(c, "up")
  /\ discs <= Pending
  /\ \E c \in Ids: At(c, "none") /\ Go(c, "adapter")
  /\ UNCHANGED <<wanted, tried, powered, known, dialing, le, discs, used>>

Want == ~wanted /\ wanted' = TRUE /\ UNCHANGED <<task, tried, powered, known, dialing, le, discs, used>>

\* close of a link that is up: its writer says goodbye before the link is
\* dropped.  The port restarts, or the bridge goes idle.
LetGo ==
  /\ used.letgos < LetGos /\ Spend("letgos")
  /\ \E c \in Ids: At(c, "up") /\ Go(c, "closing")
  /\ wanted' \in BOOLEAN
  /\ UNCHANGED <<tried, powered, known, dialing, le, discs>>

\* close of a connect: the task is aborted where it is.  Only a link it has
\* already made disconnects when it is dropped.
Abort ==
  /\ used.aborts < Aborts /\ Spend("aborts")
  /\ \E c \in Connecting: Go(c, "none") /\ discs' = discs + IF At(c, "init") THEN 1 ELSE 0
  /\ wanted' \in BOOLEAN
  /\ UNCHANGED <<tried, powered, known, dialing, le>>

-----------------------------------------------------------------------------
(* connect *)

\* The adapter, powered on at the first connect if it is off.
Adapter(c) ==
  /\ At(c, "adapter")
  /\ tried' = TRUE
  /\ \/ powered /\ Go(c, "find") /\ UNCHANGED <<powered, used>>
     \/ ~powered /\ ~tried /\ powered' = TRUE /\ Go(c, "find") /\ UNCHANGED used
     \/ ~powered /\ tried /\ Go(c, "none") /\ UNCHANGED <<powered, used>>
     \/ MayFail /\ Go(c, "none") /\ Spend("failures") /\ UNCHANGED powered
  /\ UNCHANGED <<wanted, known, dialing, le, discs>>

\* Variant with a defect: the TNC is always scanned for.
Find_scans(c) ==
  /\ At(c, "find")
  /\ IF ~le THEN known' = TRUE /\ Go(c, "dial") ELSE Go(c, "none") /\ UNCHANGED known
  /\ UNCHANGED <<wanted, tried, powered, dialing, le, discs, used>>

\* find_device: BlueZ knows it, or a scan hears it; it advertises while
\* nothing is connected to it.
Find(c) ==
  /\ At(c, "find")
  /\ \/ known /\ Go(c, IF le THEN "resolve" ELSE "dial") /\ UNCHANGED <<known, used>>
     \/ ~known /\ ~le /\ known' = TRUE /\ Go(c, "dial") /\ UNCHANGED used
     \/ ~known /\ (le \/ MayFail) /\ Go(c, "none") /\ UNCHANGED known
        /\ used' = IF le THEN used ELSE [used EXCEPT !.failures = @ + 1]
  /\ UNCHANGED <<wanted, tried, powered, dialing, le, discs>>

\* A step of open failed: the half-set-up connection is dropped.
Fails(c) == Go(c, "none") /\ discs' = discs + 1

\* device.connect: BlueZ goes on with it even if no one waits any more.
Dial(c) ==
  /\ At(c, "dial") /\ ~dialing
  /\ IF le THEN Go(c, "resolve") /\ UNCHANGED <<dialing, discs>>
     ELSE IF ~known THEN Fails(c) /\ UNCHANGED dialing
     ELSE dialing' = TRUE /\ UNCHANGED <<task, discs>>
  /\ UNCHANGED <<wanted, tried, powered, known, le, used>>
Dialed ==
  /\ dialing /\ dialing' = FALSE
  /\ \/ /\ le' = TRUE
        /\ task' = [c \in Ids |-> IF At(c, "dial") THEN "resolve" ELSE task[c]]
        /\ UNCHANGED <<discs, used>>
     \/ /\ MayFail /\ Spend("failures") /\ UNCHANGED le
        /\ IF \E c \in Ids: At(c, "dial") THEN \E c \in Ids: At(c, "dial") /\ Fails(c)
           ELSE UNCHANGED <<task, discs>>
  /\ UNCHANGED <<wanted, tried, powered, known>>

\* services_resolved: the services are read, or the connection went.
Resolve(c) ==
  /\ At(c, "resolve")
  /\ \/ le /\ Go(c, "acquire") /\ UNCHANGED <<discs, used>>
     \/ ~le /\ Fails(c) /\ UNCHANGED used
     \/ MayFail /\ Fails(c) /\ Spend("failures")
  /\ UNCHANGED <<wanted, tried, powered, known, dialing, le>>

\* kiss_characteristics, notify_io and write_io: one holder at a time.
Acquire(c) ==
  /\ At(c, "acquire")
  /\ IF le /\ \A d \in Ids: task[d] \notin Holding THEN Go(c, "init") /\ UNCHANGED <<discs, used>>
     ELSE Fails(c) /\ UNCHANGED used
  /\ UNCHANGED <<wanted, tried, powered, known, dialing, le>>
AcquireFails(c) ==
  /\ At(c, "acquire") /\ MayFail /\ Fails(c) /\ Spend("failures")
  /\ UNCHANGED <<wanted, tried, powered, known, dialing, le>>

\* BleLink::drop: the disconnect is spawned.
DropLink(c) == Go(c, "none") /\ discs' = discs + 1

\* tnc_init::init over the link: if it fails, the link is dropped.
KissInit(c) ==
  /\ At(c, "init")
  /\ \/ le /\ Go(c, "up") /\ UNCHANGED <<discs, used>>
     \/ ~le /\ DropLink(c) /\ UNCHANGED used
     \/ MayFail /\ DropLink(c) /\ Spend("failures")
  /\ UNCHANGED <<wanted, tried, powered, known, dialing, le>>

\* The link is dropped: its writer is done, or its connection went.
Over(c) ==
  /\ At(c, "closing") \/ (At(c, "up") /\ ~le)
  /\ DropLink(c)
  /\ UNCHANGED <<wanted, tried, powered, known, dialing, le, used>>

\* A spawned disconnect is made: it ends whatever connection there is.
Disconnect ==
  /\ discs > 0 /\ discs' = discs - 1 /\ le' = FALSE
  /\ UNCHANGED <<task, wanted, tried, powered, known, dialing, used>>

-----------------------------------------------------------------------------
\* The TNC goes out of range, BlueZ forgets it, someone turns the adapter off
\* and on again.
Fault ==
  /\ MayFail /\ Spend("failures")
  /\ \/ le /\ le' = FALSE /\ UNCHANGED <<known, powered>>
     \/ known /\ ~le /\ ~dialing /\ known' = FALSE /\ UNCHANGED <<le, powered>>
     \/ powered' = ~powered /\ le' = FALSE /\ UNCHANGED known
  /\ UNCHANGED <<task, wanted, tried, dialing, discs>>

Init ==
  /\ task = [c \in Ids |-> "none"] /\ wanted = TRUE /\ tried = FALSE
  /\ powered \in BOOLEAN /\ known \in BOOLEAN
  /\ dialing = FALSE /\ le = FALSE /\ discs = 0
  /\ used = [aborts |-> 0, letgos |-> 0, failures |-> 0]

TaskStep(c) ==
  Adapter(c) \/ Find(c) \/ Dial(c) \/ Resolve(c) \/ Acquire(c) \/ AcquireFails(c) \/ KissInit(c) \/ Over(c)
Next == Start \/ Want \/ LetGo \/ Abort \/ Dialed \/ Disconnect \/ Fault \/ \E c \in Ids: TaskStep(c)

\* The runtime runs its tasks, spawned disconnects included; the bridge tries
\* again while it wants a link; BlueZ ends a connect it has begun.
Spec ==
  /\ Init /\ [][Next]_vars
  /\ WF_vars(Start) /\ WF_vars(Dialed) /\ WF_vars(Disconnect)
  /\ \A c \in Ids: WF_vars(TaskStep(c))

-----------------------------------------------------------------------------

\* A bridge that goes on wanting its link gets it, and past the last fault keeps it, whatever
\* an abandoned connect or the disconnect of an earlier link does to the connection in between
\* (BleLink::drop).  Left out is a bridge whose connects again and again start before the last
\* disconnect was made: each may end the link after it.
UpForGood == (<>[]wanted) => (<>[](\E c \in Ids: At(c, "up")) \/ []<>(~powered) \/ []<><<Start /\ discs > 0>>_vars)
=============================================================================
