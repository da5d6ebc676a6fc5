------------------------------ MODULE SppClient ------------------------------
(***************************************************************************)
(* A TNC over Bluetooth Classic (port/spp_client.rs): the connect tasks a  *)
(* bridge starts and aborts one after the other, the daemon's one SPP      *)
(* profile with its table of waiters, and BlueZ, which makes the RFCOMM    *)
(* connection and hands it to the profile.  One TNC: one address.          *)
(***************************************************************************)
EXTENDS Integers, Sequences, FiniteSets

CONSTANTS
  Tasks,       \* bound: connect tasks alive or with a call at BlueZ at once
  Aborts,      \* bound: connects the bridge aborts
  Outages,     \* bound: adapter taken away or turned off, pairing removed
  Failures     \* bound: connects BlueZ or init fails, sockets lost, time-outs

ASSUME SppAssumption == Tasks \in Nat \ {0}

VARIABLES
  task,     \* each task: where it is, its oneshot channel, whether aborted
  waiters,  \* SppProfile.waiters for the address: at most one task
  tried,    \* SppConnector.tried_power
  host,     \* adapter present and powered, radio paired, RFCOMM channel configured
  calls,    \* the ConnectProfile calls BlueZ has, by task
  reqs,     \* connect requests on their way to the profile
  rfcomm,   \* is there an RFCOMM connection to the radio?
  last,     \* the task the bridge started last, if any
  raced,    \* history: did a connect start while an aborted one was not dropped yet?
  used      \* the budgets spent
vars == <<task, waiters, tried, host, calls, reqs, rfcomm, last, raced, used>>

Ids == 1..Tasks
Over == {"failed", "off", "unpaired", "gone", "dropped"}
NoTask == [at |-> "none", req |-> FALSE, err |-> FALSE, aborted |-> FALSE]
Live(c) == task[c].at \notin Over \cup {"none"}
Spend(what) == used' = [used EXCEPT ![what] = @ + 1]

At(c, p) == task[c].at = p
Go(c, p) == task' = [task EXCEPT ![c].at = p]

-----------------------------------------------------------------------------
(* The bridge: one connect at a time, the last one aborted on a restart. *)

\* start_connect, the task before it over or aborted: with the connector it
\* had, or on a restart of the port with a new one.  Nothing waits for the
\* runtime to drop an aborted task.
Start ==
  /\ \/ last = {} \/ \E c \in last: task[c].at \in Over \/ task[c].aborted
  /\ \E c \in Ids \ calls:
       /\ task[c].at \in Over \cup {"none"}
       /\ last' = {c}
       /\ task' = [task EXCEPT ![c] = [NoTask EXCEPT !.at = "adapter"]]
  /\ \/ UNCHANGED tried
     \/ (\E c \in last: task[c].aborted) /\ tried' = FALSE
  /\ raced' = (raced \/ \E c \in last: Live(c))
  /\ UNCHANGED <<waiters, host, calls, reqs, rfcomm, used>>

\* close: the connect is aborted; its task is dropped when the runtime
\* gets to it.
Abort ==
  /\ used.aborts < Aborts
  /\ \E c \in last: Live(c) /\ ~At(c, "up") /\ ~task[c].aborted /\ task' = [task EXCEPT ![c].aborted = TRUE]
  /\ Spend("aborts")
  /\ UNCHANGED <<waiters, tried, host, calls, reqs, rfcomm, last, raced>>

-----------------------------------------------------------------------------
(* connect: the adapter, its power, the pairing. *)

Adapter(c) ==
  /\ At(c, "adapter") /\ ~task[c].aborted
  /\ \/ ~host.present /\ Go(c, "failed") /\ UNCHANGED <<tried, host, used>>
     \/ host.present /\ host.powered /\ tried' = TRUE /\ Go(c, "paired") /\ UNCHANGED <<host, used>>
     \/ host.present /\ ~host.powered /\ tried /\ Go(c, "off") /\ UNCHANGED <<tried, host, used>>
     \/ /\ host.present /\ ~host.powered /\ ~tried /\ tried' = TRUE
        /\ \/ host' = [host EXCEPT !.powered = TRUE] /\ Go(c, "paired") /\ UNCHANGED used
           \/ used.failures < Failures /\ Go(c, "failed") /\ Spend("failures") /\ UNCHANGED host
  /\ UNCHANGED <<waiters, calls, reqs, rfcomm, last, raced>>

Paired(c) ==
  /\ At(c, "paired") /\ ~task[c].aborted
  /\ Go(c, IF ~host.paired THEN "unpaired" ELSE IF host.channel THEN "direct" ELSE "insert")
  /\ UNCHANGED <<waiters, tried, host, calls, reqs, rfcomm, last, used, raced>>

\* A configured channel: the RFCOMM socket is opened without the profile.
Direct(c) ==
  /\ At(c, "direct") /\ ~task[c].aborted
  /\ \/ ~rfcomm /\ rfcomm' = TRUE /\ Go(c, "init") /\ UNCHANGED used
     \/ used.failures < Failures /\ Go(c, "failed") /\ Spend("failures") /\ UNCHANGED rfcomm
  /\ UNCHANGED <<waiters, tried, host, calls, reqs, last, raced>>

\* Variant with a defect: ConnectProfile is called before the waiter is in
\* the table.
Insert_over(c) ==
  /\ At(c, "insert") /\ ~task[c].aborted
  /\ Go(c, "wait") /\ calls' = calls \cup {c}
  /\ UNCHANGED <<waiters, tried, host, reqs, rfcomm, last, used, raced>>

\* SppProfile::connect: one waiter per address, then ConnectProfile.
Insert(c) ==
  /\ At(c, "insert") /\ ~task[c].aborted
  /\ IF waiters # {} THEN Go(c, "failed") /\ UNCHANGED <<waiters, calls>>
     ELSE Go(c, "wait") /\ waiters' = {c} /\ calls' = calls \cup {c}
  /\ UNCHANGED <<tried, host, reqs, rfcomm, last, used, raced>>

\* WaiterGuard: the address's waiter is removed however the connect ends.
Guarded(c) == waiters' = IF At(c, "wait") THEN {} ELSE waiters

\* The request is in: its RFCOMM socket is taken.
Accept(c) ==
  /\ At(c, "wait") /\ ~task[c].aborted /\ task[c].req
  /\ Guarded(c)
  /\ \/ Go(c, "init") /\ UNCHANGED <<rfcomm, used>>
     \/ used.failures < Failures /\ Go(c, "failed") /\ rfcomm' = FALSE /\ Spend("failures")
  /\ UNCHANGED <<tried, host, calls, reqs, last, raced>>

\* The sender is gone without a request: "the SPP profile went away".
WentAway(c) ==
  /\ At(c, "wait") /\ ~task[c].aborted /\ ~task[c].req /\ c \notin waiters
  /\ Guarded(c) /\ Go(c, "gone")
  /\ UNCHANGED <<tried, host, calls, reqs, rfcomm, last, used, raced>>

\* ConnectProfile failed, or 30 s went by.
GiveUp(c) ==
  /\ At(c, "wait") /\ ~task[c].aborted
  /\ task[c].err \/ used.failures < Failures
  /\ used' = IF task[c].err THEN used ELSE [used EXCEPT !.failures = @ + 1]
  /\ Guarded(c)
  /\ rfcomm' = (rfcomm /\ ~task[c].req)
  /\ task' = [task EXCEPT ![c].at = "failed", ![c].req = FALSE]
  /\ UNCHANGED <<tried, host, calls, reqs, last, raced>>

\* tnc_init::init on the stream: the link is the bridge's, or it is dropped.
KissInit(c) ==
  /\ At(c, "init") /\ ~task[c].aborted
  /\ \/ Go(c, "up") /\ UNCHANGED <<rfcomm, used>>
     \/ used.failures < Failures /\ Go(c, "failed") /\ rfcomm' = FALSE /\ Spend("failures")
  /\ UNCHANGED <<waiters, tried, host, calls, reqs, last, raced>>

\* An aborted task is dropped: its guard runs, and the request or the stream
\* it holds is dropped with it.
Dropped(c) ==
  /\ task[c].aborted /\ Live(c)
  /\ Guarded(c)
  /\ rfcomm' = (rfcomm /\ ~(task[c].req \/ At(c, "init")))
  /\ task' = [task EXCEPT ![c].at = "dropped", ![c].req = FALSE]
  /\ UNCHANGED <<tried, host, calls, reqs, last, used, raced>>

\* The link is lost.
Lost(c) ==
  /\ At(c, "up") /\ used.failures < Failures
  /\ rfcomm' = FALSE /\ Go(c, "failed") /\ Spend("failures")
  /\ UNCHANGED <<waiters, tried, host, calls, reqs, last, raced>>

-----------------------------------------------------------------------------
(* The profile's task, and BlueZ. *)

\* Variant with a defect: a request nobody waits for is not rejected.
Deliver_kept ==
  /\ reqs > 0 /\ reqs' = reqs - 1
  /\ waiters' = {}
  /\ task' = [c \in Ids |-> IF c \in waiters THEN [task[c] EXCEPT !.req = TRUE] ELSE task[c]]
  /\ UNCHANGED <<tried, host, calls, rfcomm, last, used, raced>>

\* A connect request goes to the address's waiter, or is rejected.
Deliver ==
  /\ reqs > 0 /\ reqs' = reqs - 1
  /\ waiters' = {}
  /\ task' = [c \in Ids |-> IF c \in waiters THEN [task[c] EXCEPT !.req = TRUE] ELSE task[c]]
  /\ rfcomm' = (rfcomm /\ waiters # {})
  /\ UNCHANGED <<tried, host, calls, last, used, raced>>

\* BlueZ connects the profile and hands the socket over.  That the call then
\* returns, before or after, changes nothing.
BluezConnects(c) ==
  /\ c \in calls /\ ~rfcomm
  /\ rfcomm' = TRUE /\ reqs' = reqs + 1
  /\ calls' = calls \ {c}
  /\ UNCHANGED <<task, waiters, tried, host, last, used, raced>>

\* The call fails: the radio doesn't answer, or is connected already.
BluezFails(c) ==
  /\ c \in calls
  /\ rfcomm \/ used.failures < Failures
  /\ used' = IF rfcomm THEN used ELSE [used EXCEPT !.failures = @ + 1]
  /\ calls' = calls \ {c}
  /\ task' = [task EXCEPT ![c].err = TRUE]
  /\ UNCHANGED <<waiters, tried, host, reqs, rfcomm, last, raced>>

\* Someone unplugs the adapter or turns it off, or removes the pairing.
Outage ==
  /\ used.outages < Outages
  /\ host' \in {[host EXCEPT !.present = FALSE], [host EXCEPT !.powered = FALSE], [host EXCEPT !.paired = FALSE]}
  /\ host' # host
  /\ Spend("outages")
  /\ UNCHANGED <<task, waiters, tried, calls, reqs, rfcomm, last, raced>>

Init ==
  /\ task = [c \in Ids |-> NoTask]
  /\ waiters = {} /\ tried = FALSE
  /\ host \in [present: {TRUE}, powered: BOOLEAN, paired: {TRUE}, channel: BOOLEAN]
  /\ calls = {} /\ reqs = 0 /\ rfcomm = FALSE /\ last = {} /\ raced = FALSE
  /\ used = [aborts |-> 0, outages |-> 0, failures |-> 0]

TaskStep(c) == Adapter(c) \/ Paired(c) \/ Direct(c) \/ Insert(c) \/ Accept(c) \/ WentAway(c) \/ GiveUp(c) \/ KissInit(c) \/ Dropped(c)

Next ==
  \/ Start \/ Abort \/ Deliver \/ Outage
  \/ \E c \in Ids: TaskStep(c) \/ Lost(c) \/ BluezConnects(c) \/ BluezFails(c)

\* The runtime runs a task that can go on; the bridge tries again after a
\* failure; BlueZ answers its calls and hands over what it connects.
Spec ==
  /\ Init /\ [][Next]_vars
  /\ WF_vars(Start) /\ WF_vars(Deliver)
  /\ \A c \in Ids: WF_vars(TaskStep(c)) /\ WF_vars(BluezConnects(c) \/ BluezFails(c))

-----------------------------------------------------------------------------

\* A waiter in the table belongs to a connect that waits: whatever ends it,
\* abort included, it leaves no entry that refuses the next connect.
WaiterHasOwner == \A c \in waiters: At(c, "wait")

\* A connect that waits has its waiter in the table, or its request: each
\* connection goes to the port that asked for it.  A connect that is aborted
\* and not dropped before the next one can take the next one's waiter.
WaiterStands == ~raced => \A c \in Ids: At(c, "wait") /\ ~task[c].aborted => c \in waiters \/ task[c].req

\* The radio is never left connected with no one to use it: an RFCOMM
\* connection is held by a task, or is a request on its way to one.
NoStrayConnection ==
  rfcomm => reqs > 0 \/ \E c \in Ids: task[c].at \in {"init", "up"} \/ task[c].req

\* An adapter found off is powered on once; after that, it is off because
\* someone turned it off, and the port leaves it off.
PowerLeftAlone == [][tried => (host'.powered => host.powered)]_vars

=============================================================================
