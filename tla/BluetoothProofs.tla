---------------------------- MODULE BluetoothProofs ----------------------------
(***************************************************************************)
(* Proofs about two Bluetooth ports: the SPP client, and the BLE server.   *)
(*                                                                         *)
(* SppClient, for any number of connects and any faults: no waiter outlives *)
(* its connect; as long as an aborted connect is gone before the next one  *)
(* starts, no connect loses its waiter to another one's guard; no RFCOMM   *)
(* connection is left with no one to use it; and an adapter that was turned *)
(* off after the first connect stays off.  The table has one entry per     *)
(* address, and WaiterGuard removes it without looking whose it is.  That is *)
(* sound while only one connect is alive, the one started last, which is the *)
(* inductive invariant.                                                    *)
(*                                                                         *)
(* BleServer, for any number of phones, sessions, reports and kills of the *)
(* daemon: the bridge is told of exactly the sessions that the port has, and *)
(* a new run asks to drop every phone that a killed one left behind.  The  *)
(* first needs that only the session being opened is not told of yet.  The *)
(* second relates the list on disk to the clients before a kill, and to the *)
(* phones left connected after it, until a run has read it: those are the  *)
(* same list, so that both are one inductive invariant.                    *)
(***************************************************************************)
EXTENDS SppClient, TLAPS

------------------------------------------------------------------------------
(* SppClient.                                                              *)

\* Only the connect that was started last is alive.
OneAlive ==
  /\ \A c, d \in last : c = d
  /\ \A c \in Ids : Live(c) => c \in last

\* The parts of the state have their types, as far as the proofs need them.
Where == Over \cup {"none", "adapter", "paired", "direct", "insert", "wait", "init", "up"}
Rec == [at : Where, req : BOOLEAN, err : BOOLEAN, aborted : BOOLEAN]
Shaped == task \in [Ids -> Rec] /\ waiters \subseteq Ids /\ last \subseteq Ids

WaiterInv == Shaped /\ WaiterHasOwner

\* With no race, every connect that waits has its waiter or its request, because it is the
\* only one alive.
StandsInv == WaiterStands /\ (~raced => OneAlive)

LEMMA InitWaiter == Init => WaiterInv /\ StandsInv
<1>. SUFFICES ASSUME Init PROVE WaiterInv /\ StandsInv OBVIOUS
<1>1. task \in [Ids -> Rec] BY DEF Init, NoTask, Rec, Where
<1>2. \A c \in Ids : task[c].at = "none" BY DEF Init, NoTask
<1>3. QED
  BY <1>1, <1>2 DEF Init, WaiterInv, StandsInv, Shaped, WaiterHasOwner, OneAlive, WaiterStands, At, Live, Over

\* A task goes on at p, with or without its request.
Moved(c, p) ==
  /\ task' \in [Ids -> Rec]
  /\ \A d \in Ids \ {c} : task'[d] = task[d]
  /\ task'[c].at = p /\ task'[c].aborted = task[c].aborted

LEMMA GoMoves ==
  ASSUME Shaped, NEW c \in Ids, NEW p \in Where, Go(c, p)
  PROVE  Moved(c, p) /\ task'[c].req = task[c].req
<1>1. task[c] \in Rec BY DEF Shaped
<1>2. /\ [task[c] EXCEPT !.at = p] \in Rec
      /\ [task[c] EXCEPT !.at = p].at = p
      /\ [task[c] EXCEPT !.at = p].req = task[c].req
      /\ [task[c] EXCEPT !.at = p].aborted = task[c].aborted
  BY <1>1 DEF Rec
<1>3. task' = [task EXCEPT ![c] = [task[c] EXCEPT !.at = p]] BY DEF Go
<1>4. QED BY <1>2, <1>3 DEF Shaped, Moved

LEMMA DropMoves ==
  ASSUME Shaped, NEW c \in Ids, NEW p \in Where,
         task' = [task EXCEPT ![c].at = p, ![c].req = FALSE]
  PROVE  Moved(c, p)
<1> DEFINE r == [[task[c] EXCEPT !.at = p] EXCEPT !.req = FALSE]
<1>1. task[c] \in Rec BY DEF Shaped
<1>2. r \in Rec /\ r.at = p /\ r.aborted = task[c].aborted BY <1>1 DEF Rec
<1>3. task' = [task EXCEPT ![c] = r] BY DEF Shaped
<1> HIDE DEF r
<1>4. QED BY <1>2, <1>3 DEF Shaped, Moved

\* The three things that a connect does to the table: nothing, while it has no waiter; it
\* inserts its waiter into an empty table; its guard empties the table.
Plain(c) == task[c].at # "wait" /\ waiters' = waiters /\ \E p \in Where \ {"wait"} : Moved(c, p)
Inserts(c) == waiters = {} /\ waiters' = {c} /\ Moved(c, "wait")
Guards(c) == task[c].at = "wait" /\ waiters' = {} /\ \E p \in Where \ {"wait"} : Moved(c, p)

LEMMA ConnectSteps ==
  ASSUME Shaped, NEW c \in Ids, TaskStep(c) \/ Lost(c)
  PROVE  last' = last /\ Live(c) /\ (Plain(c) \/ Inserts(c) \/ Guards(c))
<1>. USE DEF At, Live, Over, Where, Go, Moved
<1>1. CASE Adapter(c)
  <2>1. /\ task[c].at = "adapter" /\ waiters' = waiters /\ last' = last
        /\ Go(c, "failed") \/ Go(c, "paired") \/ Go(c, "off")
    BY <1>1 DEF Adapter
  <2>2. QED BY <2>1, GoMoves DEF Plain
<1>2. CASE Paired(c)
  <2>1. /\ task[c].at = "paired" /\ waiters' = waiters /\ last' = last
        /\ Go(c, "unpaired") \/ Go(c, "direct") \/ Go(c, "insert")
    BY <1>2 DEF Paired
  <2>2. QED BY <2>1, GoMoves DEF Plain
<1>3. CASE Direct(c)
  <2>1. /\ task[c].at = "direct" /\ waiters' = waiters /\ last' = last
        /\ Go(c, "init") \/ Go(c, "failed")
    BY <1>3 DEF Direct
  <2>2. QED BY <2>1, GoMoves DEF Plain
<1>4. CASE Insert(c)
  <2>1. /\ task[c].at = "insert" /\ last' = last
        /\ \/ Go(c, "failed") /\ waiters' = waiters
           \/ Go(c, "wait") /\ waiters = {} /\ waiters' = {c}
    BY <1>4 DEF Insert
  <2>2. CASE Go(c, "failed") /\ waiters' = waiters
    <3>1. Moved(c, "failed") BY <2>2, GoMoves
    <3>2. QED BY <2>1, <2>2, <3>1 DEF Plain
  <2>3. CASE Go(c, "wait") /\ waiters = {} /\ waiters' = {c}
    <3>1. Moved(c, "wait") BY <2>3, GoMoves
    <3>2. QED BY <2>1, <2>3, <3>1 DEF Inserts
  <2>4. QED BY <2>1, <2>2, <2>3
<1>5. CASE Accept(c)
  <2>1. /\ task[c].at = "wait" /\ waiters' = {} /\ last' = last
        /\ Go(c, "init") \/ Go(c, "failed")
    BY <1>5 DEF Accept, Guarded
  <2>2. QED BY <2>1, GoMoves DEF Guards
<1>6. CASE WentAway(c)
  <2>1. task[c].at = "wait" /\ waiters' = {} /\ last' = last /\ Go(c, "gone")
    BY <1>6 DEF WentAway, Guarded
  <2>2. Moved(c, "gone") BY <2>1, GoMoves
  <2>3. QED BY <2>1, <2>2 DEF Guards
<1>7. CASE GiveUp(c)
  <2>1. task[c].at = "wait" /\ waiters' = {} /\ last' = last BY <1>7 DEF GiveUp, Guarded
  <2>2. Moved(c, "failed") BY <1>7, DropMoves DEF GiveUp
  <2>3. QED BY <2>1, <2>2 DEF Guards
<1>8. CASE KissInit(c)
  <2>1. /\ task[c].at = "init" /\ waiters' = waiters /\ last' = last
        /\ Go(c, "up") \/ Go(c, "failed")
    BY <1>8 DEF KissInit
  <2>2. QED BY <2>1, GoMoves DEF Plain
<1>9. CASE Dropped(c)
  <2>1. Live(c) /\ last' = last BY <1>9 DEF Dropped
  <2>2. waiters' = IF task[c].at = "wait" THEN {} ELSE waiters BY <1>9 DEF Dropped, Guarded
  <2>3. Moved(c, "dropped") BY <1>9, DropMoves DEF Dropped
  <2>4. QED BY <2>1, <2>2, <2>3 DEF Guards, Plain
<1>10. CASE Lost(c)
  <2>1. task[c].at = "up" /\ waiters' = waiters /\ last' = last /\ Go(c, "failed")
    BY <1>10 DEF Lost
  <2>2. Moved(c, "failed") BY <2>1, GoMoves
  <2>3. QED BY <2>1, <2>2 DEF Plain
<1>11. QED BY <1>1, <1>2, <1>3, <1>4, <1>5, <1>6, <1>7, <1>8, <1>9, <1>10 DEF TaskStep

\* What the other steps do to the tasks: where each one is stays, and no request is taken
\* from one.
Marked ==
  /\ task' \in [Ids -> Rec] /\ last' = last
  /\ \A d \in Ids : /\ task'[d].at = task[d].at
                    /\ task[d].req => task'[d].req
                    /\ task[d].aborted => task'[d].aborted

LEMMA MarkSteps ==
  ASSUME Shaped,
         Abort \/ Outage \/ UNCHANGED vars \/ \E c \in Ids : BluezConnects(c) \/ BluezFails(c)
  PROVE  Marked /\ waiters' = waiters
<1>1. CASE Outage \/ UNCHANGED vars \/ \E c \in Ids : BluezConnects(c)
  <2>1. task' = task /\ waiters' = waiters /\ last' = last
    BY <1>1 DEF Outage, vars, BluezConnects
  <2>2. QED BY <2>1 DEF Shaped, Marked
<1>2. CASE Abort
  <2>1. PICK c \in last : task' = [task EXCEPT ![c].aborted = TRUE] BY <1>2 DEF Abort
  <2>2. c \in Ids /\ task[c] \in Rec BY DEF Shaped
  <2> DEFINE r == [task[c] EXCEPT !.aborted = TRUE]
  <2>3. r \in Rec /\ r.at = task[c].at /\ r.req = task[c].req /\ r.aborted BY <2>2 DEF Rec
  <2>4. task' = [task EXCEPT ![c] = r] /\ waiters' = waiters /\ last' = last BY <1>2, <2>1 DEF Abort
  <2> HIDE DEF r
  <2>5. QED BY <2>2, <2>3, <2>4 DEF Shaped, Marked
<1>3. CASE \E c \in Ids : BluezFails(c)
  <2>1. PICK c \in Ids : BluezFails(c) BY <1>3
  <2>2. task[c] \in Rec BY DEF Shaped
  <2> DEFINE r == [task[c] EXCEPT !.err = TRUE]
  <2>3. r \in Rec /\ r.at = task[c].at /\ r.req = task[c].req /\ r.aborted = task[c].aborted BY <2>2 DEF Rec
  <2>4. task' = [task EXCEPT ![c] = r] /\ waiters' = waiters /\ last' = last BY <2>1 DEF BluezFails
  <2> HIDE DEF r
  <2>5. QED BY <2>2, <2>3, <2>4 DEF Shaped, Marked
<1>4. QED BY <1>1, <1>2, <1>3

LEMMA DeliverStep ==
  ASSUME Shaped, Deliver
  PROVE  Marked /\ waiters' = {} /\ \A d \in waiters : task'[d].req
<1>1. /\ task' = [c \in Ids |-> IF c \in waiters THEN [task[c] EXCEPT !.req = TRUE] ELSE task[c]]
      /\ waiters' = {} /\ last' = last
  BY DEF Deliver
<1>2. \A c \in Ids : LET r == [task[c] EXCEPT !.req = TRUE]
                     IN  r \in Rec /\ r.at = task[c].at /\ r.req /\ r.aborted = task[c].aborted
  BY DEF Shaped, Rec
<1>3. QED BY <1>1, <1>2 DEF Shaped, Marked

LEMMA StartStep ==
  ASSUME Shaped, Start
  PROVE  /\ waiters' = waiters
         /\ \E c \in Ids : ~Live(c) /\ last' = {c} /\ task'[c].at = "adapter"
                          /\ task' \in [Ids -> Rec] /\ \A d \in Ids \ {c} : task'[d] = task[d]
<1>1. PICK c \in Ids : /\ task[c].at \in Over \cup {"none"} /\ last' = {c}
                       /\ task' = [task EXCEPT ![c] = [NoTask EXCEPT !.at = "adapter"]]
  BY DEF Start
<1>2. [NoTask EXCEPT !.at = "adapter"] \in Rec /\ [NoTask EXCEPT !.at = "adapter"].at = "adapter"
  BY DEF NoTask, Rec, Where
<1>3. waiters' = waiters BY DEF Start
<1>4. QED BY <1>1, <1>2, <1>3 DEF Shaped, Live

LEMMA NextWaiter == WaiterInv /\ [Next]_vars => WaiterInv'
<1>. SUFFICES ASSUME WaiterInv, [Next]_vars PROVE WaiterInv' OBVIOUS
<1>. USE DEF WaiterInv, WaiterHasOwner, At
<1>1. ASSUME NEW c \in Ids, TaskStep(c) \/ Lost(c) PROVE WaiterInv'
  <2>1. last' = last /\ (Plain(c) \/ Inserts(c) \/ Guards(c)) BY <1>1, ConnectSteps
  <2>2. QED BY <2>1 DEF Plain, Inserts, Guards, Moved, Shaped
<1>2. CASE Abort \/ Outage \/ UNCHANGED vars \/ \E c \in Ids : BluezConnects(c) \/ BluezFails(c)
  BY <1>2, MarkSteps DEF Marked, Shaped
<1>3. CASE Deliver BY <1>3, DeliverStep DEF Marked, Shaped
<1>4. CASE Start BY <1>4, StartStep DEF Shaped, Live, Over
<1>5. QED BY <1>1, <1>2, <1>3, <1>4 DEF Next

LEMMA NextStands == WaiterInv /\ StandsInv /\ [Next]_vars => StandsInv'
<1>. SUFFICES ASSUME WaiterInv, StandsInv, [Next]_vars, ~raced'
              PROVE  OneAlive' /\ WaiterStands'
  BY DEF StandsInv, WaiterStands
<1>. USE DEF OneAlive, WaiterStands, At, Live
<1>1. Shaped BY DEF WaiterInv
<1>2. ~raced
  BY DEF Next, Start, Abort, Deliver, Outage, TaskStep, Adapter, Paired, Direct, Insert, Accept, WentAway,
         GiveUp, KissInit, Dropped, Lost, BluezConnects, BluezFails, vars
<1>3. OneAlive /\ WaiterStands BY <1>2 DEF StandsInv
<1>4. ASSUME NEW c \in Ids, TaskStep(c) \/ Lost(c) PROVE OneAlive' /\ WaiterStands'
  <2>1. last' = last /\ Live(c) /\ (Plain(c) \/ Inserts(c) \/ Guards(c)) BY <1>1, <1>4, ConnectSteps
  <2>2. \A d \in Ids \ {c} : ~Live(d) BY <1>3, <2>1
  <2>3. \A d \in Ids \ {c} : ~At(d, "wait") BY <2>2 DEF Over
  <2>4. \A d \in Ids \ {c} : task'[d] = task[d] BY <2>1 DEF Plain, Inserts, Guards, Moved
  <2>5. OneAlive' BY <1>3, <2>1, <2>2, <2>4
  <2>6. At(c, "wait")' => c \in waiters' BY <2>1 DEF Plain, Inserts, Guards, Moved
  <2>7. QED BY <2>3, <2>4, <2>5, <2>6
<1>5. CASE Abort \/ Outage \/ UNCHANGED vars \/ \E c \in Ids : BluezConnects(c) \/ BluezFails(c)
  BY <1>1, <1>2, <1>3, <1>5, MarkSteps DEF Marked
<1>6. CASE Deliver BY <1>1, <1>2, <1>3, <1>6, DeliverStep DEF Marked
<1>7. CASE Start
  <2>1. \A c \in Ids : ~Live(c) BY <1>3, <1>7 DEF Start
  <2>2. PICK c \in Ids : /\ last' = {c} /\ task'[c].at = "adapter"
                         /\ \A d \in Ids \ {c} : task'[d] = task[d]
    BY <1>1, <1>7, StartStep
  <2>3. QED BY <2>1, <2>2 DEF Over
<1>8. QED BY <1>4, <1>5, <1>6, <1>7 DEF Next

\* Whatever ends a connect, abort included, and for any number of them: the table never
\* keeps a waiter whose connect is over, which would refuse every later one.
THEOREM WaiterOwned == Spec => []WaiterHasOwner
<1>1. WaiterInv => WaiterHasOwner BY DEF WaiterInv
<1>2. QED BY <1>1, InitWaiter, NextWaiter, PTL DEF Spec

\* As long as every aborted connect was dropped before the next one started, no connect
\* loses its waiter: a connection that BlueZ hands over goes to the connect that asked for it.
THEOREM WaiterSafe == Spec => []WaiterStands
<1>1. StandsInv => WaiterStands BY DEF StandsInv
<1>2. QED BY <1>1, InitWaiter, NextWaiter, NextStands, PTL DEF Spec

------------------------------------------------------------------------------
(* The RFCOMM connection, and the adapter's power. *)

\* A connect has the connection, or the request that brings it.  The request of a connect that
\* is over counts for nothing: the connection went with it.
Holds(c) == task[c].at \in {"init", "up"} \/ (task[c].at = "wait" /\ task[c].req)

\* The strengthening of NoStrayConnection: who is named there is still there to use it, and an
\* aborted connect has no link, so that dropping it drops the connection too.
StrayInv ==
  /\ WaiterInv /\ reqs \in Nat
  /\ \A c \in Ids : task[c].aborted => task[c].at # "up"
  /\ rfcomm => reqs > 0 \/ \E c \in Ids : Holds(c)

LEMMA InitStray == Init => StrayInv
<1>. SUFFICES ASSUME Init PROVE StrayInv OBVIOUS
<1>1. WaiterInv BY InitWaiter
<1>2. \A c \in Ids : task[c].at = "none" BY DEF Init, NoTask
<1>3. QED BY <1>1, <1>2 DEF Init, StrayInv

\* A step of a connect breaks the connection, holds it afterwards, or never held it.
Keeps(c) ==
  /\ reqs' = reqs
  /\ ~rfcomm' \/ Holds(c)' \/ (rfcomm /\ ~Holds(c))
  /\ task'[c].at = "up" => ~task[c].aborted \/ task[c].at = "up"

LEMMA ConnectKeeps ==
  ASSUME StrayInv, NEW c \in Ids, TaskStep(c) \/ Lost(c)
  PROVE  Keeps(c)
<1>. USE DEF At, Keeps, Holds
<1>0. Shaped BY DEF StrayInv, WaiterInv
<1>1. CASE Adapter(c)
  <2>1. /\ task[c].at = "adapter" /\ reqs' = reqs /\ rfcomm' = rfcomm
        /\ Go(c, "failed") \/ Go(c, "paired") \/ Go(c, "off")
    BY <1>1 DEF Adapter
  <2>2. task'[c].at # "up" BY <1>0, <2>1, GoMoves DEF Where, Over, Moved
  <2>3. QED BY <2>1, <2>2
<1>2. CASE Paired(c)
  <2>1. /\ task[c].at = "paired" /\ reqs' = reqs /\ rfcomm' = rfcomm
        /\ Go(c, "unpaired") \/ Go(c, "direct") \/ Go(c, "insert")
    BY <1>2 DEF Paired
  <2>2. task'[c].at # "up" BY <1>0, <2>1, GoMoves DEF Where, Over, Moved
  <2>3. QED BY <2>1, <2>2
<1>3. CASE Direct(c)
  <2>1. /\ task[c].at = "direct" /\ reqs' = reqs
        /\ Go(c, "init") \/ (Go(c, "failed") /\ rfcomm' = rfcomm)
    BY <1>3 DEF Direct
  <2>2. Go(c, "init") => task'[c].at = "init" BY <1>0, GoMoves DEF Where, Moved
  <2>3. Go(c, "failed") => task'[c].at = "failed" BY <1>0, GoMoves DEF Where, Over, Moved
  <2>4. QED BY <2>1, <2>2, <2>3
<1>4. CASE Insert(c)
  <2>1. /\ task[c].at = "insert" /\ reqs' = reqs /\ rfcomm' = rfcomm
        /\ Go(c, "failed") \/ Go(c, "wait")
    BY <1>4 DEF Insert
  <2>2. task'[c].at # "up" BY <1>0, <2>1, GoMoves DEF Where, Over, Moved
  <2>3. QED BY <2>1, <2>2
<1>5. CASE Accept(c)
  <2>1. reqs' = reqs /\ (Go(c, "init") \/ (Go(c, "failed") /\ ~rfcomm')) BY <1>5 DEF Accept
  <2>2. Go(c, "init") => task'[c].at = "init" BY <1>0, GoMoves DEF Where, Moved
  <2>3. Go(c, "failed") => task'[c].at = "failed" BY <1>0, GoMoves DEF Where, Over, Moved
  <2>4. QED BY <2>1, <2>2, <2>3
<1>6. CASE WentAway(c)
  <2>1. /\ task[c].at = "wait" /\ ~task[c].req /\ reqs' = reqs /\ rfcomm' = rfcomm /\ Go(c, "gone")
    BY <1>6 DEF WentAway
  <2>2. task'[c].at = "gone" BY <1>0, <2>1, GoMoves DEF Where, Over, Moved
  <2>3. QED BY <2>1, <2>2
<1>7. CASE GiveUp(c)
  <2>1. task[c].at = "wait" /\ reqs' = reqs /\ rfcomm' = (rfcomm /\ ~task[c].req) BY <1>7 DEF GiveUp
  <2>2. task'[c].at = "failed" BY <1>0, <1>7, DropMoves DEF GiveUp, Where, Over, Moved
  <2>3. QED BY <2>1, <2>2
<1>8. CASE KissInit(c)
  <2>1. reqs' = reqs /\ ~task[c].aborted /\ (Go(c, "up") \/ (Go(c, "failed") /\ ~rfcomm')) BY <1>8 DEF KissInit
  <2>2. Go(c, "up") => task'[c].at = "up" BY <1>0, GoMoves DEF Where, Moved
  <2>3. QED BY <2>1, <2>2
<1>9. CASE Dropped(c)
  <2>1. /\ task[c].aborted /\ reqs' = reqs
        /\ rfcomm' = (rfcomm /\ ~(task[c].req \/ task[c].at = "init"))
    BY <1>9 DEF Dropped
  <2>2. task[c].at # "up" BY <2>1 DEF StrayInv
  <2>3. task'[c].at = "dropped" BY <1>0, <1>9, DropMoves DEF Dropped, Where, Over, Moved
  <2>4. QED BY <2>1, <2>2, <2>3
<1>10. CASE Lost(c) BY <1>10 DEF Lost
<1>11. QED BY <1>1, <1>2, <1>3, <1>4, <1>5, <1>6, <1>7, <1>8, <1>9, <1>10 DEF TaskStep

LEMMA NextStray == StrayInv /\ [Next]_vars => StrayInv'
<1>. SUFFICES ASSUME StrayInv, [Next]_vars PROVE StrayInv' OBVIOUS
<1>0. Shaped /\ WaiterInv /\ WaiterInv' BY NextWaiter DEF StrayInv, WaiterInv
<1>1. ASSUME NEW c \in Ids, TaskStep(c) \/ Lost(c) PROVE StrayInv'
  <2>1. Keeps(c) BY <1>1, ConnectKeeps
  <2>2. \A d \in Ids \ {c} : task'[d] = task[d]
    BY <1>0, <1>1, ConnectSteps DEF Plain, Inserts, Guards, Moved
  <2>3. task'[c].aborted = task[c].aborted
    BY <1>0, <1>1, ConnectSteps DEF Plain, Inserts, Guards, Moved
  <2>4. \A d \in Ids \ {c} : Holds(d) => Holds(d)' BY <2>2 DEF Holds
  <2>5. \A d \in Ids : task'[d].aborted => task'[d].at # "up" BY <2>1, <2>2, <2>3 DEF StrayInv, Keeps
  <2>6. QED BY <1>0, <2>1, <2>4, <2>5 DEF StrayInv, Keeps
<1>2. CASE Abort
  <2>1. PICK c \in last : task[c].at # "up" /\ task' = [task EXCEPT ![c].aborted = TRUE] BY <1>2 DEF Abort, At
  <2>2. c \in Ids /\ reqs' = reqs /\ rfcomm' = rfcomm BY <1>0, <1>2 DEF Abort, Shaped
  <2>3. Marked BY <1>0, <1>2, MarkSteps
  <2>4. \A d \in Ids \ {c} : task'[d] = task[d] BY <1>0, <2>1 DEF Shaped
  <2>5. \A d \in Ids : Holds(d) => Holds(d)' BY <2>3 DEF Holds, Marked
  <2>6. \A d \in Ids : task'[d].aborted => task'[d].at # "up" BY <2>1, <2>3, <2>4 DEF Marked, StrayInv
  <2>7. QED BY <1>0, <2>2, <2>5, <2>6 DEF StrayInv
<1>3. CASE Outage \/ UNCHANGED vars
  BY <1>0, <1>3 DEF Outage, vars, StrayInv, Holds
<1>4. ASSUME NEW c \in Ids, BluezConnects(c) PROVE StrayInv'
  <2>1. task' = task /\ reqs' = reqs + 1 BY <1>4 DEF BluezConnects
  <2>2. reqs' \in Nat /\ reqs' > 0 BY <2>1 DEF StrayInv
  <2>3. QED BY <1>0, <2>1, <2>2 DEF StrayInv
<1>5. ASSUME NEW c \in Ids, BluezFails(c) PROVE StrayInv'
  <2>1. /\ reqs' = reqs /\ rfcomm' = rfcomm
        /\ task' = [task EXCEPT ![c] = [task[c] EXCEPT !.err = TRUE]]
    BY <1>5 DEF BluezFails
  <2>2. \A d \in Ids : /\ task'[d].at = task[d].at /\ task'[d].req = task[d].req
                       /\ task'[d].aborted = task[d].aborted
    BY <1>0, <2>1 DEF Shaped, Rec
  <2>3. QED BY <1>0, <2>1, <2>2 DEF StrayInv, Holds
<1>6. CASE Deliver
  <2>1. reqs > 0 /\ reqs' = reqs - 1 /\ rfcomm' = (rfcomm /\ waiters # {}) BY <1>6 DEF Deliver
  <2>2. Marked /\ \A d \in waiters : task'[d].req BY <1>0, <1>6, DeliverStep
  <2>3. \A d \in waiters : d \in Ids /\ task[d].at = "wait" BY <1>0 DEF WaiterInv, WaiterHasOwner, At, Shaped
  <2>4. \A d \in waiters : Holds(d)' BY <2>2, <2>3 DEF Holds, Marked
  <2>5. \A d \in Ids : task'[d].aborted = task[d].aborted
    <3>1. task' = [d \in Ids |-> IF d \in waiters THEN [task[d] EXCEPT !.req = TRUE] ELSE task[d]]
      BY <1>6 DEF Deliver
    <3>2. \A d \in Ids : [task[d] EXCEPT !.req = TRUE].aborted = task[d].aborted BY <1>0 DEF Shaped, Rec
    <3>3. QED BY <3>1, <3>2
  <2>6. reqs' \in Nat BY <2>1 DEF StrayInv
  <2>7. QED BY <1>0, <2>1, <2>2, <2>3, <2>4, <2>5, <2>6 DEF StrayInv, Marked
<1>7. CASE Start
  <2>1. reqs' = reqs /\ rfcomm' = rfcomm BY <1>7 DEF Start
  <2>2. PICK c \in Ids : /\ ~Live(c) /\ task'[c].at = "adapter"
                         /\ \A d \in Ids \ {c} : task'[d] = task[d]
    BY <1>0, <1>7, StartStep
  <2>3. ~Holds(c) BY <2>2 DEF Live, Over, Holds
  <2>4. \A d \in Ids \ {c} : Holds(d) => Holds(d)' BY <2>2 DEF Holds
  <2>5. QED BY <1>0, <2>1, <2>2, <2>3, <2>4 DEF StrayInv
<1>8. QED BY <1>1, <1>2, <1>3, <1>4, <1>5, <1>6, <1>7 DEF Next

\* However connects are aborted, dropped and started again, and whatever BlueZ hands over and
\* when: the radio is not left connected with no one to use the connection.
THEOREM NoStray == Spec => []NoStrayConnection
<1>1. StrayInv => NoStrayConnection BY DEF StrayInv, NoStrayConnection, Holds
<1>2. QED BY <1>1, InitStray, NextStray, PTL DEF Spec

\* The adapter's state, as far as its power needs it.
HostOK == host \in [present : BOOLEAN, powered : BOOLEAN, paired : BOOLEAN, channel : BOOLEAN]

LEMMA NextHost == HostOK /\ [Next]_vars => HostOK'
<1>. SUFFICES ASSUME HostOK, [Next]_vars, host' # host PROVE HostOK' BY DEF HostOK
<1>1. \/ Outage
      \/ host' = [host EXCEPT !.powered = TRUE]
  BY DEF Next, Start, Abort, Deliver, TaskStep, Adapter, Paired, Direct, Insert, Accept, WentAway,
         GiveUp, KissInit, Dropped, Lost, BluezConnects, BluezFails, vars
<1>2. QED BY <1>1 DEF Outage, HostOK

\* Once a connector has tried to power the adapter on, no step of it does so again: an adapter
\* that is off by then was turned off by someone, and stays off (tried_power).
THEOREM PowerStaysOff == Spec => PowerLeftAlone
<1>1. Init => HostOK BY DEF Init, HostOK
<1>2. HostOK /\ [Next]_vars => [tried => (host'.powered => host.powered)]_vars
  <2>1. SUFFICES ASSUME HostOK, Next, tried, host' # host PROVE host'.powered => host.powered
    BY DEF vars
  <2>2. Outage
    BY <2>1 DEF Next, Start, Abort, Deliver, TaskStep, Adapter, Paired, Direct, Insert, Accept, WentAway,
                GiveUp, KissInit, Dropped, Lost, BluezConnects, BluezFails
  <2>3. QED BY <2>1, <2>2 DEF Outage, HostOK
<1>3. QED BY <1>1, <1>2, NextHost, PTL DEF Spec, PowerLeftAlone

------------------------------------------------------------------------------
(* BleServer: its constants and its state.                                 *)

CONSTANTS Phones, Limits, EventQueue, Bounds
VARIABLES
  pc, port, opening, file, evq, tasks, watchers, asks, link, dropping, told, stranded, unlisted, deaf,
  srv_used

Srv == INSTANCE BleServer WITH used <- srv_used

PortShape(p) ==
  p = [clients |-> p.clients, generation |-> p.generation, max |-> p.max, watched |-> p.watched,
       adv |-> p.adv, refresh_at |-> p.refresh_at, state |-> p.state]

Up == pc \in {"run", "opening"}

\* What is known of the sessions.
PortShaped ==
  /\ PortShape(port) /\ Srv!Clients \subseteq Phones
  /\ told \in [Phones -> Int]
  /\ \A r \in asks : r.addr \in Phones
  /\ IF pc = "opening" THEN opening.addr \in Srv!Clients ELSE opening = Srv!NoRequest
  /\ ~Up => Srv!Clients = {}

\* The bridge has been told of every session but the one that is being opened.
ToldInv == \A a \in Phones : told[a] = IF a \in Srv!Clients /\ ~(pc = "opening" /\ a = opening.addr) THEN 1 ELSE 0

\* The list names every client but that one, and after a kill the phones that are left,
\* unless they are being dropped.
Listed == IF pc \in {"run", "opening", "stopped"} THEN {} ELSE file
FileInv ==
  /\ Up => \A a \in Srv!Clients : (pc = "opening" /\ a = opening.addr) \/ a \in file
  /\ stranded \subseteq link
  /\ stranded \ unlisted \subseteq dropping \cup Listed

PortInv == PortShaped /\ ToldInv /\ FileInv

------------------------------------------------------------------------------
\* Advertising changes nothing about the clients.

SameClients(p, q) == PortShape(q) /\ q.clients = p.clients

LEMMA WithdrawSame ==
  ASSUME NEW p, PortShape(p)
  PROVE  SameClients(p, Srv!withdraw(p))
<1>1. PICK q : q = [p EXCEPT !.adv = FALSE, !.state = "full"] OBVIOUS
<1>2. PortShape(q) /\ q.clients = p.clients BY <1>1 DEF PortShape
<1>3. Srv!withdraw(p) = q \/ Srv!withdraw(p) = p BY <1>1 DEF Srv!withdraw
<1>4. QED BY <1>2, <1>3 DEF SameClients

LEMMA ResumeSame ==
  ASSUME NEW p, PortShape(p), NEW ok \in BOOLEAN
  PROVE  SameClients(p, Srv!resume(p, ok))
<1>1. PICK q : q = [p EXCEPT !.adv = TRUE, !.state = "advertising"] OBVIOUS
<1>2. PortShape(q) /\ q.clients = p.clients BY <1>1 DEF PortShape
<1>3. Srv!resume(p, ok) = q \/ Srv!resume(p, ok) = p BY <1>1 DEF Srv!resume
<1>4. QED BY <1>2, <1>3 DEF SameClients

\* A step with the same sessions.
LEMMA SessionsKept ==
  ASSUME PortInv, PortShape(port'), Srv!Clients' = Srv!Clients, UNCHANGED <<pc, told, opening>>,
         \A r \in asks' : r.addr \in Phones
  PROVE  PortShaped' /\ ToldInv'
<1>1. PortShaped' BY DEF PortInv, PortShaped, Up
<1>2. ToldInv' BY DEF PortInv, ToldInv
<1>3. QED BY <1>1, <1>2

\* A step that writes no list, and at most asks to drop more links.
LEMMA ListKept ==
  ASSUME PortInv, Srv!Clients' = Srv!Clients, UNCHANGED <<pc, opening, file, stranded, unlisted>>,
         link \subseteq link', dropping \subseteq dropping'
  PROVE  FileInv'
<1>1. Listed' = Listed /\ Up' = Up BY DEF Listed, Up
<1>2. QED BY <1>1 DEF PortInv, FileInv

LEMMA RestKept ==
  ASSUME PortInv, PortShape(port'), Srv!Clients' = Srv!Clients, UNCHANGED <<pc, told, opening, file, stranded, unlisted>>,
         link \subseteq link', dropping \subseteq dropping', \A r \in asks' : r.addr \in Phones
  PROVE  PortInv'
BY SessionsKept, ListKept DEF PortInv

\* Most steps leave all of it alone.
LEMMA SameKept ==
  ASSUME PortInv, UNCHANGED <<pc, port, told, opening, file, stranded, unlisted, link, asks>>,
         dropping \subseteq dropping'
  PROVE  PortInv'
<1>1. PortShape(port') /\ Srv!Clients' = Srv!Clients BY DEF PortInv, PortShaped, Srv!Clients, PortShape
<1>2. \A r \in asks' : r.addr \in Phones BY DEF PortInv, PortShaped
<1>3. QED BY <1>1, <1>2, RestKept

\* Those that change the port's other parts.
LEMMA PortKept ==
  ASSUME PortInv, NEW p, SameClients(port, p), port' = p,
         UNCHANGED <<pc, told, opening, file, stranded, unlisted, link, dropping, asks>>
  PROVE  PortInv'
<1>1. PortShape(port') /\ Srv!Clients' = Srv!Clients BY DEF SameClients, Srv!Clients, PortShape
<1>2. \A r \in asks' : r.addr \in Phones BY DEF PortInv, PortShaped
<1>3. QED BY <1>1, <1>2, RestKept

LEMMA OutcomesBoolean == Srv!Outcomes \subseteq BOOLEAN
BY DEF Srv!Outcomes

LEMMA MaxChangedKept ==
  ASSUME PortInv, NEW m \in Limits, Srv!MaxChanged(m)
  PROVE  PortInv'
<1>1. PICK p : p = [port EXCEPT !.max = m] OBVIOUS
<1>2. PortShape(p) /\ p.clients = port.clients BY <1>1 DEF PortInv, PortShaped, PortShape
<1>3. port' = Srv!withdraw(p) \/ port' = p \/ \E ok \in Srv!Outcomes : port' = Srv!resume(p, ok)
  BY <1>1 DEF Srv!MaxChanged
<1>4. SameClients(port, port')
  BY <1>2, <1>3, WithdrawSame, ResumeSame, OutcomesBoolean DEF SameClients
<1>5. QED BY <1>4, PortKept DEF Srv!MaxChanged

LEMMA RefreshKept ==
  ASSUME PortInv, Srv!Refresh
  PROVE  PortInv'
<1>1. PICK p : p = [port EXCEPT !.refresh_at = FALSE] OBVIOUS
<1>2. PortShape(p) /\ p.clients = port.clients BY <1>1 DEF PortInv, PortShaped, PortShape
<1>3. PICK q : q = [p EXCEPT !.state = "full"] OBVIOUS
<1>4. PortShape(q) /\ q.clients = p.clients BY <1>2, <1>3 DEF PortShape
<1>5. port' = q \/ \E ok \in Srv!Outcomes : port' = Srv!resume(p, ok) BY <1>1, <1>3 DEF Srv!Refresh
<1>6. SameClients(port, port') BY <1>2, <1>4, <1>5, ResumeSame, OutcomesBoolean DEF SameClients
<1>7. QED BY <1>6, PortKept DEF Srv!Refresh

LEMMA NameChangedKept ==
  ASSUME PortInv, Srv!NameChanged
  PROVE  PortInv'
<1>1. PICK ok \in Srv!Outcomes : port' = [port EXCEPT !.adv = ok] BY DEF Srv!NameChanged
<1>2. PortShape(port') /\ port'.clients = port.clients BY <1>1 DEF PortInv, PortShaped, PortShape
<1>3. QED BY <1>2, PortKept DEF Srv!NameChanged, SameClients

LEMMA LinkNewsKept ==
  ASSUME PortInv, Srv!Unwatched \/ Srv!LinkDown
  PROVE  PortInv'
<1>1. CASE Srv!Unwatched
  <2>1. PICK w : port' = [port EXCEPT !.watched = w] BY <1>1 DEF Srv!Unwatched
  <2>2. PortShape(port') /\ port'.clients = port.clients BY <2>1 DEF PortInv, PortShaped, PortShape
  <2>3. QED BY <1>1, <2>2, PortKept DEF Srv!Unwatched, SameClients
<1>2. CASE Srv!LinkDown
  <2>1. PortShape(port') /\ port'.clients = port.clients BY <1>2 DEF Srv!LinkDown, PortInv, PortShaped, PortShape
  <2>2. QED BY <1>2, <2>1, PortKept DEF Srv!LinkDown, SameClients
<1>3. QED BY <1>1, <1>2

LEMMA KicksKept ==
  ASSUME PortInv, NEW a \in Phones, Srv!Kicks(a)
  PROVE  PortInv'
<1>1. PICK c : c = [port.clients EXCEPT ![a].kicked = TRUE] OBVIOUS
<1>2. DOMAIN c = Srv!Clients BY <1>1 DEF Srv!Clients
<1>3. port' = [port EXCEPT !.clients = c] BY <1>1 DEF Srv!Kicks, PortInv, PortShaped, PortShape
<1>4. PortShape(port') /\ port'.clients = c BY <1>3 DEF PortInv, PortShaped, PortShape
<1>5. Srv!Clients' = Srv!Clients BY <1>2, <1>4 DEF Srv!Clients
<1>6. \A r \in asks' : r.addr \in Phones BY DEF PortInv, PortShaped, Srv!Kicks
<1>7. QED BY <1>4, <1>5, <1>6, RestKept DEF Srv!Kicks

\* Tasks, watchers and reports leave the sessions and the list alone.
LEMMA QuietKept ==
  ASSUME PortInv, \/ Srv!Stale \/ Srv!Check \/ Srv!TasksGo \/ \E t \in tasks : Srv!StreamStops(t)
              \/ \E a \in Phones : Srv!Forgets(a) \/ Srv!WatcherChecks(a)
  PROVE  PortInv'
<1>1. UNCHANGED <<pc, port, told, opening, file, stranded, unlisted, link, asks>>
  BY DEF Srv!Stale, Srv!Check, Srv!TasksGo, Srv!Report, Srv!WatcherSees, Srv!StreamStops, Srv!Forgets, Srv!WatcherChecks
<1>2. dropping \subseteq dropping'
  BY DEF Srv!Stale, Srv!Check, Srv!TasksGo, Srv!Report, Srv!WatcherSees, Srv!StreamStops, Srv!Forgets, Srv!WatcherChecks, Srv!disconnect
<1>3. QED BY <1>1, <1>2, SameKept

LEMMA PhonesKept ==
  ASSUME PortInv, NEW a \in Phones, Srv!PhoneConnects(a) \/ \E kind \in {"write", "notify"} : Srv!PhoneAsks(a, kind)
  PROVE  PortInv'
<1>1. PortShape(port') /\ Srv!Clients' = Srv!Clients
  BY DEF PortInv, PortShaped, Srv!Clients, PortShape, Srv!PhoneConnects, Srv!PhoneAsks
<1>2. \A r \in asks' : r.addr \in Phones
  <2>1. CASE Srv!PhoneConnects(a) BY <2>1 DEF PortInv, PortShaped, Srv!PhoneConnects
  <2>2. CASE \E kind \in {"write", "notify"} : Srv!PhoneAsks(a, kind)
    <3>1. PICK kind : asks' = asks \cup {[kind |-> kind, addr |-> a]} BY <2>2 DEF Srv!PhoneAsks
    <3>2. [kind |-> kind, addr |-> a].addr = a OBVIOUS
    <3>3. QED BY <3>1, <3>2 DEF PortInv, PortShaped
  <2>3. QED BY <2>1, <2>2
<1>3. QED BY <1>1, <1>2, RestKept DEF Srv!PhoneConnects, Srv!PhoneAsks

\* A phone whose link drops is no longer left behind.
LEMMA LinkDropsKept ==
  ASSUME PortInv, NEW a \in Phones, Srv!LinkDrops(a)
  PROVE  PortInv'
<1>1. PortShape(port') /\ Srv!Clients' = Srv!Clients BY DEF PortInv, PortShaped, Srv!Clients, PortShape, Srv!LinkDrops
<1>2. \A r \in asks' : r.addr \in Phones BY DEF PortInv, PortShaped, Srv!LinkDrops
<1>3. PortShaped' /\ ToldInv' BY <1>1, <1>2, SessionsKept DEF Srv!LinkDrops
<1>4. Listed' = Listed /\ Up' = Up BY DEF Listed, Up, Srv!LinkDrops
<1>5. FileInv' BY <1>1, <1>4 DEF PortInv, FileInv, Srv!LinkDrops
<1>6. QED BY <1>3, <1>5 DEF PortInv

LEMMA RefuseKept ==
  ASSUME PortInv, NEW r \in asks, Srv!Refuse(r)
  PROVE  PortInv'
<1>1. PortShape(port') /\ Srv!Clients' = Srv!Clients BY DEF PortInv, PortShaped, Srv!Clients, PortShape, Srv!Refuse
<1>2. \A q \in asks' : q.addr \in Phones BY DEF PortInv, PortShaped, Srv!Refuse
<1>3. dropping \subseteq dropping' BY DEF Srv!Refuse, Srv!disconnect
<1>4. QED BY <1>1, <1>2, <1>3, RestKept DEF Srv!Refuse

------------------------------------------------------------------------------
\* Sessions.

\* A session that is being opened: the bridge hasn't been told, and the list lacks it.
LEMMA EnsureClientKept ==
  ASSUME PortInv, NEW r \in asks, Srv!EnsureClient(r)
  PROVE  PortInv'
<1>1. PICK c : /\ DOMAIN c = Srv!Clients \cup {r.addr}
               /\ port' = [port EXCEPT !.generation = Srv!next_generation, !.clients = c]
  BY DEF Srv!EnsureClient
<1>2. PortShape(port') /\ port'.clients = c BY <1>1 DEF PortInv, PortShaped, PortShape
<1>3. Srv!Clients' = Srv!Clients \cup {r.addr} BY <1>1, <1>2 DEF Srv!Clients
<1>4. r.addr \in Phones BY DEF PortInv, PortShaped
<1>5. PortShaped'
  BY <1>2, <1>3, <1>4 DEF PortInv, PortShaped, Srv!EnsureClient, Up
<1>6. ToldInv'
  <2>1. pc = "run" BY DEF Srv!EnsureClient, Srv!Here
  <2>2. QED BY <1>3, <2>1 DEF PortInv, ToldInv, Srv!EnsureClient
<1>7. FileInv'
  <2>1. pc = "run" /\ pc' = "opening" BY DEF Srv!EnsureClient, Srv!Here
  <2>2. Listed' = Listed BY <2>1 DEF Listed
  <2>3. QED BY <1>3, <2>1, <2>2 DEF PortInv, FileInv, Srv!EnsureClient, Up
<1>8. QED BY <1>5, <1>6, <1>7 DEF PortInv

\* Attaching streams leaves the clients as they are, and writes the list.
LEMMA AttachSame ==
  ASSUME PortShaped, NEW r, NEW known, NEW new, Srv!attach(r, known, new)
  PROVE  PortShape(port') /\ Srv!Clients' = Srv!Clients /\ file' = Srv!Clients
<1>1. PICK c : c = [port.clients EXCEPT ![r.addr].writer = TRUE] OBVIOUS
<1>2. DOMAIN c = Srv!Clients BY <1>1 DEF Srv!Clients
<1>3. PICK w : w = [port EXCEPT !.clients = c] OBVIOUS
<1>4. PortShape(w) /\ w.clients = c BY <1>3 DEF PortShaped, PortShape
<1>5. w = [port EXCEPT !.clients[r.addr].writer = TRUE] BY <1>1, <1>3 DEF PortShaped, PortShape
<1>6. PICK p : (p = w \/ p = port) /\ file' = DOMAIN p.clients /\ (port' = Srv!withdraw(p) \/ port' = p)
  BY <1>5 DEF Srv!attach, Srv!record_clients
<1>7. PortShape(p) /\ DOMAIN p.clients = Srv!Clients BY <1>2, <1>4, <1>6 DEF Srv!Clients, PortShaped
<1>8. PortShape(port') /\ port'.clients = p.clients BY <1>6, <1>7, WithdrawSame DEF SameClients
<1>9. QED BY <1>6, <1>7, <1>8 DEF Srv!Clients

LEMMA OpenedKept ==
  ASSUME PortInv, Srv!Opened
  PROVE  PortInv'
<1>1. PortShaped BY DEF PortInv
<1>2. PortShape(port') /\ Srv!Clients' = Srv!Clients /\ file' = Srv!Clients BY <1>1, AttachSame DEF Srv!Opened
<1>3. pc = "opening" /\ pc' = "run" /\ opening.addr \in Phones BY DEF Srv!Opened, PortInv, PortShaped
<1>4. told' = [told EXCEPT ![opening.addr] = told[opening.addr] + 1] BY DEF Srv!Opened
<1>5. PortShaped' BY <1>2, <1>3, <1>4 DEF PortInv, PortShaped, Up, Srv!Opened
<1>6. ToldInv' BY <1>2, <1>3, <1>4 DEF PortInv, PortShaped, ToldInv
<1>7. FileInv'
  <2>1. Listed' = Listed BY <1>3 DEF Listed
  <2>2. QED BY <1>2, <1>3, <2>1 DEF PortInv, FileInv, Srv!Opened, Up
<1>8. QED BY <1>5, <1>6, <1>7 DEF PortInv

LEMMA RequestKept ==
  ASSUME PortInv, NEW r \in asks, Srv!Request(r)
  PROVE  PortInv'
<1>1. PortShaped BY DEF PortInv
<1>2. PortShape(port') /\ Srv!Clients' = Srv!Clients /\ file' = Srv!Clients BY <1>1, AttachSame DEF Srv!Request
<1>3. \A q \in asks' : q.addr \in Phones BY DEF PortInv, PortShaped, Srv!Request
<1>4. PortShaped' /\ ToldInv' BY <1>2, <1>3, SessionsKept DEF Srv!Request
<1>5. FileInv'
  <2>1. pc = "run" /\ Listed' = Listed BY DEF Srv!Request, Srv!Here, Listed
  <2>2. QED BY <1>2, <2>1 DEF PortInv, FileInv, Srv!Request, Up
<1>6. QED BY <1>4, <1>5 DEF PortInv

\* A report ends a session only if it is of the one that there is.
LEMMA SessionEndsKept ==
  ASSUME PortInv, Srv!SessionEnds
  PROVE  PortInv'
<1>1. PICK a : a = Head(evq).addr OBVIOUS
<1>2. a \in Srv!Clients /\ a \in Phones BY <1>1 DEF Srv!SessionEnds, Srv!current, PortInv, PortShaped
<1>3. PICK c : c = [x \in Srv!Clients \ {a} |-> port.clients[x]] OBVIOUS
<1>4. DOMAIN c = Srv!Clients \ {a} BY <1>3
<1>5. PICK p : p = [port EXCEPT !.clients = c, !.watched = @ \cup {a}] OBVIOUS
<1>6. PortShape(p) /\ p.clients = c BY <1>5 DEF PortInv, PortShaped, PortShape
<1>7. /\ file' = DOMAIN p.clients /\ told' = [told EXCEPT ![a] = @ - 1]
      /\ port' = p \/ \E ok \in Srv!Outcomes : port' = Srv!resume(p, ok)
      /\ pc = "run" /\ UNCHANGED <<pc, opening, asks, link, stranded, unlisted>>
      /\ dropping \subseteq dropping'
  BY <1>1, <1>3, <1>5 DEF Srv!SessionEnds, Srv!record_clients, Srv!disconnect, Srv!Take, Srv!Here
<1>8. PortShape(port') /\ port'.clients = c
  BY <1>6, <1>7, ResumeSame, OutcomesBoolean DEF SameClients
<1>9. Srv!Clients' = Srv!Clients \ {a} /\ file' = Srv!Clients \ {a} BY <1>4, <1>6, <1>7, <1>8 DEF Srv!Clients
<1>10. PortShaped' BY <1>2, <1>7, <1>8, <1>9 DEF PortInv, PortShaped, Up
<1>11. ToldInv' BY <1>2, <1>7, <1>9 DEF PortInv, PortShaped, ToldInv
<1>12. FileInv'
  <2>1. Listed' = Listed BY <1>7 DEF Listed
  <2>2. QED BY <1>7, <1>9, <2>1 DEF PortInv, FileInv, Up
<1>13. QED BY <1>10, <1>11, <1>12 DEF PortInv

------------------------------------------------------------------------------
\* The life of a run.

\* A port without clients.
LEMMA FreshParts ==
  /\ PortShape(Srv!Fresh) /\ DOMAIN Srv!Fresh.clients = {}
  /\ LET s == [Srv!Fresh EXCEPT !.adv = FALSE, !.state = "stopped"] IN PortShape(s) /\ DOMAIN s.clients = {}
<1>1. PortShape(Srv!Fresh) BY DEF PortShape, Srv!Fresh
<1>2. DOMAIN Srv!Fresh.clients = {} BY DEF Srv!Fresh
<1>3. PICK s : s = [Srv!Fresh EXCEPT !.adv = FALSE, !.state = "stopped"] OBVIOUS
<1>4. PortShape(s) /\ s.clients = Srv!Fresh.clients BY <1>1, <1>3 DEF PortShape
<1>5. QED BY <1>1, <1>2, <1>3, <1>4

\* A run that starts has dropped all that the list names.
LEMMA StartKept ==
  ASSUME PortInv, Srv!Start
  PROVE  PortInv'
<1>1. pc = "starting" /\ pc' = "run" /\ Srv!Clients = {} BY DEF Srv!Start, PortInv, PortShaped, Up
<1>2. PortShape(port') /\ Srv!Clients' = {} BY FreshParts DEF Srv!Start, Srv!Clients
<1>3. PortShaped' BY <1>1, <1>2 DEF PortInv, PortShaped, Srv!Start, Up
<1>4. ToldInv' BY <1>1, <1>2 DEF PortInv, ToldInv, Srv!Start
<1>5. FileInv'
  <2>1. dropping' = dropping \cup (file \cap link) BY DEF Srv!Start, Srv!drop_stale, Srv!disconnect
  <2>2. stranded \ unlisted \subseteq dropping \cup file /\ stranded \subseteq link
    BY <1>1 DEF PortInv, FileInv, Listed
  <2>3. QED BY <1>2, <2>1, <2>2 DEF FileInv, Srv!Start
<1>6. QED BY <1>3, <1>4, <1>5 DEF PortInv

LEMMA StartFailsKept ==
  ASSUME PortInv, Srv!StartFails
  PROVE  PortInv'
<1>1. pc = "starting" /\ pc' = "failed" /\ Srv!Clients = {} BY DEF Srv!StartFails, PortInv, PortShaped, Up
<1>2. PortShape(port') /\ Srv!Clients' = {} BY <1>1 DEF Srv!StartFails, Srv!Clients, PortInv, PortShaped, PortShape
<1>3. PortShaped' BY <1>1, <1>2 DEF PortInv, PortShaped, Srv!StartFails, Up
<1>4. ToldInv' BY <1>1, <1>2 DEF PortInv, ToldInv, Srv!StartFails
<1>5. FileInv'
  <2>1. \/ dropping' = dropping \cup (file \cap link) /\ file' = {}
        \/ dropping' = dropping /\ file' = file
    BY DEF Srv!StartFails, Srv!drop_stale, Srv!disconnect
  <2>2. stranded \ unlisted \subseteq dropping \cup file /\ stranded \subseteq link
    BY <1>1 DEF PortInv, FileInv, Listed
  <2>3. Listed' = file' /\ ~Up' BY <1>1 DEF Listed, Up
  <2>4. QED BY <2>1, <2>2, <2>3 DEF FileInv, Srv!StartFails
<1>6. QED BY <1>3, <1>4, <1>5 DEF PortInv

LEMMA StopKept ==
  ASSUME PortInv, Srv!Stop
  PROVE  PortInv'
<1>1. pc = "run" /\ pc' = "stopped" /\ opening' = Srv!NoRequest /\ asks' = {} BY DEF Srv!Stop, Srv!Here, Srv!Gone
<1>2. PortShape(port') /\ Srv!Clients' = {} BY FreshParts DEF Srv!Stop, Srv!Clients
<1>3. told' = [a \in Phones |-> IF a \in Srv!Clients THEN told[a] - 1 ELSE told[a]] BY DEF Srv!Stop
<1>4. PortShaped' BY <1>1, <1>2, <1>3 DEF PortInv, PortShaped, Up
<1>5. ToldInv' BY <1>1, <1>2, <1>3 DEF PortInv, PortShaped, ToldInv
<1>6. FileInv'
  <2>1. Listed' = {} /\ Listed = {} /\ ~Up' BY <1>1 DEF Listed, Up
  <2>2. dropping \subseteq dropping' BY DEF Srv!Stop, Srv!disconnect
  <2>3. QED BY <2>1, <2>2 DEF PortInv, FileInv, Srv!Stop
<1>7. QED BY <1>4, <1>5, <1>6 DEF PortInv

\* The list that a killed run leaves names every phone it served, but one whose session it
\* was opening.
LEMMA KillKept ==
  ASSUME PortInv, Srv!Kill
  PROVE  PortInv'
<1>1. Up /\ pc' = "killed" /\ opening' = Srv!NoRequest /\ asks' = {} BY DEF Srv!Kill, Up, Srv!Gone
<1>2. PortShape(port') /\ Srv!Clients' = {} BY FreshParts DEF Srv!Kill, Srv!Clients
<1>3. told' = [a \in Phones |-> 0] BY DEF Srv!Kill
<1>4. PortShaped' BY <1>1, <1>2, <1>3 DEF PortShaped, Up
<1>5. ToldInv' BY <1>1, <1>2, <1>3 DEF ToldInv
<1>6. FileInv'
  <2>1. Listed' = file' /\ ~Up' BY <1>1 DEF Listed, Up
  <2>2. stranded' \ unlisted' \subseteq file BY <1>1 DEF PortInv, FileInv, Srv!Kill
  <2>3. QED BY <2>1, <2>2 DEF FileInv, Srv!Kill
<1>7. QED BY <1>4, <1>5, <1>6 DEF PortInv

LEMMA StartAgainKept ==
  ASSUME PortInv, Srv!StartAgain
  PROVE  PortInv'
<1>1. ~Up /\ ~Up' /\ Srv!Clients = {} /\ Srv!Clients' = Srv!Clients /\ pc # "opening" /\ pc' # "opening"
  BY DEF Srv!StartAgain, Up, PortInv, PortShaped, Srv!Clients
<1>2. PortShaped' BY <1>1 DEF PortInv, PortShaped, Srv!StartAgain, PortShape
<1>3. ToldInv' BY <1>1 DEF PortInv, ToldInv, Srv!StartAgain
<1>4. FileInv'
  <2>1. Listed \subseteq Listed' BY DEF Listed, Srv!StartAgain
  <2>2. QED BY <1>1, <2>1 DEF PortInv, FileInv, Srv!StartAgain
<1>5. QED BY <1>2, <1>3, <1>4 DEF PortInv

------------------------------------------------------------------------------

LEMMA InitInv == Srv!Init => PortInv
<1>. SUFFICES ASSUME Srv!Init PROVE PortInv OBVIOUS
<1>1. PortShape(port) /\ Srv!Clients = {} BY DEF Srv!Init, PortShape, Srv!Clients
<1>2. PortShaped BY <1>1 DEF PortShaped, Srv!Init, Up
<1>3. ToldInv BY <1>1 DEF ToldInv, Srv!Init
<1>4. FileInv BY <1>1 DEF FileInv, Srv!Init
<1>5. QED BY <1>2, <1>3, <1>4 DEF PortInv

LEMMA NextInv == PortInv /\ [Srv!Next]_(Srv!vars) => PortInv'
<1>1. ASSUME PortInv, UNCHANGED Srv!vars PROVE PortInv'
  <2>1. UNCHANGED <<pc, port, told, opening, file, stranded, unlisted, link, asks>> /\ dropping' = dropping
    BY <1>1 DEF Srv!vars
  <2>2. QED BY <1>1, <2>1, SameKept
<1>. SUFFICES ASSUME PortInv, Srv!Next PROVE PortInv' BY <1>1
<1>2. CASE Srv!TakeEvent BY <1>2, QuietKept, SessionEndsKept, LinkNewsKept DEF Srv!TakeEvent
<1>3. CASE Srv!TakeRequest BY <1>3, RefuseKept, EnsureClientKept, RequestKept DEF Srv!TakeRequest
<1>4. CASE Srv!Opened \/ Srv!Refresh \/ Srv!NameChanged BY <1>4, OpenedKept, RefreshKept, NameChangedKept
<1>5. CASE Srv!TasksGo \/ \E t \in tasks : Srv!StreamStops(t) BY <1>5, QuietKept
<1>6. CASE Srv!Start \/ Srv!StartFails \/ Srv!Stop \/ Srv!Kill \/ Srv!StartAgain
  BY <1>6, StartKept, StartFailsKept, StopKept, KillKept, StartAgainKept
<1>7. CASE \E m \in Limits : Srv!MaxChanged(m) BY <1>7, MaxChangedKept
<1>8. CASE \E a \in Phones :
             \/ Srv!PhoneConnects(a) \/ Srv!LinkDrops(a) \/ Srv!Forgets(a) \/ Srv!Kicks(a) \/ Srv!WatcherChecks(a)
             \/ \E kind \in {"write", "notify"} : Srv!PhoneAsks(a, kind)
  BY <1>8, PhonesKept, LinkDropsKept, QuietKept, KicksKept
<1>9. QED BY <1>2, <1>3, <1>4, <1>5, <1>6, <1>7, <1>8 DEF Srv!Next

\* Whatever reports come late, the bridge has been told of exactly the sessions that the port
\* has, for any number of phones (the loop's check of a report's generation).  A phone's
\* address is never the mark for no request.
THEOREM SessionsSafe ==
  ASSUME Srv!None \notin Phones
  PROVE  Srv!Spec => []Srv!SessionsAgree
<1>1. PortInv => Srv!SessionsAgree BY DEF PortInv, PortShaped, ToldInv, Srv!SessionsAgree, Srv!NoRequest
<1>2. QED BY InitInv, NextInv, <1>1, PTL DEF Srv!Spec

\* Once a run has started, it has asked to drop every phone that a killed run served and that
\* has stayed connected, however often the daemon is killed or fails to start
\* (record_clients and drop_stale).
THEOREM LeftBehindDropped == Srv!Spec => []Srv!StaleDropped
<1>1. PortInv => Srv!StaleDropped BY DEF PortInv, FileInv, Listed, Srv!StaleDropped
<1>2. QED BY InitInv, NextInv, <1>1, PTL DEF Srv!Spec
==============================================================================
