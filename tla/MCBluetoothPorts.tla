------------------------------ MODULE MCBluetoothPorts ------------------------------
(***************************************************************************)
(* The Bluetooth ports for TLC: the SPP client, the BLE client, the KISS   *)
(* initialization that their links begin with, and the manager of the BLE  *)
(* servers.  They share no state here, and each property is about one of   *)
(* them: one of them runs in a behaviour, and the others rest where they   *)
(* started.                                                                *)
(***************************************************************************)
EXTENDS SppClient, Sequences, TLC

VARIABLES
  active,   \* the component that takes steps
  b_task, b_wanted, b_tried, b_powered, b_known, b_dialing, b_le, b_discs, b_used, i_found, i_radio,
  i_sink, i_wire, i_scan, i_step, i_out, i_used, m_host, m_slots, m_ending, m_monitors, m_watching,
  m_events, m_look, m_pc, m_removing, m_used

\* The manager: two adapter names, and a port for each kind of selector.  What comes and goes,
\* commands, and calls that BlueZ fails though the adapter is there.
Select == [p |-> <<"default">>, q |-> <<"mac", "a">>, r |-> <<"hci", "hci1">>]
ManagerBounds ==
  {[host |-> 3, cmds |-> 1, fails |-> 0], [host |-> 1, cmds |-> 2, fails |-> 0], [host |-> 2, cmds |-> 1, fails |-> 1]}

Ble == INSTANCE BleClient WITH
  Tasks <- 3, Aborts <- 1, LetGos <- 1, Pending <- 1, Failures <- 2, task <- b_task, wanted <- b_wanted,
  tried <- b_tried, powered <- b_powered, known <- b_known, dialing <- b_dialing,
  le <- b_le, discs <- b_discs, used <- b_used

Kiss == INSTANCE TncInit WITH
  BUSY_RETRIES <- 1, MAX_FRAME <- 3, Heard <- 3, Odd <- 1, Models <- {"ThD7x", "Generic"},
  found <- i_found, radio <- i_radio, sink <- i_sink, wire <- i_wire, scan <- i_scan, step <- i_step,
  out <- i_out, used <- i_used

Man == INSTANCE BleManager WITH
  Names <- <<"hci0", "hci1">>, Macs <- {"a", "b"}, Slots <- {"p", "q", "r"}, Selector <- Select,
  Bounds <- ManagerBounds, host <- m_host, slots <- m_slots, ending <- m_ending, monitors <- m_monitors,
  watching <- m_watching, events <- m_events, look <- m_look, pc <- m_pc, removing <- m_removing, used <- m_used

ble_vars == <<b_task, b_wanted, b_tried, b_powered, b_known, b_dialing, b_le, b_discs, b_used>>
kiss_vars == <<i_found, i_radio, i_sink, i_wire, i_scan, i_step, i_out, i_used>>
man_vars == <<m_host, m_slots, m_ending, m_monitors, m_watching, m_events, m_look, m_pc, m_removing, m_used>>
all == <<active, vars, ble_vars, kiss_vars, man_vars>>

------------------------------------------------------------------------------
\* A step of one component, while the others rest.
AsSpp(A) == active = "spp" /\ A /\ UNCHANGED <<active, ble_vars, kiss_vars, man_vars>>
AsBle(A) == active = "ble" /\ A /\ UNCHANGED <<active, vars, kiss_vars, man_vars>>
AsKiss(A) == active = "init" /\ A /\ UNCHANGED <<active, vars, ble_vars, man_vars>>
AsMan(A) == active = "manager" /\ A /\ UNCHANGED <<active, vars, ble_vars, kiss_vars>>

\* One component starts as it may; where the others rest does not matter.
MCInit ==
  /\ active \in {"spp", "ble", "init", "manager"}
  /\ Init /\ (active # "spp" => host.powered /\ host.channel)
  /\ Ble!Init /\ (active # "ble" => ~b_powered /\ ~b_known)
  /\ Kiss!Init /\ (active # "init" => i_found = [mode |-> 0, band |-> 0, elsewhere |-> FALSE] /\ i_wire = <<>>)
  /\ Man!Init /\ (active # "manager" => DOMAIN m_host = {} /\ m_used.bound.fails = 1)

MCNext ==
  \/ AsSpp(Next)
  \/ AsBle(Ble!Next)
  \/ AsKiss(Kiss!Next)
  \/ AsMan(Man!Next)

\* The fairness of each component's own specification.  Only the active one has steps, so that
\* fairness for one step of each at a time is fairness for all of them.
Fair1 ==
  \/ AsBle(Ble!Start)
  \/ AsMan(Man!Reconcile)
Fair2 ==
  \/ AsBle(Ble!Dialed)
  \/ AsMan(Man!TakeEvent)
Fair3 ==
  \/ AsBle(Ble!Disconnect)
  \/ AsMan(Man!Removed)
Fair4 ==
  \/ AsBle(Ble!TaskStep(1))
  \/ AsMan(Man!Tick)
Fair5 ==
  \/ AsBle(Ble!TaskStep(2))
  \/ AsMan(Man!InstStep)
Fair6 ==
  \/ AsBle(Ble!TaskStep(3))

MCSpec ==
  /\ MCInit /\ [][MCNext]_all
  /\ WF_all(Fair1) /\ WF_all(Fair2) /\ WF_all(Fair3) /\ WF_all(Fair4) /\ WF_all(Fair5) /\ WF_all(Fair6)

\* The manager alone.
ManagerSpec == MCSpec /\ active = "manager"

------------------------------------------------------------------------------
\* BleClient.

\* A bridge that goes on wanting its link gets it, and past the last fault keeps it, whatever
\* an abandoned connect or the disconnect of an earlier link does to the connection in between
\* (BleLink::drop).  Left out is a bridge whose connects again and again start before the last
\* disconnect was made: each may end the link after it.
UpForGood == Ble!UpForGood

------------------------------------------------------------------------------
\* TncInit.

\* Taking a TNC and letting it go leaves it as it was found: the exit sequence turns the TNC
\* off, or back to APRS on the band it was using.  A radio that is busy for longer than the
\* retries, or answers late, has not said what it was using.
LeftAsFound == active = "init" => Kiss!LeftAsFound

\* The frames that came in during init reach the bridge, whole, in order and once, ahead of
\* those that come after: those that the scanner took, which Prefixed puts back, and those that
\* it left on the link; and nothing else does.  A frame that init's last read ended inside of
\* is the exception, and a reply that comes late may be taken for a frame.
FramesKept == active = "init" => Kiss!FramesKept

------------------------------------------------------------------------------
\* BleManager.

\* As long as the manager runs, a port whose adapter stays present and powered ends up served
\* there, whatever came and went, failed or was told late before.
ServesWhenItCan == Man!ServesWhenItCan

\* The promise of mod ble: a port is started when its adapter is present, again when it returns,
\* and again if it failed to start.  Only a shutdown ends that.
PortsComeBack == Man!PortsComeBack
==============================================================================
