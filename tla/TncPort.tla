------------------------------ MODULE TncPort -------------------------------
(***************************************************************************)
(* What a bridge promises to whoever watches its TNC port (TncState in     *)
(* bridge/mod.rs, read by `status`, the TUI and the supervisor): which     *)
(* states follow which, and that attempt counts the consecutive failed     *)
(* connects behind a backoff.                                              *)
(***************************************************************************)
EXTENDS Naturals

VARIABLES state, attempt

\* States in which a connect is under way or about to be tried again.
Trying == {"Connecting", "Unpaired", "WaitingForDevice"}

Init == attempt = 0 /\ state \in {"Idle", "Connecting"}

\* A connect begins, also after a backoff; a poll keeps showing its state.
Connect == state \in {"Idle", "Backoff"} /\ state' = "Connecting"
           /\ UNCHANGED attempt

\* The port is given a new connector, or came up only to be let go: what
\* failed before doesn't count.
Restart == state' \in {"Connecting", "Idle"} /\ attempt' = 0

Up == state \in Trying /\ state' = "Connected" /\ attempt' = 0

Fail == state \in Trying /\ state' = "Backoff" /\ attempt' = attempt + 1

\* Not paired, or not plugged in: polled, without counting attempts.
Wait == /\ state \in Trying /\ attempt' = 0
        /\ state' \in {"Unpaired", "WaitingForDevice"}

Lost == state = "Connected" /\ state' = "Backoff" /\ attempt' = 1

\* Nobody wants the link.
LetGo == state' = "Idle" /\ UNCHANGED attempt

Next == Connect \/ Restart \/ Up \/ Fail \/ Wait \/ Lost \/ LetGo

Spec == Init /\ [][Next]_<<state, attempt>>
=============================================================================
