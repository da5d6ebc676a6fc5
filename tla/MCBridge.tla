------------------------------ MODULE MCBridge ------------------------------
(***************************************************************************)
(* Values of Bridge's constants for TLC.                                   *)
(***************************************************************************)
EXTENDS Bridge

Settings(connects, idles, params, exits) ==
  [connect : connects, idle_timeout : idles, app_params : params,
   exit_kiss_on_disconnect : exits]

\* Every way the link can be asked for and let go of.
LinkSettings == Settings({"OnDemand", "Always"}, {0, 1}, {"Pass"}, {FALSE})

\* On demand, closed at once with a teardown; parameter frames are refused.
DataSettings == Settings({"OnDemand"}, {0}, {"Drop"}, {TRUE})

\* The link is asked for and let go of in every way, with a teardown.
LiveSettings == Settings({"OnDemand", "Always"}, {0, 1}, {"Pass"}, {TRUE})

AllHolds == {"none", "up", "down"}
NoHolds == {}
=============================================================================
