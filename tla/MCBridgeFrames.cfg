\* Frames through the bridge: queues at their limits, links lost and closed
\* with frames under way, late events of former links.
CONSTANTS
  Sessions = {s1}
  Cmds = {16, 1}
  SettingsSet <- DataSettings
  Holds <- NoHolds
  UPLINK_QUEUE_FRAMES = 2
  WRITER_QUEUE = 2
  APP_QUEUE = 1
  TNC_QUEUE = 2
  MaxOpens = 2
  MaxFrames = 3
  MaxDowns = 0
  MaxCmds = 0
  MaxFaults = 1
SPECIFICATION Spec
CHECK_DEADLOCK FALSE
INVARIANTS
  FramesAccounted
  UplinkInOrder
  ExitKissLast
