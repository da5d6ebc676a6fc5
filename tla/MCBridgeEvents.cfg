\* Late events: frames and losses reported by the tasks of a link that is
\* no longer the bridge's.
CONSTANTS
  Sessions = {s1}
  Cmds = {16}
  SettingsSet <- DataSettings
  Holds <- NoHolds
  UPLINK_QUEUE_FRAMES = 1
  WRITER_QUEUE = 1
  APP_QUEUE = 1
  TNC_QUEUE = 3
  MaxOpens = 2
  MaxFrames = 1
  MaxDowns = 1
  MaxCmds = 0
  MaxFaults = 2
SPECIFICATION Spec
CHECK_DEADLOCK FALSE
INVARIANTS
  StaleEventsIgnored
  DeadLinkNoticed
PROPERTIES
  StateAsWatched
