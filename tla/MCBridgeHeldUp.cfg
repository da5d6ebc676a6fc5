\* A held link and a change of settings.
CONSTANTS
  Sessions = {s1, s2}
  Cmds = {0}
  SettingsSet <- LinkSettings
  Holds <- AllHolds
  UPLINK_QUEUE_FRAMES = 1
  WRITER_QUEUE = 1
  APP_QUEUE = 1
  TNC_QUEUE = 2
  MaxOpens = 2
  MaxFrames = 0
  MaxDowns = 0
  MaxCmds = 2
  MaxFaults = 1
SPECIFICATION Spec
CHECK_DEADLOCK FALSE
INVARIANT
  HeldUpStaysUp
