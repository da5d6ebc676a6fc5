\* The life of the link: sessions come and go, links fail, settings change, the link is held and
\* restarted; and what must eventually happen once the environment has done its worst.
CONSTANTS
  Sessions = {s1}
  Cmds = {16}
  SettingsSet <- LiveSettings
  Holds <- AllHolds
  UPLINK_QUEUE_FRAMES = 1
  WRITER_QUEUE = 1
  APP_QUEUE = 1
  TNC_QUEUE = 1
  MaxOpens = 1
  MaxFrames = 1
  MaxDowns = 0
  MaxCmds = 1
  MaxFaults = 1
SPECIFICATION FairSpec
CHECK_DEADLOCK FALSE
INVARIANT
  LinkConsistent
PROPERTIES
  WantedLinkComesUp
  UnwantedLinkReleased
  ShutdownEnds
