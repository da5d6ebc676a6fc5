SPECIFICATION MCSpec
CHECK_DEADLOCK FALSE
CONSTANTS
  Conns = {1, 2}
  Peer <- MCPeer
  Lives <- MCLives
  AppQueue = 1
  Frames = 1
  MaxEdits = 1
INVARIANTS
  NoGhosts Intact
PROPERTIES
  NeverOverMax SessionsEnd
