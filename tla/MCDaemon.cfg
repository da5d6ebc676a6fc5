SPECIFICATION MCSpec
CHECK_DEADLOCK FALSE
CONSTANTS
  Texts <- OneText
  BridgeDefs <- NewBridge
  PortDefs <- NewPort
  TncDefs <- NewTncs
  AdapterDefs <- NewAdapters
  BridgeIds <- AllIds
  ObjectIds <- Objects
  Bounds <- StoreBounds
  Workloads <- SupervisorBounds
  Peers <- TwoPeers
  Adapters <- Builtin
INVARIANTS
  RestartKeeps SocketsClaimedOnce RunsAsConfigured AnnouncedAsListening ForcedAfterRefusal DefinitionFits
  PickedAsShown EditsKept
PROPERTIES
  PutReplacesWhatWasGot DisruptionsForetold
