SPECIFICATION MCSpec
CHECK_DEADLOCK FALSE
INVARIANTS
  SessionsAgree StaleDropped PairedByReply EventsAccounted BytesConserved
PROPERTIES
  WatchedPhonesHeard EveryRequestAnswered AnsweredById UnderWayEnds StatusCatchesUp
