SPECIFICATION MCSpec
CONSTANTS
  MaxSize = 3
  MaxPkts = 4
  Ecns = {0, 1}
  Routes <- AllRoutes
  Transient = {"EAGAIN", "ENOBUFS", "UNREACHABLE", "FAILED"}
INVARIANTS SentAsReported ReceivedAsSent
PROPERTIES TurnsAreSound
