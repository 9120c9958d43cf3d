SPECIFICATION Spec
CONSTANTS
  Routes = 2
  QueueSize = 2
  Batch = 1
  SilenceLimit = 1
  Numbers = 2
INVARIANTS NothingLost
PROPERTIES NoRouteStarves RouteEndSurfaces WorkersLeave
