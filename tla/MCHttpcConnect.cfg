SPECIFICATION ConnectSpec
CONSTANTS
  Fd = {3, 4}
  Schemes = {TRUE, FALSE}
  Versions = {"1.1", "2"}
  Uris <- MCUris
  CallerPort = 80
CHECK_DEADLOCK FALSE
INVARIANTS TypeOK OwnInv FdInv NothingOutlivesTheCall PlainLeavesNothing RouteByShape NamedPeer
PROPERTIES DeinitReleasesAll PlainClosesOnlyItsOwn
