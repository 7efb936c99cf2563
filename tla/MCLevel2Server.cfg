CONSTANTS
  Connections = {c1, c2}
  Watched = c1
  Kinds <- KindsSent
  MaxPackets = 2
SPECIFICATION FairSpec
INVARIANTS TypeOK NoStaleAvailability
PROPERTIES ImplementsChannel PublishedOnlyIfHeeded ConnectionsServed
