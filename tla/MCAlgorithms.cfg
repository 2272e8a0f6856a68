\* An input is complete when it is as long as its bound.
SPECIFICATION Spec
CONSTANTS
  Unsaid = Unsaid
  Unnamed = Unnamed
  LastEpisode = 5
  MaxOffers = 4
  MaxFiles = 3
  MaxFolders = 3
  Object = {o1, o2}
  Group = {g1, g2}
  g1 = g1
  g2 = g2
INVARIANTS
  ScheduledIsBest
  InventorySound
  ProjectionFollowsEvidence
CHECK_DEADLOCK FALSE
