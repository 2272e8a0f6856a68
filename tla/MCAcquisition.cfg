\* Lost replies, failed listings, removals and crashes at any point of a cycle.
SPECIFICATION FairSpec
CONSTANTS
  season = season
  movie = movie
  other = other
  Release = {1, 2, 3}
  Work = {season, other}
  Movie = {}
  WorkOf <- SeasonOf
  Eps <- SeasonEps
  Astray = {1}
  Batch = TRUE
  Feeds <- SeasonFeeds
  Searches <- SeasonSearches
  Unreadable = {{}}
  Hidden = {{}, {season}}
  Library0 <- SeasonLibraries
  MaxEvents = 2
INVARIANTS
  IInv
  SeasonsNotAskedAgain
  NeverAddsHeld
  AsksOncePerCycle
PROPERTY OfferedArrives
