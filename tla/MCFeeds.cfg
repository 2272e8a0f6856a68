\* Three torrents for a cache of two entries or three bytes; two feeds on two
\* hosts for a cache and a cooldown table of one; two sources.
SPECIFICATION Spec
CONSTANTS
  Url = {1, 2, 3}
  Hash = {h1, h2}
  h1 = h1
  h2 = h2
  Reader = {r1, r2, r3}
  Nothing = Nothing
  Served <- Torrents
  MaxEntries = 2
  MaxBytes = 3
  TTL = 1
  MaxNow = 2
  Feed = {1, 2}
  HostOf <- OneEach
  Client = {c1, c2}
  Missing = Missing
  NotModified = NotModified
  MaxFeeds = 1
  MaxHosts = 1
  Delays = {0, 1, 2}
  MaxVersion = 2
  MaxTime = 1
  Src = {s1, s2}
  Feeds = {a, b}
  None = None
  MaxClock = 4
INVARIANTS
  CacheSound
  OneFlight
  HonestSnapshots
PROPERTIES
  CooldownKept
  PlansFromOwnReads
  ReadersReturn
CHECK_DEADLOCK FALSE
