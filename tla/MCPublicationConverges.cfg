\* Two folders of a series and a task in the first, under fair cycles.
SPECIFICATION FairSpec
CONSTANTS
  o1 = o1
  o2 = o2
  o3 = o3
  d1 = d1
  d2 = d2
  d3 = d3
  series = series
  movie = movie
  NoObject = NoObject
  Object = {o1, o2, o3}
  Source = {1, 2, 3}
  Library = {d1, d2, d3}
  Entry = {series}
  Local = {1, 2}
  Task = {3}
  Movie = {}
  EntryOf <- SeriesEntry
  Files <- SeriesScopes
  Root <- SeriesRoot
  Layouts <- SeriesLayouts
  Files0 <- SeriesFiles
  MaxEvents = 2
  RaceWindows = FALSE
INVARIANT CycleLeavesCanonical
PROPERTIES
  RemovesOnlyStaleNames
  ChainsConverge
  RestsWhenAgreed
