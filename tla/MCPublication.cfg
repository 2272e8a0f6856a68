\* A movie of two files beside a series, while names may change between any two
\* system calls.
SPECIFICATION Spec
CONSTANTS
  o1 = o1
  o2 = o2
  o3 = o3
  d1 = d1
  d2 = d2
  d3 = d3
  series = series
  movie = movie
  NoObject = NoObject
  Object = {o1, o2, o3}
  Source = {1, 2, 3}
  Library = {d1, d2, d3}
  Entry = {series, movie}
  Local = {1, 2}
  Task = {3}
  Movie = {1, 3}
  EntryOf <- MovieEntry
  Files <- MovieScopes
  Root <- MovieRoot
  Layouts <- MovieLayouts
  Files0 <- MovieFiles
  MaxEvents = 2
  RaceWindows = TRUE
INVARIANTS
  IInv
PROPERTIES
  NeverReplaces
  KeepsCanonical
