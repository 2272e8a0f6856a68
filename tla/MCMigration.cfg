\* Two files of which one may still be downloading, two failures, crashes or
\* meddlings, and a downloader that may copy.
SPECIFICATION FairSpec
CONSTANTS
  File = {f1, f2}
  Media = {"series", "movie"}
  MayCopy = TRUE
  MaxEvents = 2
INVARIANTS
  IInv
  ResumesWhatItPaused
PROPERTIES
  AcceptsOnlySameObjects
  MigrationEnds
  MigrationSettles
CHECK_DEADLOCK FALSE
