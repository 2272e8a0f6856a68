\* One failure, of a downloader that moves by renaming.
SPECIFICATION FairSpec
CONSTANTS
  File = {f1}
  Media = {"series"}
  MayCopy = FALSE
  MaxEvents = 1
PROPERTY ProjectionSettles
CHECK_DEADLOCK FALSE
