\* A movie that is offered and comes to the library.
SPECIFICATION Spec
CONSTANTS
  season = season
  movie = movie
  other = other
  Release = {1, 2}
  Work = {movie}
  Movie = {movie}
  WorkOf <- MovieOf
  Eps <- MovieEps
  Astray = {}
  Batch = FALSE
  Feeds = {{1}, {1, 2}}
  Searches = {{}}
  Unreadable = {{}}
  Hidden = {{}}
  Library0 <- MovieLibraries
  MaxEvents = 1
INVARIANT MoviesNotAskedAgain
