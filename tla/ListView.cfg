\* Requests of the view wait for the timer, users change at any time.
CONSTANTS
  Items = {1, 2}
  Keys = {0, 1}
  Filters <- FiltersMC
  Posts <- PostsMC
  Overlap = FALSE
  EarlyFilter = FALSE
SPECIFICATION Spec
INVARIANTS TypeOK ViewMatchesUsers ClientShowsRange ShownAreDescribed ShownAreFresh
