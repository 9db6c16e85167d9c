\* A filter is set before the settings are posted.
CONSTANTS
  Items = {1, 2}
  Keys = {0, 1}
  Filters <- FiltersMC
  Posts <- PostsMC
  Overlap = FALSE
  EarlyFilter = TRUE
SPECIFICATION Spec
INVARIANT MatchingIsFiltered
