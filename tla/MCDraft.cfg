CONSTANTS
  m = m ed = ed None = None Gone = Gone
  Movies = {m} Serials = {} Episodes = {} Podcasts = {}
  Editors = {ed}
  Limit = 1 MaxTime = 1
SPECIFICATION Spec
PROPERTY DraftIsHidden
CHECK_DEADLOCK FALSE
