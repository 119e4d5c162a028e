SPECIFICATION Spec
CONSTANTS
  Texts <- MCTexts
  Empty = ""
  AllText = "all"
  Trim <- MCTrim
  Lower <- MCLower
  Typed <- MCTyped
  Links <- MCLinks
  TriedStatuses = {"all", "failed"}
  TriedSorts = {"newest", "duration-asc"}
  RowsAt <- MCRowsAt
  MaxVersion = 2
  Requests = {1, 2}
  MaxEdits = 2
  MaxRetries = 1
INVARIANTS
  TypeOK
  ScreenAgrees
PROPERTY
  PageSettles
