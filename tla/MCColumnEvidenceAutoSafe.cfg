CONSTANTS
  Values <- MCValues
  Empty = ""
  Flags <- MCFlags
  Codes <- MCDates
  Dates <- MCDates
  TitleCase <- MCTitleCase
  Pii <- MCTexts
  Emails = {}
  OverEnum <- MCPhrases
  Long <- MCTexts
  trust = "corroborated"
  DISTINCT_CAP = 2
  PROMOTE_MIN_USES = 2
  PROMOTE_MIN_CELLS = 3
  PROMOTE_MIN_REPEAT = 2
  MaxCells = 3
  MaxUses = 3
SPECIFICATION Spec
INVARIANT AutoSafeIsRepeated
