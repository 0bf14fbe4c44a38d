SPECIFICATION Spec
CONSTANTS
  c1 = c1
  c2 = c2
  i1 = i1
  i2 = i2
  p1 = p1
  p2 = p2
  Columns <- MCColumns
  Inputs <- MCInputs
  Clis <- MCClis
  MaxCommands = 4
SYMMETRY Symmetry
INVARIANT TypeOK
PROPERTIES RejectedStays GoneIsDecided ProposesUndecided AcceptsAsListed
CHECK_DEADLOCK FALSE
