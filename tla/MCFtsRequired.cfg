CONSTANTS
  Inputs <- RequiredSearches
  BlockSize = 2
  NormLimit = 20
  FilterInputs <- NoFilters
  RangeBlockSize = 2
  Layouts <- NoLayouts
  Inserters = 1
SPECIFICATION Spec
INVARIANTS
  SimplifySafe
