CONSTANTS
  Inputs <- Searches
  BlockSize = 2
  NormLimit = 20
  FilterInputs <- Filters
  RangeBlockSize = 2
  Layouts <- GraphLayouts
  Inserters = 2
SPECIFICATION Spec
INVARIANTS
  SearchExact SimplifyKeepsMeaning FilterExact GraphsServe
PROPERTIES
  LinksNotLost BuildEnds
