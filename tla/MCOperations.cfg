CONSTANTS
  MemDepth <- MCPageDepth
  Programs <- ShortPrograms
SPECIFICATION LiveSpec
INVARIANT TypeOK
PROPERTY ImplementsIsa
PROPERTY KeepsFetching
