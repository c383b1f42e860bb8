SPECIFICATION PSpec
CONSTANTS
  k1 = k1
  k2 = k2
  Keys <- MCKeys
  MaxVersion = 3
  Entries <- MCEntries
  DefaultKeys <- MCDefaultKeys
  MaxTime = 5
  MaxPending = 3
  LoadMayTimeOut = FALSE
INVARIANT CachesFetchedValues
