SPECIFICATION DSpec
CONSTANTS
  MaxEntries = 4
  Grain = 4
  MaxUpdates = 2
INVARIANTS DTypeOK BookExists TextMatchesPage CurrentPageRight
PROPERTIES CompletionNotDropped TouchesComeBack
