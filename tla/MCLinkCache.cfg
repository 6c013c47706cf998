CONSTANTS
  l1 = l1
  l2 = l2
  Links <- MCLinks
  Files <- MCFiles
  Keyed <- MCKeyed
  MaxVersion = 1
  MaxRuns = 1
SPECIFICATION CacheSpec
CHECK_DEADLOCK FALSE
INVARIANTS CacheSound DoneWhole
PROPERTIES LinksEnd
