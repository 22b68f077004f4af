SPECIFICATION FairSpec
CONSTANTS
  a = a
  b = b
  c = c
  d = d
  Threads = {t1, t2}
  Names = {a, b, c, d}
  MaxTypes = 2
  NAME_STR_MAX = 4
  Spellings <- SomeSpellings
  PrefixPairs <- NoPairs
  CallsPerThread = 2
  MARKER = MARKER
  INT64_MAX = INT64_MAX
  Unset = Unset
INVARIANT TableOK
PROPERTIES ImplementsAtomicNames ReturnsUnlessAbandoned
CHECK_DEADLOCK FALSE
