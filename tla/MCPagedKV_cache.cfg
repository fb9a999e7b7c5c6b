\* Prefix cache, prefix groups, speculative drafts and decode windows.
CONSTANTS
  Blocks = {b1, b2, b3}
  Requests = {r1, r2}
  Entries = {e1, e2, e3}
  Tokens = {t1, t2}
  BlockSize = 2
  MaxEntries = 2
  PrefixCache = TRUE
  MaxLen = 4
  MaxWrite = 3
  NoKV = NoKV
SPECIFICATION Spec
SYMMETRY Symmetry
CHECK_DEADLOCK FALSE
INVARIANT TypeOK
INVARIANT RefcountExact
INVARIANT FreeIffUnowned
INVARIANT ReadsOwnHistory
INVARIANT CachedPrefixExact
INVARIANT AppendCostExact
INVARIANT PlannedSlotsPrivate
