CONSTANTS
  Addr = {a1, a2}
  Account = {x, y}
  NoAccount = NoAccount
SPECIFICATION Spec
INVARIANTS MergeIsConsecutiveApply UpsertsDeletesDisjoint OverlayExactOffDeletes
