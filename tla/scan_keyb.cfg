\* Three keys, scans that fail, loading and unloading.
SPECIFICATION FairSpec
CONSTANTS
  Keys = {a, b, c}
  NoKey = NoKey
INVARIANTS TypeOK KeysMatchScan
PROPERTIES KeyReported RepeatEnds
