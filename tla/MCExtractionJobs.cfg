SPECIFICATION FairSpec
CONSTANTS
  Holder = {r1, r2}
  Handler = {h1, h2}
  Operation = {j1}
  MaxAttempts = 2
  NoHolder = NoHolder
  NoKey = NoKey
  KeyOf <- NoKeys
INVARIANTS TypeOK ResultPersistsOnce
PROPERTIES LateResultRefused EveryJobSettles RunCatchesUp
