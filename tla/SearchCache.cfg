SPECIFICATION Spec
CONSTANTS
  Threads = {t1, t2}
  Keys = {k1}
  NoKey = NoKey
  CACHE_SEDES_DIAS = 2
  MaxDay = 3
  MaxUses = 3
INVARIANT ToldWhileValid
CHECK_DEADLOCK FALSE
