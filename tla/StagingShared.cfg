SPECIFICATION StageSpec
\* Every transfer has staged the helper, or failed.
CHECK_DEADLOCK FALSE
CONSTANTS
  Sessions = {t1, t2}
  Blocks = 2
  NoFile = NoFile
INVARIANT
  SeesNoneOrWhole
