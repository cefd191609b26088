SPECIFICATION FairSpec
\* The session ends and the helper with it.
CHECK_DEADLOCK FALSE
CONSTANTS
  r1 = r1
  r2 = r2
  r3 = r3
  Hello = Hello
  Ops = {r1}
  Stuck = {r1}
  Quit = Quit
  Eof = Eof
  None = None
PROPERTY
  HelperGone
