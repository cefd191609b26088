SPECIFICATION FairSpec
\* The session ends and the helper with it.
CHECK_DEADLOCK FALSE
CONSTANTS
  r1 = r1
  r2 = r2
  r3 = r3
  Hello = Hello
  Ops = {r1, r2, r3}
  Stuck = {}
  Quit = Quit
  Eof = Eof
  None = None
INVARIANTS
  TypeOK
  ReplyIsOwn
  MismatchNeverServes
PROPERTIES
  ImplementsService
  CallsReturn
  HelperGone
