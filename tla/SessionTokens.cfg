SPECIFICATION LoginSpec
\* Logins that have come and gone, at the end of time, do nothing more.
CHECK_DEADLOCK FALSE
SYMMETRY Symmetry
CONSTANTS
  Logins = {l1, l2}
  Callers = {a, b}
  TokenTTL = 1
  CredentialTTL = 2
  MaxTime = 4
  None = None
  admin = admin
  ADMIN = ADMIN
  ann = ann
  Ann = Ann
  torn = torn
  Typed <- TypedNames
  Fold <- FoldedNames
  ValidLoginName = {admin, ADMIN, ann, Ann}
  ClientNames = {ann, admin}
  Admin = admin
  Alias = alias
  Nobody = nobody
  Layouts <- SmallLayouts
  FirstNonSystemID = 2
  MinRoom = 2
  MaxRows = 3
INVARIANTS
  TypesOK
  NobodyLockedOut
  OnlyLiveSessions
  UidsKeepApart
  KeyIsIdentity
PROPERTY
  AdmitsOnce
