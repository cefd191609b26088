SPECIFICATION SessionSpec
CONSTANTS
  Heights = {3, 5, 6}
  MaxResizes = 1
  Chunks <- BarChunks
  Pieces = 3
  Guests <- CaseGuests
  Instances <- CaseInstances
  Row <- CaseRow
  NodeName <- CaseNodeName
  WithSSHHost <- CaseWithSSHHost
  LoginNames <- CaseNames
  OwnName <- CaseOwnName
  MaxChanges = 1
  PickerRows = {"a", "b", "c", "d", "e"}
  Order <- PickerOrder
  Letters <- PickerLetters
  Score <- PickerScore
  Stopped = {"a", "c"}
  MaxFilter = 2
  WindowHeights = {9, 10}
  MaxKeys = 3
  MaxOutput = 1
  Window = 1
INVARIANTS
  TypeOK
  RowIsReserved
  StopReleasesScreen
  SamePlace
  EveryTargetHasAName
  ListIsInOrder
  EscapeIsExact
  NothingTrails
  AnsweredPiecesStay
  AttributesHold
PROPERTIES
  GuestCursorIsSafe
  BarReturns
  NeverAGuess
  HighlightFollows
  BridgeEnds
CHECK_DEADLOCK FALSE
