SPECIFICATION LoginSpec
CONSTANTS
  Guests <- CaseGuests
  Instances <- CaseInstances
  Row <- CaseRow
  NodeName <- CaseNodeName
  WithSSHHost <- CaseWithSSHHost
  LoginNames <- TwoNames
  OwnName <- CaseOwnName
  MaxChanges = 0
INVARIANT
  OwnNameMeansProxpass
