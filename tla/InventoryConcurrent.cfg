SPECIFICATION Spec
CONSTANTS
  h1 = h1
  v1 = v1
  v2 = v2
  s1 = s1
  loop = loop
  admin = admin
  admin2 = admin2
  Hosts = {h1}
  Vmids = {v1}
  Containers = {v1}
  Subjects = {s1}
  Drivers = {admin, admin2}
  Loop = loop
  NoHost = NoHost
  Registered <- OneRegistered
  MaxInstances = 2
  MaxGuestRows = 2
  MaxGrants = 1
  MaxDisturbances = 1
INVARIANTS
  TypeOK
  GrantsReachOnlyTheirTarget
PROPERTIES
  NoRuleOutlivesItsTarget
  GrantsSurviveDiscovery
  PrunesOnlyUnlisted
SYMMETRY
  Administrators
