SPECIFICATION FairSpec
CONSTANTS
  h1 = h1
  v1 = v1
  v2 = v2
  s1 = s1
  loop = loop
  admin = admin
  admin2 = admin2
  Hosts = {h1}
  Vmids = {v1, v2}
  Containers = {v1}
  Subjects = {}
  Drivers = {loop, admin}
  Loop = loop
  NoHost = NoHost
  Registered <- OneRegistered
  MaxInstances = 1
  MaxGuestRows = 12
  MaxGrants = 0
  MaxDisturbances = 2
PROPERTY
  Converges
