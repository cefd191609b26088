SPECIFICATION AdminSpec
CONSTANTS
  client = client
  g1 = g1
  g2 = g2
  guest = guest
  node = node
  c1 = c1
  c2 = c2
  p1 = p1
  a1 = a1
  a2 = a2
  n1 = n1
  n2 = n2
  s1 = s1
  s2 = s2
  Client = client
  Groups = {g1}
  Guests = {guest}
  Nodes = {node}
  NoTarget = NoTarget
  Policies <- AllPolicies
  MaxEdits = 2
  Commands = {c1, c2}
  Pages = {p1}
  Addresses = {a1, a2}
  Settings = {s1, s2}
  Names = {n1, n2}
  NodeAt <- TwoNodes
  NoNode = NoNode
  Absent = Absent
  Entries = {s1, s2}
  NoForm = NoForm
INVARIANTS
  TypesOK
  OneEditLinearizable
  UndisturbedIsExact
  MonotoneEdits
  NodeMatchesAddress
PROPERTIES
  FreshInstanceWrites
  FreshPolicyWrites
SYMMETRY
  CommandSymmetry
