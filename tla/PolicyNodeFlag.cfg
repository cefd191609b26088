SPECIFICATION PolicySpec
CONSTANTS
  c1 = c1
  s1 = s1
  s2 = s2
  Commands = {c1}
  Pages = {}
  Addresses = {}
  Settings = {}
  Names = {}
  NodeAt <- NoNodes
  NoNode = NoNode
  Absent = Absent
  Entries = {s1, s2}
  NoForm = NoForm
PROPERTY
  CommandsKeepNodeAccess
