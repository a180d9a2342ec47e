SPECIFICATION Spec
CONSTANTS
  root = root
  narrow1 = narrow1
  narrow2 = narrow2
  p1 = p1
  p2 = p2
  Object <- MCObject
  Root <- root
  Peer <- MCPeer
  Request <- MCRequest
  Invalid <- MCInvalid
  Endpoints <- MCEndpoints
  Rule <- MCRule
  Admits <- MCAdmits
  None = None
  Backlog = 2
  MaxUnread = 1
  MaxConn = 2
INVARIANTS SocketsAccounted ListensInsideAncestors
PROPERTIES IdsNeverRevive
