SPECIFICATION LiveSpec
CONSTANTS
  s1 = s1
  s2 = s2
  Server <- MCServer
  NoServer = NoServer
  Client = {c1}
  Request = Request
  MAX_SERVERS = 2
  MAX_CONN_REQ = 0
INVARIANTS TypeOK ListInv SessionIsListedAlone HandleOfOneServerAlone
PROPERTIES RegistersAlone
CHECK_DEADLOCK FALSE
