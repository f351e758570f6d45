SPECIFICATION Spec
CONSTANTS
  Peers = {p1, p2}
  Dialable = {p1}
  Tracked = {p1, p2}
  Fds = {f1, f2}
  InboundMax = 1
  InboxMax = 1
  BacklogMax = 1
  PeerMsgs = {"STATUS_REPORT", "TASK_REQUEST", "TASK_RESULT"}
  Commands = {}
  NoFd = NoFd
  BadFd = BadFd
  NoId = NoId
SYMMETRY Symmetric
INVARIANTS TypeOK TablesSound EligibleIsConnected IdentifiedSockets ReadNeverBlocks
