SPECIFICATION FairSpec
CONSTANTS
  Peers = {p1}
  Dialable = {p1}
  Tracked = {p1}
  Fds = {f1, f2}
  InboundMax = 1
  InboxMax = 1
  BacklogMax = 1
  PeerMsgs = {"STATUS_REPORT"}
  Commands = {"scatter"}
  NoFd = NoFd
  BadFd = BadFd
  NoId = NoId
PROPERTIES CrashNoticed
