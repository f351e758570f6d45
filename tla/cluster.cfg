SPECIFICATION FairSpec
CONSTANTS
  Nodes = {n1, n2}
  Dialable = {n1, n2}
  Tasks = {t1, t2}
  InboundMax = 1
  Crowded = {n2}
  NoTask = NoTask
  NoNode = NoNode
PROPERTIES ImplementsDispatch LossHasACause Settles
