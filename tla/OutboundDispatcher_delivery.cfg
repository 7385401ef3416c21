SPECIFICATION Spec
CONSTANTS
  Peer = {1, 2, 3}
  Age <- ThreePeers
  Sizes = {1, 2}
  MaxQueue = 2
  MaxPeerBytes = 3
  MaxGlobalBytes = 4
  MaxAccepted = 2
INVARIANTS CountsAddUp OneSender NothingIsStuck
PROPERTIES ImplementsChannel SentOrClosed
CHECK_DEADLOCK FALSE
