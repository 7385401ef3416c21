SPECIFICATION Spec
CONSTANTS
  None = None
  Peer = {"silent", "prompt", "granted"}
  Prompt = {"prompt"}
  Grants <- GrantEnds
  HeartbeatDelay = 3
  Slack = 1
  MaxLate = 1
  MaxSendDelay <- Delays
  MaxRtt = 1
  JoinDelay = 2
  JoinTimeout = 3
  MaxSkew = 1
  MaxTime = 11
  MaxPeers = 1
INVARIANTS NobodyOverstays PromptPeersStay AccessEnds
PROPERTIES RenewalsExtend
CHECK_DEADLOCK FALSE
