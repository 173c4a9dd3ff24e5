SPECIFICATION FairSpec
CONSTANTS
  c1 = c1
  c2 = c2
  Cmds <- TwoCmds
  Conns = {1, 2, 3}
  Info = Info
  None = None
  PoolSize = 2
  MaxRetries = 1
  MaxFaults = 1
INVARIANTS OneOwner PoolBounded GateHasDialer OkIsExecuted LateOnlyIfOverdue
PROPERTIES CommandsEnd
CHECK_DEADLOCK FALSE
