SPECIFICATION Spec
CONSTANTS
  Streams <- MCStreams
  Payloads <- MCPayloads
  MaxFramePayload = 2
  maxBytes = 7
  MaxFaults = 1
  MaxCrashes = 2
  logsReconnectAttempts = 1
  MaxCommands = 2
INVARIANTS FollowTypeOK PrintsAll WaitsOnlyIfTorn
PROPERTY FollowsLog
CHECK_DEADLOCK FALSE
