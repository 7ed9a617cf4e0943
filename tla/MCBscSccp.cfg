CONSTANTS
    Conns = {c1, c2}
    MaxMsgs <- MCMaxMsgs
    SccpQueueMax <- MCSccpQueueMax
    PingEnabled = TRUE
    PingTimeout <- MCPingTimeout
    PongTimeout <- MCPongTimeout

SPECIFICATION Spec

INVARIANT TypeOK
INVARIANT InOrderDelivery
INVARIANT QueueBounded
INVARIANT NoTimerOnFreedCon
INVARIANT MscSilenceDetected
PROPERTY QueueDrains
PROPERTY MscLinkRefined
