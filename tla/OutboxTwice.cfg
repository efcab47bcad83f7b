CONSTANTS
    Events = {e1}
    Relays = {r1, r2}
    BatchSize = 1
    MaxSends = 2
    MaxRelayFaults = 1
SPECIFICATION OutboxSpec
CHECK_DEADLOCK FALSE
INVARIANT PublishedOnce
