SPECIFICATION ManagementSpec
CONSTANTS
    Instances = 2
    MaxPid = 6
    StopAttempts = 2
    OperatorActions = {"start", "stop", "restart", "clean-restart", "disable", "enable"}
    MaxCommands = 3
    MaxProcFaults = 1
    MaxInterrupts = 1
    Topic = {"t", "u"}
    MaxNames = 6
    MaxQCommands = 2
    MaxQEvents = 1
CONSTRAINT Informed
INVARIANTS InstancesKnown StoppedProperly QueuesRight
PROPERTY SanityRepairs
CHECK_DEADLOCK FALSE
