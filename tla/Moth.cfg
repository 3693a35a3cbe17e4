SPECIFICATION Spec
CONSTANTS
    m1 = m1
    m2 = m2
    m3 = m3
    m4 = m4
    Scheme <- MCScheme
    Message = {m1, m2, m3, m4}
    NSub = 2
    subOf <- MCSubOf
    brokerOf <- MCBrokerOf
    decode <- MCDecode
    AmqpOptions <- MCAmqpOptions
    amqpBatch = 1
    amqpPrefetch = 2
    MaxConn = 4
    MaxAmqpFaults = 1
    PubMessage = {m1, m2}
    MaxPubFaults = 3
    PostMessage = {m1, m2}
    Unexportable = {m2}
    MaxMqttFaults = 2
    SubMessage <- MCSubMessage
    decoding <- MCDecoding
    NBindings = 1
    NMid = 4
    receiveMaximum = 2
    mqttBatch = 2
    MaxSubFaults = 2
    Amq1Message = {m1, m2}
    Unreadable = {m2}
    amq1Batch = 2
    amq1Prefetch = 2
    MaxReceiver = 2
    MaxAmq1Faults = 1
    SendMessage = {m1, m2}
    MaxSendFaults = 3
INVARIANTS Consumed PostingKnown
PROPERTIES ClientsServe CloseLosesNothing
CHECK_DEADLOCK FALSE
