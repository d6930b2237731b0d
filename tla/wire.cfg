\* Every validator with every broker; two services with settings of any of six
\* kinds, deployed twice more, and one message.
SPECIFICATION Spec
CONSTANTS
    Formats = {"jsonschema", "protobuf", "protobufjson"}
    Brokers = {"sqs", "redis", "pubsub"}
    s1 = s1
    s2 = s2
    Services = {s1, s2}
    Types = {"created"}
    Majors = {1, 2}
    MaxMinor = 1
    Configs <- MCConfigs
    Names = {"trace"}
    Trace = "trace"
    MaxSent = 1
    MaxDeploys = 1
SYMMETRY ServicesSymmetric
INVARIANTS TypeOK MessagesArriveAsSent PublishedIsAccepted TraceContinues FirehoseKeepsMessages
    ContainersReadable
PROPERTIES HandledUnderCurrentSettings
\* Nothing more to publish, deliver or deploy.
CHECK_DEADLOCK FALSE
