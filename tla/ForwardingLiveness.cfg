SPECIFICATION Spec
CONSTANTS
    v1 = v1
    v2 = v2
    NoData = NoData
PROPERTIES
    SilentSourceStopsSender
    FreshSourceIsSent
