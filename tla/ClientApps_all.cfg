SPECIFICATION ClientSpec
CONSTANTS
    client = client
    own = own
    Streams = {client}
    Events = {own, other, silent}
    Cap = 1
    Kinds <- AnyKind
    CallerOf <- MCCallerOf
    Answered = {own, other}
    None = None
INVARIANT
    ShownIsDelivered
PROPERTIES
    OfferedIsShown
    ClientsEnd
CHECK_DEADLOCK FALSE
