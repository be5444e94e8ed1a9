SPECIFICATION ClientSpec
CONSTANTS
    client = client
    own = own
    Streams = {client}
    Events = {own, other}
    Cap = 1
    Kinds <- EmitOnly
    CallerOf <- MCCallerOf
    Answered = {own}
    None = None
INVARIANT
    EstablishedHearsResponse
CHECK_DEADLOCK FALSE
