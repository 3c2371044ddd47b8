\* handle acks with multiple = true: with two deliveries in flight, answering the later one acks the earlier one too.
CONSTANTS
    n1 = n1
    n2 = n2
    h1 = h1
    m1 = m1
    m2 = m2
    Namespaces <- MCNamespaces
    Handlers = {h1}
    NoHandler = NoHandler
    Msgs <- MCMsgs
    Private = Private
    OtherListeners = {n1}
    Responses <- AnyResponse
    ChannelMayClose = TRUE
    PreFetch = 2

SPECIFICATION CmdSpec

SYMMETRY MsgSymmetry

CHECK_DEADLOCK FALSE

INVARIANT AckedOnlyIfAnswered
