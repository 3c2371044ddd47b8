\* Listen, Unlisten, publishes on every exchange, dispatch and a closing channel interleave on one peer with one delivery in flight; another peer listens on n1.
CONSTANTS
    n1 = n1
    n2 = n2
    h1 = h1
    m1 = m1
    m2 = m2
    Namespaces <- MCNamespaces
    Handlers = {h1}
    NoHandler = NoHandler
    Msgs <- MCMsgs
    Private = Private
    OtherListeners = {n1}
    Responses <- AnyResponse
    ChannelMayClose = TRUE
    PreFetch = 1

SPECIFICATION CmdSpec

SYMMETRY MsgSymmetry

CHECK_DEADLOCK FALSE

INVARIANT CmdTypeOK
