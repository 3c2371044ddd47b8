\* Two deliveries in flight at once; other peers listen on every namespace.
CONSTANTS
    n1 = n1
    n2 = n2
    h1 = h1
    m1 = m1
    m2 = m2
    Namespaces <- MCNamespaces
    Handlers = {h1}
    NoHandler = NoHandler
    Msgs <- MCMsgs
    Private = Private
    OtherListeners = {n1, n2}
    Responses <- AnyResponse
    ChannelMayClose = TRUE
    PreFetch = 2

SPECIFICATION CmdSpec


CHECK_DEADLOCK FALSE

PROPERTY BalancedSettled
