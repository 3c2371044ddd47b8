\* Handlers always answer and the channel stays open: a request requeued for want of a handler still circulates forever.
CONSTANTS
    n1 = n1
    n2 = n2
    h1 = h1
    m1 = m1
    m2 = m2
    Namespaces <- MCNamespaces
    Handlers = {h1}
    NoHandler = NoHandler
    Msgs <- MCMsgs
    Private = Private
    OtherListeners = {n1, n2}
    Responses <- AlwaysResponds
    ChannelMayClose = FALSE
    PreFetch = 1

SPECIFICATION CmdSpec



PROPERTY EverySettled
