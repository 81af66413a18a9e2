CONSTANTS
    Numbers <- MCNumbers
    ValueOf <- MCValueOf
    Plain = {"display"}
    FilePlain = {"on_connect"}
    CommandLines <- MCCommandLines
    UserFiles <- MCUserFiles
    SystemFiles <- MCSystemFiles
    SslSpecs <- MCSslSpecs
    ListenSpecs <- MCListenSpecs
    Ports <- MCPorts
    MaxOthers = 1
    DefaultSpec <- MCDefaultSpec
SPECIFICATION Spec
INVARIANTS
    Precedence
    OnePassword
    CanAuthenticate
    FirstOpenPort
    ListenIsMeant
\* x11spice starts or stops.
CHECK_DEADLOCK FALSE
