SPECIFICATION FairSpec
CONSTANTS
    Machines = {1, 2}
    Boxes = {0}
    Clients <- MCClients
    MaxSends <- MCMaxSends
INVARIANTS
    OneNotice
    SendersMatch
PROPERTIES
    Delivered
    SendReturns
    ImplementsMailSystem
