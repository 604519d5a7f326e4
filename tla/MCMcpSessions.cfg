CONSTANTS
    Tickets <- MCTickets
    MaxSessions = 1
SPECIFICATION McpFairSpec
INVARIANTS
    McpTypeOK
    TicketsAccounted
    SlotBound
    WaitersMeanFull
PROPERTIES
    AdmittedInOrder
    SlotsNotSnatched
    EveryTicketSettles
CHECK_DEADLOCK FALSE
