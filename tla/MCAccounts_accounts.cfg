SPECIFICATION Spec
CONSTANTS
    Account = {"ann", "bob"}
    Request = {r1, r2}
    Password = {"old", "new"}
    Ticket = {t1}
    Address = {"lo", "far"}
    Local = "lo"
    Attempts = 1
    Verifiers = 1
    MaxEpoch = 1
    Mishaps = 1
    Traffics <- MCTraffics
    None = None
INVARIANTS
    AdminAccountRemains
    TicketBuysOnce
    SlotsAreReturned
PROPERTIES
    RegistrationMakesClients
SYMMETRY Requests
