\* Safety with crashes and commands in flight.  The supply of connections is
\* finite, so the system may stop.
SPECIFICATION Spec
CONSTANTS
    Users = {u1}
    Gateways = {g1, g2}
    Connections = {c1, c2}
    NoOne = NoOne
    MaxGeneration = 2
    MaxInstance = 2
    MaxCommands = 2
SYMMETRY Symmetric
INVARIANTS
    TypeOK
    LeaseIsNewest
    GenerationsUnique
    OpenSessionIsRegistered
    RegistryHoldsLiveSessions
PROPERTIES
    ClearsOwnLeaseOnly
    FencedMonotone
CHECK_DEADLOCK FALSE
