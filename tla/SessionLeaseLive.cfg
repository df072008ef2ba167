\* Liveness: no symmetry; the finite supply of connections may run out, so
\* the system may stop.
SPECIFICATION FairSpec
CONSTANTS
    Users = {u1}
    Gateways = {g1, g2}
    Connections = {c1, c2}
    NoOne = NoOne
    MaxGeneration = 2
    MaxInstance = 2
    MaxCommands = 0
PROPERTIES
    StaleLeaseGoes
    SupersededGoes
CHECK_DEADLOCK FALSE
