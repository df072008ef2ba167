\* Two logins of one user at one gateway, nothing else going wrong.
SPECIFICATION FairSpec
CONSTANTS
    Users = {u1}
    Gateways = {g1}
    Connections = {c1, c2}
    NoOne = NoOne
    MaxGeneration = 2
    MaxInstance = 1
    MaxCommands = 0
PROPERTIES
    NewGenerationReplacesOld
CHECK_DEADLOCK FALSE
