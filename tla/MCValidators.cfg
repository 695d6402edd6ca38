CONSTANTS
    Nodes <- MCNodes
    Genesis <- MCGenesis
    Leader = "n0"
    JoinExpiry = 2
SPECIFICATION Spec
INVARIANT
    TypeOK
