CONSTANTS
    MopQ_size = 4
    Slots = 3
    Delays = {0, 2}
    Kinds = {"insn", "trap", "spec", "flush"}
    MaxHandshakes = 3
    MaxNukes = 2
SPECIFICATION FairSpec
INVARIANTS
    InSync
    RecoveryKept
PROPERTIES
    CommitsInOrder
    HandshakeReturns
